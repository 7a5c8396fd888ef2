-------------------------- MODULE AggregatorProofs --------------------------
(***************************************************************************)
(* Invariance proofs for the aggregation task, for every routing table,    *)
(* every set of PDU lengths that fit an empty container, every container   *)
(* size and every queue length.                                            *)
(***************************************************************************)
EXTENDS Aggregator, SequenceTheorems, WellFoundedInduction, TLAPS

\* A frame with a mapped CAN id becomes a well-formed I-PDU of a known class.
LEMMA MappedFrame ==
    ASSUME NEW f \in Frames, GW_Mapped(f)
    PROVE  /\ ToPdu(f) \in Pdus
           /\ CanPduMap[f.msgId].tc \in 0..TC_BEST_EFFORT
    BY MapAssumption DEF Frames, GW_Mapped, ToPdu, Pdus, PduIds

\* The frame set aside, when there is one, is a frame.
LEMMA SetAsideFrame ==
    ASSUME TypeOK, overflowPdu # <<>>
    PROVE  overflowPdu[1] \in Frames /\ overflowPdu = <<overflowPdu[1]>>
    BY DEF TypeOK

\* What processing one PDU does to the types of the container's variables.
LEMMA ProcessPduTypes ==
    ASSUME TypeOK, NEW f \in Frames, ProcessPdu(f)
    PROVE  /\ overflowPdu' \in {<<>>} \cup {<<g>> : g \in Frames}
           /\ containerPending' \in BOOLEAN
           /\ pdus' \in Seq(Pdus)
           /\ containerLen' \in Nat
           /\ iPduCount' \in 0..255
           /\ currentTC' \in 0..TC_BEST_EFFORT
           /\ pc' \in Positions
  <1>1. f.dataLen \in Nat
    BY SizesAssumption DEF Frames
  <1>2. /\ StartedPdus \in Seq(Pdus)
        /\ StartedLen \in Nat
        /\ StartedCount \in 0..255
        /\ \A tc \in 0..TC_BEST_EFFORT : StartedTC(tc) \in 0..TC_BEST_EFFORT
    BY EmptySeq DEF TypeOK, StartedPdus, StartedLen, StartedCount, StartedTC,
                    GW_CONTAINER_HDR_SIZE, TC_BEST_EFFORT
  <1>3. CASE AddPdu(f)
    <2>1. pdus' \in Seq(Pdus)
      BY <1>2, <1>3, MappedFrame, AppendProperties DEF AddPdu
    <2>2. containerLen' \in Nat
      BY <1>1, <1>2, <1>3 DEF AddPdu, GW_IPDU_HDR_SIZE
    <2>3. iPduCount' \in 0..255
      BY <1>2, <1>3 DEF AddPdu
    <2>4. currentTC' \in 0..TC_BEST_EFFORT
      BY <1>2, <1>3, MappedFrame DEF AddPdu, Smaller
    <2> QED
      BY <1>3, <2>1, <2>2, <2>3, <2>4 DEF AddPdu, Positions
  <1>4. CASE CarryOver(f)
    BY <1>2, <1>4, MappedFrame DEF CarryOver, Positions
  <1>5. CASE IgnorePdu(f)
    BY <1>5 DEF IgnorePdu, TypeOK, container, Positions
  <1> QED
    BY <1>3, <1>4, <1>5 DEF ProcessPdu

\* A container handed to the driver is well typed.
LEMMA ContainerType ==
    ASSUME TypeOK
    PROVE  Container \in Containers
    BY DEF TypeOK, Container, Containers, TC_to_FIFO, TC_BEST_EFFORT

\* What resetting the container does to the types.
LEMMA ResetTypes ==
    ASSUME TypeOK, ResetContainer
    PROVE  /\ containerPending' \in BOOLEAN
           /\ pdus' \in Seq(Pdus)
           /\ containerLen' \in Nat
           /\ iPduCount' \in 0..255
           /\ currentTC' \in 0..TC_BEST_EFFORT
           /\ flushed' \in Seq(Pdus)
           /\ pc' \in Positions
  <1>1. flushed' \in Seq(Pdus)
    BY ConcatProperties DEF TypeOK, ResetContainer
  <1>2. pdus' \in Seq(Pdus)
    BY EmptySeq DEF ResetContainer
  <1>3. currentTC' \in 0..TC_BEST_EFFORT
    BY DEF TypeOK, ResetContainer
  <1>4. containerLen' \in Nat /\ iPduCount' \in 0..255
    BY DEF ResetContainer
  <1>5. containerPending' \in BOOLEAN /\ pc' \in Positions
    BY DEF ResetContainer, Positions
  <1> QED
    BY <1>1, <1>2, <1>3, <1>4, <1>5

CanStats ==
    [rxCount : Nat, queueFullErrors : Nat, containersSent : Nat,
     ethTxErrors : Nat, ethBufferErrors : Nat]

\* Incrementing a counter keeps the statistics well typed.
LEMMA CountersType ==
    ASSUME NEW s \in CanStats
    PROVE  /\ [s EXCEPT !.rxCount = @ + 1] \in CanStats
           /\ [s EXCEPT !.rxCount = @ + 1, !.queueFullErrors = @ + 1] \in CanStats
           /\ [s EXCEPT !.containersSent = @ + 1] \in CanStats
           /\ [s EXCEPT !.ethTxErrors = @ + 1] \in CanStats
           /\ [s EXCEPT !.ethBufferErrors = @ + 1] \in CanStats
  <1>1. [s EXCEPT !.rxCount = @ + 1] \in CanStats
    BY DEF CanStats
  <1>2. [s EXCEPT !.rxCount = @ + 1, !.queueFullErrors = @ + 1] \in CanStats
    <2>1. \A t \in CanStats : [t EXCEPT !.queueFullErrors = @ + 1] \in CanStats
      BY DEF CanStats
    <2>2. [[s EXCEPT !.rxCount = @ + 1] EXCEPT !.queueFullErrors = @ + 1] \in CanStats
      BY <1>1, <2>1
    <2> QED
      BY <2>2 DEF CanStats
  <1>3. [s EXCEPT !.containersSent = @ + 1] \in CanStats
    BY DEF CanStats
  <1>4. [s EXCEPT !.ethTxErrors = @ + 1] \in CanStats
    BY DEF CanStats
  <1>5. [s EXCEPT !.ethBufferErrors = @ + 1] \in CanStats
    BY DEF CanStats
  <1> QED
    BY <1>1, <1>2, <1>3, <1>4, <1>5

\* Every step of the task or of its environment preserves the types.
LEMMA TypeStep ==
    ASSUME TypeOK, [Next]_vars
    PROVE  TypeOK'
  <1>1. CASE ProcessOverflow
    BY <1>1, SetAsideFrame, ProcessPduTypes DEF ProcessOverflow, TypeOK
  <1>2. CASE ReceiveFromQueue
    <2>1. Head(queue) \in Frames /\ Tail(queue) \in Seq(Frames)
      BY <1>2, HeadTailProperties DEF ReceiveFromQueue, TypeOK
    <2>2. taken' \in Seq(Pdus)
      BY <1>2, <2>1, MappedFrame, AppendProperties DEF ReceiveFromQueue, TypeOK
    <2> QED
      BY <1>2, <2>1, <2>2, ProcessPduTypes DEF ReceiveFromQueue, TypeOK
  <1>3. CASE QueueEmpty
    BY <1>3 DEF QueueEmpty, TypeOK, container, Positions
  <1>4. CASE Decide
    BY <1>4 DEF Decide, TypeOK, container, Positions
  <1>5. CASE ProvideOk
    BY <1>5 DEF ProvideOk, TypeOK, container, Positions
  <1>6. CASE ProvideFails
    <2>1. canStats' \in CanStats
      BY <1>6, CountersType DEF ProvideFails, TypeOK, CanStats
    <2> QED
      BY <1>6, <2>1, ResetTypes DEF ProvideFails, TypeOK, CanStats
  <1>7. CASE TransmitOk
    <2>1. canStats' \in CanStats
      BY <1>7, CountersType DEF TransmitOk, TypeOK, CanStats
    <2>2. sent' \in Seq(Containers)
      BY <1>7, ContainerType, AppendProperties DEF TransmitOk, TypeOK
    <2>3. late' \in Nat
      BY <1>7 DEF TransmitOk, TypeOK
    <2> QED
      BY <1>7, <2>1, <2>2, <2>3, ResetTypes DEF TransmitOk, TypeOK, CanStats
  <1>8. CASE TransmitFails
    <2>1. canStats' \in CanStats
      BY <1>8, CountersType DEF TransmitFails, TypeOK, CanStats
    <2> QED
      BY <1>8, <2>1, ResetTypes DEF TransmitFails, TypeOK, CanStats
  <1>9. CASE GateChange
    BY <1>9 DEF GateChange, TypeOK, container
  <1>10. ASSUME NEW f \in Frames, CAN0_Callback(f)
         PROVE  TypeOK'
    <2>1. canStats' \in CanStats
      BY <1>10, CountersType DEF CAN0_Callback, TypeOK, CanStats
    <2>2. queue' \in Seq(Frames)
      <3>1. queue' = queue \/ queue' = Append(queue, f)
        BY <1>10 DEF CAN0_Callback
      <3>2. queue \in Seq(Frames)
        BY DEF TypeOK
      <3>3. Append(queue, f) \in Seq(Frames)
        BY <3>2, AppendProperties
      <3> QED
        BY <3>1, <3>2, <3>3
    <2>3. offered' \in Nat
      BY <1>10 DEF CAN0_Callback, TypeOK
    <2> QED
      BY <1>10, <2>1, <2>2, <2>3 DEF CAN0_Callback, TypeOK, container, CanStats
  <1>11. CASE UNCHANGED vars
    BY <1>11 DEF vars, container, TypeOK
  <1> QED
    BY <1>1, <1>2, <1>3, <1>4, <1>5, <1>6, <1>7, <1>8, <1>9, <1>10, <1>11
    DEF Next, TaskStep

\* The initial state is well typed.
LEMMA TypeInit == Init => TypeOK
  <1>1. Init => /\ queue \in Seq(Frames) /\ pdus \in Seq(Pdus)
                /\ sent \in Seq(Containers) /\ taken \in Seq(Pdus)
                /\ flushed \in Seq(Pdus)
    BY EmptySeq DEF Init
  <1>2. Init => canStats \in CanStats
    BY DEF Init, CanStats
  <1>3. Init => /\ containerLen \in Nat /\ iPduCount \in 0..255
                /\ currentTC \in 0..TC_BEST_EFFORT /\ offered \in Nat
                /\ late \in Nat
    BY DEF Init, TC_BEST_EFFORT
  <1>4. Init => /\ overflowPdu \in {<<>>} \cup {<<f>> : f \in Frames}
                /\ containerPending \in BOOLEAN /\ pc \in Positions
                /\ gateOpen \in BOOLEAN
    BY DEF Init, Positions
  <1> QED
    BY <1>1, <1>2, <1>3, <1>4 DEF TypeOK, CanStats

\* The task keeps its types: iPduCount stays a byte, a container only travels
\* in FIFO 0 to 2, and every PDU in it came from the routing table.
THEOREM TypeCorrect == Spec => []TypeOK
  <1>1. TypeOK /\ [Next]_vars => TypeOK'
    BY TypeStep
  <1> QED
    BY TypeInit, <1>1, PTL DEF Spec
-----------------------------------------------------------------------------
(***************************************************************************)
(* The inductive invariant.  CarryOverSafe needs ContainerFits (a pending  *)
(* container holds a PDU, so an overflow always forces the flush) and      *)
(* ContainerFits needs CarryOverSafe (a carried PDU meets a fresh          *)
(* container, into which it fits).                                         *)
(***************************************************************************)
IInv == TypeOK /\ CarryOverSafe /\ ContainerFits

\* A PDU is set aside only by a container that already holds another one: an
\* empty container has room for any PDU.
LEMMA CarryOverNeedsPending ==
    ASSUME TypeOK, NEW f \in Frames, CarryOver(f)
    PROVE  containerPending
  <1>1. /\ f.dataLen \in Nat
        /\ GW_CONTAINER_HDR_SIZE + GW_IPDU_HDR_SIZE + f.dataLen <= MaxSend
        /\ MaxSend \in Nat
    BY SizesAssumption DEF Frames
  <1>2. ~FitsWithin(StartedLen, GW_IPDU_HDR_SIZE + f.dataLen)
    BY DEF CarryOver
  <1>3. SUFFICES ASSUME ~containerPending
                 PROVE  FALSE
    OBVIOUS
  <1> QED
    BY <1>1, <1>2, <1>3 DEF StartedLen, FitsWithin, GW_CONTAINER_HDR_SIZE,
                            GW_IPDU_HDR_SIZE

\* Appending a PDU keeps the container within its bounds.
LEMMA AddPduFits ==
    ASSUME TypeOK, ContainerFits, NEW f \in Frames, AddPdu(f)
    PROVE  /\ containerPending'
           /\ pdus' # <<>>
           /\ GW_CONTAINER_HDR_SIZE < containerLen'
           /\ containerLen' <= MaxSend
           /\ pc' = "decide"
           /\ overflowPdu' = <<>>
  <1>1. f.dataLen \in Nat /\ MaxSend \in Nat
    BY SizesAssumption DEF Frames
  <1>2. StartedLen \in Nat /\ GW_CONTAINER_HDR_SIZE <= StartedLen
    BY DEF StartedLen, TypeOK, ContainerFits, GW_CONTAINER_HDR_SIZE
  <1>3. StartedPdus \in Seq(Pdus)
    BY EmptySeq DEF TypeOK, StartedPdus
  <1>4. pdus' # <<>>
    BY <1>3, MappedFrame, AppendProperties DEF AddPdu
  <1>5. GW_CONTAINER_HDR_SIZE < containerLen' /\ containerLen' <= MaxSend
    BY <1>1, <1>2 DEF AddPdu, FitsWithin, GW_CONTAINER_HDR_SIZE, GW_IPDU_HDR_SIZE
  <1> QED
    BY <1>4, <1>5 DEF AddPdu

\* Setting a PDU aside leaves the pending container as it was.
LEMMA CarryOverFits ==
    ASSUME TypeOK, ContainerFits, NEW f \in Frames, CarryOver(f)
    PROVE  /\ containerPending /\ containerPending'
           /\ pdus' = pdus
           /\ containerLen' = containerLen
           /\ pc' = "decide"
           /\ overflowPdu' = <<f>>
           /\ GW_Mapped(f)
  <1>1. containerPending
    BY CarryOverNeedsPending
  <1> QED
    BY <1>1 DEF CarryOver, StartedPdus, StartedLen

\* The PDU carried over opens the next container; it is neither set aside
\* again nor ignored.
LEMMA CarriedPduIsAdded ==
    ASSUME IInv, ProcessOverflow
    PROVE  AddPdu(overflowPdu[1]) /\ overflowPdu[1] \in Frames /\ ~containerPending
  <1>1. overflowPdu[1] \in Frames /\ pc = "source" /\ overflowPdu # <<>>
    BY SetAsideFrame DEF IInv, ProcessOverflow
  <1>2. ~containerPending /\ GW_Mapped(overflowPdu[1])
    BY <1>1 DEF IInv, CarryOverSafe
  <1>3. ~CarryOver(overflowPdu[1])
    BY <1>1, <1>2, CarryOverNeedsPending DEF IInv
  <1>4. ~IgnorePdu(overflowPdu[1])
    BY <1>2 DEF IgnorePdu
  <1> QED
    BY <1>1, <1>2, <1>3, <1>4 DEF ProcessOverflow, ProcessPdu

\* Every step preserves CarryOverSafe.
LEMMA CarryOverStep ==
    ASSUME IInv, [Next]_vars
    PROVE  CarryOverSafe'
  <1> USE DEF CarryOverSafe, GW_Mapped
  <1>1. CASE ProcessOverflow
    BY <1>1, CarriedPduIsAdded DEF AddPdu
  <1>2. CASE ReceiveFromQueue
    <2>1. Head(queue) \in Frames
      BY <1>2, HeadTailProperties DEF IInv, TypeOK, ReceiveFromQueue
    <2>2. CASE AddPdu(Head(queue))
      BY <2>2 DEF AddPdu
    <2>3. CASE CarryOver(Head(queue))
      BY <2>1, <2>3, CarryOverFits DEF IInv
    <2>4. CASE IgnorePdu(Head(queue))
      BY <2>4 DEF IgnorePdu
    <2> QED
      BY <1>2, <2>2, <2>3, <2>4 DEF ReceiveFromQueue, ProcessPdu
  <1>3. CASE QueueEmpty
    BY <1>3 DEF QueueEmpty
  <1>4. CASE Decide
    BY <1>4 DEF IInv, ContainerFits, Decide, ShouldTransmit, container
  <1>5. CASE ProvideOk
    BY <1>5 DEF IInv, ContainerFits, ProvideOk, container
  <1>6. CASE ProvideFails
    BY <1>6 DEF IInv, ProvideFails, ResetContainer
  <1>7. CASE TransmitOk
    BY <1>7 DEF IInv, TransmitOk, ResetContainer
  <1>8. CASE TransmitFails
    BY <1>8 DEF IInv, TransmitFails, ResetContainer
  <1>9. CASE GateChange
    BY <1>9 DEF IInv, GateChange, container
  <1>10. ASSUME NEW f \in Frames, CAN0_Callback(f)
         PROVE  CarryOverSafe'
    BY <1>10 DEF IInv, CAN0_Callback, container
  <1>11. CASE UNCHANGED vars
    BY <1>11 DEF IInv, vars, container
  <1> QED
    BY <1>1, <1>2, <1>3, <1>4, <1>5, <1>6, <1>7, <1>8, <1>9, <1>10, <1>11
    DEF Next, TaskStep

\* Every step preserves ContainerFits.
LEMMA ContainerFitsStep ==
    ASSUME IInv, [Next]_vars
    PROVE  ContainerFits'
  <1>1. CASE ProcessOverflow
    <2>1. AddPdu(overflowPdu[1]) /\ overflowPdu[1] \in Frames
      BY <1>1, CarriedPduIsAdded
    <2> QED
      BY <2>1, AddPduFits DEF IInv, ContainerFits
  <1>2. CASE ReceiveFromQueue
    <2>1. Head(queue) \in Frames
      BY <1>2, HeadTailProperties DEF IInv, TypeOK, ReceiveFromQueue
    <2>2. CASE AddPdu(Head(queue))
      BY <2>1, <2>2, AddPduFits DEF IInv, ContainerFits
    <2>3. CASE CarryOver(Head(queue))
      BY <2>1, <2>3, CarryOverFits DEF IInv, ContainerFits
    <2>4. CASE IgnorePdu(Head(queue))
      BY <2>4 DEF IgnorePdu, IInv, ContainerFits, container
    <2> QED
      BY <1>2, <2>2, <2>3, <2>4 DEF ReceiveFromQueue, ProcessPdu
  <1>3. CASE QueueEmpty
    BY <1>3 DEF QueueEmpty, IInv, ContainerFits, container
  <1>4. CASE Decide
    BY <1>4 DEF Decide, ShouldTransmit, IInv, ContainerFits, container
  <1>5. CASE ProvideOk
    BY <1>5 DEF ProvideOk, IInv, ContainerFits, container
  <1>6. CASE ProvideFails
    BY <1>6 DEF ProvideFails, ResetContainer, ContainerFits
  <1>7. CASE TransmitOk
    BY <1>7 DEF TransmitOk, ResetContainer, ContainerFits
  <1>8. CASE TransmitFails
    BY <1>8 DEF TransmitFails, ResetContainer, ContainerFits
  <1>9. CASE GateChange
    BY <1>9 DEF GateChange, IInv, ContainerFits, container
  <1>10. ASSUME NEW f \in Frames, CAN0_Callback(f)
         PROVE  ContainerFits'
    BY <1>10 DEF CAN0_Callback, IInv, ContainerFits, container
  <1>11. CASE UNCHANGED vars
    BY <1>11 DEF vars, IInv, ContainerFits, container
  <1> QED
    BY <1>1, <1>2, <1>3, <1>4, <1>5, <1>6, <1>7, <1>8, <1>9, <1>10, <1>11
    DEF Next, TaskStep

\* The invariant holds in every reachable state.
LEMMA InvariantHolds == Spec => []IInv
  <1>1. Init => IInv
    BY TypeInit DEF Init, IInv, CarryOverSafe, ContainerFits
  <1>2. IInv /\ [Next]_vars => IInv'
    BY TypeStep, CarryOverStep, ContainerFitsStep DEF IInv
  <1> QED
    BY <1>1, <1>2, PTL DEF Spec

\* The PDU in overflowPdu always opens the next container: it is never
\* overwritten, whatever the queue, the gate and the driver do meanwhile.
THEOREM CarryOverIsSafe == Spec => []CarryOverSafe
  <1>1. IInv => CarryOverSafe
    BY DEF IInv
  <1> QED
    BY InvariantHolds, <1>1, PTL

\* A container handed to the Ethernet driver holds a PDU and fits the buffer
\* the task asks for.
THEOREM ContainersFit == Spec => []ContainerFits
  <1>1. IInv => ContainerFits
    BY DEF IInv
  <1> QED
    BY InvariantHolds, <1>1, PTL
-----------------------------------------------------------------------------
(***************************************************************************)
(* Conservation of PDUs, on top of IInv.                                   *)
(***************************************************************************)
\* Moving one element from behind two sequences to the end of the second.
LEMMA AppendToMiddle ==
    ASSUME NEW S, NEW s \in Seq(S), NEW t \in Seq(S), NEW x \in S
    PROVE  /\ Append((s \o t) \o <<>>, x) = (s \o Append(t, x)) \o <<>>
           /\ Append((s \o t) \o <<>>, x) = (s \o t) \o <<x>>
           /\ (s \o <<>>) \o <<x>> = (s \o Append(<<>>, x)) \o <<>>
           /\ ((s \o t) \o <<>>) = s \o t
  <1>1. /\ <<x>> \in Seq(S) /\ <<>> \in Seq(S)
        /\ s \o t \in Seq(S)
        /\ Append(t, x) \in Seq(S) /\ Append(<<>>, x) \in Seq(S)
    BY EmptySeq, ConcatProperties, AppendProperties
  <1>2. (s \o t) \o <<>> = s \o t
    BY <1>1, ConcatEmptySeq
  <1>3. Append(s \o t, x) = (s \o t) \o <<x>>
    BY <1>1, AppendIsConcat
  <1>4. Append(t, x) = t \o <<x>> /\ Append(<<>>, x) = <<>> \o <<x>>
    BY <1>1, AppendIsConcat
  <1>5. (s \o t) \o <<x>> = s \o (t \o <<x>>)
    BY <1>1, ConcatAssociative
  <1>6. (s \o <<>>) \o <<x>> = s \o (<<>> \o <<x>>)
    BY <1>1, ConcatAssociative
  <1>7. /\ s \o Append(t, x) \in Seq(S)
        /\ s \o Append(<<>>, x) \in Seq(S)
    BY <1>1, ConcatProperties
  <1>8. /\ (s \o Append(t, x)) \o <<>> = s \o Append(t, x)
        /\ (s \o Append(<<>>, x)) \o <<>> = s \o Append(<<>>, x)
    BY <1>7, ConcatEmptySeq
  <1> QED
    BY <1>2, <1>3, <1>4, <1>5, <1>6, <1>8

\* The container a PDU meets holds exactly the PDUs written so far.
LEMMA StartedIsCurrent ==
    ASSUME IInv
    PROVE  StartedPdus = pdus
    BY DEF IInv, ContainerFits, StartedPdus

\* The PDU set aside is a sequence of at most one mapped PDU.
LEMMA SetAsideType ==
    ASSUME IInv
    PROVE  SetAside \in Seq(Pdus)
  <1>1. CASE overflowPdu = <<>>
    BY <1>1, EmptySeq DEF SetAside
  <1>2. CASE overflowPdu # <<>>
    <2>1. ToPdu(overflowPdu[1]) \in Pdus
      BY <1>2, SetAsideFrame, MappedFrame DEF IInv, CarryOverSafe
    <2> QED
      BY <1>2, <2>1 DEF SetAside
  <1> QED
    BY <1>1, <1>2

\* ToPdu reads constants and its argument only.
LEMMA SetAsideAfterCarry ==
    ASSUME NEW f \in Frames, overflowPdu' = <<f>>
    PROVE  SetAside' = <<ToPdu(f)>>
    BY DEF SetAside, ToPdu

\* Appending the carried PDU moves it from overflowPdu into the container.
LEMMA ProcessOverflowMoves ==
    ASSUME IInv, ProcessOverflow
    PROVE  /\ pdus = <<>> /\ ToPdu(overflowPdu[1]) \in Pdus
           /\ pdus' = Append(<<>>, ToPdu(overflowPdu[1]))
           /\ SetAside = <<ToPdu(overflowPdu[1])>> /\ SetAside' = <<>>
  <1>1. /\ AddPdu(overflowPdu[1]) /\ overflowPdu[1] \in Frames
        /\ ~containerPending
    BY CarriedPduIsAdded
  <1>2. pdus = <<>> /\ StartedPdus = <<>>
    BY <1>1 DEF IInv, ContainerFits, StartedPdus
  <1>3. ToPdu(overflowPdu[1]) \in Pdus
    BY <1>1, MappedFrame DEF AddPdu
  <1>4. overflowPdu # <<>> /\ overflowPdu' = <<>>
    BY <1>1 DEF ProcessOverflow, AddPdu
  <1> QED
    BY <1>1, <1>2, <1>3, <1>4 DEF AddPdu, SetAside

\* A PDU taken from the queue goes to the end of the container or is set
\* aside behind it; a frame without a mapping goes nowhere.
LEMMA ReceiveMoves ==
    ASSUME IInv, ReceiveFromQueue
    PROVE  /\ SetAside = <<>>
           /\ \/ /\ ToPdu(Head(queue)) \in Pdus
                 /\ taken' = Append(taken, ToPdu(Head(queue)))
                 /\ pdus' = Append(pdus, ToPdu(Head(queue)))
                 /\ SetAside' = <<>>
              \/ /\ ToPdu(Head(queue)) \in Pdus
                 /\ taken' = Append(taken, ToPdu(Head(queue)))
                 /\ pdus' = pdus
                 /\ SetAside' = <<ToPdu(Head(queue))>>
              \/ taken' = taken /\ pdus' = pdus /\ SetAside' = <<>>
  <1>1. SetAside = <<>>
    BY DEF ReceiveFromQueue, SetAside
  <1>2. Head(queue) \in Frames
    BY HeadTailProperties DEF IInv, TypeOK, ReceiveFromQueue
  <1>3. CASE AddPdu(Head(queue))
    <2>1. SetAside' = <<>>
      BY <1>3 DEF AddPdu, SetAside
    <2> QED
      BY <1>1, <1>2, <1>3, <2>1, MappedFrame, StartedIsCurrent
      DEF AddPdu, ReceiveFromQueue
  <1>4. CASE CarryOver(Head(queue))
    <2>1. pdus' = pdus /\ overflowPdu' = <<Head(queue)>> /\ GW_Mapped(Head(queue))
      BY <1>2, <1>4, CarryOverFits DEF IInv
    <2> QED
      BY <1>1, <1>2, <2>1, MappedFrame, SetAsideAfterCarry DEF ReceiveFromQueue
  <1>5. CASE IgnorePdu(Head(queue))
    <2>1. SetAside' = <<>>
      BY <1>5 DEF IgnorePdu, SetAside
    <2> QED
      BY <1>1, <1>5, <2>1 DEF IgnorePdu, ReceiveFromQueue, container
  <1> QED
    BY <1>3, <1>4, <1>5 DEF ReceiveFromQueue, ProcessPdu

\* Flushing the container, delivered or not.
LEMMA ResetMoves ==
    ASSUME ResetContainer, UNCHANGED overflowPdu
    PROVE  /\ pdus' = <<>> /\ flushed' = flushed \o pdus
           /\ SetAside' = SetAside
    BY DEF ResetContainer, SetAside, ToPdu

\* Flushing moves the container's PDUs behind the ones flushed before.
LEMMA ResetConserves ==
    ASSUME IInv, PduConservation, ResetContainer, UNCHANGED <<overflowPdu, taken>>
    PROVE  PduConservation'
  <1>1. flushed \o pdus \in Seq(Pdus)
    BY ConcatProperties DEF IInv, TypeOK
  <1>2. (flushed \o pdus) \o <<>> = flushed \o pdus
    BY <1>1, ConcatEmptySeq
  <1> QED
    BY <1>2, ResetMoves DEF PduConservation

\* A step that leaves the task's data alone.
LEMMA UntouchedConserves ==
    ASSUME PduConservation, UNCHANGED <<taken, flushed, pdus, overflowPdu>>
    PROVE  PduConservation'
    BY DEF PduConservation, SetAside, ToPdu

\* Every step conserves the PDUs.
LEMMA ConservationStep ==
    ASSUME IInv, PduConservation, [Next]_vars
    PROVE  PduConservation'
  <1>1. CASE ProcessOverflow
    <2>1. flushed \in Seq(Pdus)
      BY DEF IInv, TypeOK
    <2>2. taken' = taken /\ flushed' = flushed
      BY <1>1 DEF ProcessOverflow
    <2>3. PICK x \in Pdus : /\ pdus = <<>> /\ pdus' = Append(<<>>, x)
                            /\ SetAside = <<x>> /\ SetAside' = <<>>
      BY <1>1, ProcessOverflowMoves
    <2>4. (flushed \o <<>>) \o <<x>> = (flushed \o Append(<<>>, x)) \o <<>>
      BY <2>1, AppendToMiddle
    <2> QED
      BY <2>2, <2>3, <2>4 DEF PduConservation
  <1>2. CASE ReceiveFromQueue
    <2>1. flushed \in Seq(Pdus) /\ pdus \in Seq(Pdus)
      BY DEF IInv, TypeOK
    <2>2. flushed' = flushed
      BY <1>2 DEF ReceiveFromQueue
    <2>3. SetAside = <<>> /\ taken = (flushed \o pdus) \o <<>>
      BY <1>2, ReceiveMoves DEF PduConservation
    <2>4. ASSUME NEW x \in Pdus
          PROVE  /\ Append(taken, x) = (flushed \o Append(pdus, x)) \o <<>>
                 /\ Append(taken, x) = (flushed \o pdus) \o <<x>>
      <3>1. Append((flushed \o pdus) \o <<>>, x) = (flushed \o Append(pdus, x)) \o <<>>
        BY <2>1, <2>4, AppendToMiddle
      <3>2. Append((flushed \o pdus) \o <<>>, x) = (flushed \o pdus) \o <<x>>
        BY <2>1, <2>4, AppendToMiddle
      <3> QED
        BY <2>3, <3>1, <3>2
    <2> QED
      BY <1>2, <2>2, <2>3, <2>4, ReceiveMoves DEF PduConservation
  <1>3. CASE QueueEmpty
    BY <1>3, UntouchedConserves DEF QueueEmpty, container
  <1>4. CASE Decide
    BY <1>4, UntouchedConserves DEF Decide, container
  <1>5. CASE ProvideOk
    BY <1>5, UntouchedConserves DEF ProvideOk, container
  <1>6. CASE ProvideFails
    BY <1>6, ResetConserves DEF ProvideFails
  <1>7. CASE TransmitOk
    BY <1>7, ResetConserves DEF TransmitOk
  <1>8. CASE TransmitFails
    BY <1>8, ResetConserves DEF TransmitFails
  <1>9. CASE GateChange
    BY <1>9, UntouchedConserves DEF GateChange, container
  <1>10. ASSUME NEW f \in Frames, CAN0_Callback(f)
         PROVE  PduConservation'
    BY <1>10, UntouchedConserves DEF CAN0_Callback, container
  <1>11. CASE UNCHANGED vars
    BY <1>11, UntouchedConserves DEF vars, container
  <1> QED
    BY <1>1, <1>2, <1>3, <1>4, <1>5, <1>6, <1>7, <1>8, <1>9, <1>10, <1>11
    DEF Next, TaskStep

\* No PDU taken from xQueue_CAN is lost, repeated or reordered between the
\* queue and the containers, for any container size and any PDU lengths.
THEOREM PdusAreConserved == Spec => []PduConservation
  <1>1. Init => PduConservation
    <2>1. <<>> = (<<>> \o <<>>) \o <<>>
      BY EmptySeq, ConcatEmptySeq
    <2> QED
      BY <2>1 DEF Init, PduConservation, SetAside
  <1>2. IInv /\ PduConservation /\ [Next]_vars => PduConservation'
    BY ConservationStep
  <1> QED
    BY InvariantHolds, <1>1, <1>2, PTL DEF Spec
-----------------------------------------------------------------------------
(***************************************************************************)
(* The gate.  A container decided on while the gate is closed has no room  *)
(* left; one decided on before it closed is the last of its kind.          *)
(***************************************************************************)
\* The PDU that waits in overflowPdu does not fit the container it met.
DidNotFit ==
    (overflowPdu # <<>> /\ pc # "source") =>
        containerLen + (GW_IPDU_HDR_SIZE + overflowPdu[1].dataLen) > MaxSend

\* A PDU that is set aside does not fit the pending container.
LEMMA CarryOverDidNotFit ==
    ASSUME IInv, NEW f \in Frames, CarryOver(f)
    PROVE  DidNotFit'
  <1>1. /\ f.dataLen \in Nat /\ MaxSend \in Nat /\ containerLen \in Nat
    BY SizesAssumption DEF Frames, IInv, TypeOK
  <1>2. containerPending /\ containerLen' = containerLen /\ overflowPdu' = <<f>>
    BY CarryOverFits DEF IInv
  <1>3. ~(containerLen + (GW_IPDU_HDR_SIZE + f.dataLen) <= MaxSend)
    BY <1>2 DEF CarryOver, FitsWithin, StartedLen
  <1>4. overflowPdu'[1] = f
    BY <1>2
  <1> QED
    BY <1>1, <1>2, <1>3, <1>4 DEF DidNotFit, GW_IPDU_HDR_SIZE

\* Every step preserves DidNotFit.
LEMMA DidNotFitStep ==
    ASSUME IInv, DidNotFit, [Next]_vars
    PROVE  DidNotFit'
  <1>1. CASE ProcessOverflow
    BY <1>1, CarriedPduIsAdded DEF AddPdu, DidNotFit
  <1>2. CASE ReceiveFromQueue
    <2>1. Head(queue) \in Frames
      BY <1>2, HeadTailProperties DEF IInv, TypeOK, ReceiveFromQueue
    <2>2. CASE AddPdu(Head(queue))
      BY <2>2 DEF AddPdu, DidNotFit
    <2>3. CASE CarryOver(Head(queue))
      BY <2>1, <2>3, CarryOverDidNotFit
    <2>4. CASE IgnorePdu(Head(queue))
      BY <2>4 DEF IgnorePdu, DidNotFit
    <2> QED
      BY <1>2, <2>2, <2>3, <2>4 DEF ReceiveFromQueue, ProcessPdu
  <1>3. CASE QueueEmpty
    BY <1>3 DEF QueueEmpty, DidNotFit
  <1>4. CASE Decide
    BY <1>4 DEF Decide, DidNotFit, container
  <1>5. CASE ProvideOk
    BY <1>5 DEF ProvideOk, DidNotFit, container
  <1>6. CASE ProvideFails \/ TransmitOk \/ TransmitFails
    BY <1>6 DEF ProvideFails, TransmitOk, TransmitFails, ResetContainer, DidNotFit
  <1>7. CASE GateChange
    BY <1>7 DEF GateChange, DidNotFit, container
  <1>8. ASSUME NEW f \in Frames, CAN0_Callback(f)
         PROVE  DidNotFit'
    BY <1>8 DEF CAN0_Callback, DidNotFit, container
  <1>9. CASE UNCHANGED vars
    BY <1>9 DEF vars, DidNotFit, container
  <1> QED
    BY <1>1, <1>2, <1>3, <1>4, <1>5, <1>6, <1>7, <1>8, <1>9 DEF Next, TaskStep

\* What is decided on while the gate is closed has no room for some PDU.
LEMMA ClosedMeansFull ==
    ASSUME IInv, DidNotFit, pc = "decide", ShouldTransmit, ~gateOpen
    PROVE  HasNoRoom
  <1>1. /\ containerPending
        /\ overflowPdu # <<>> \/ containerLen >= MaxSend
    BY DEF ShouldTransmit
  <1>2. containerLen \in Nat /\ MaxSend \in Nat /\ PduLens \subseteq Nat
    BY SizesAssumption DEF IInv, TypeOK
  <1>3. CASE overflowPdu # <<>>
    <2>1. overflowPdu[1].dataLen \in PduLens
      BY <1>3, SetAsideFrame DEF IInv, Frames
    <2>2. containerLen + (GW_IPDU_HDR_SIZE + overflowPdu[1].dataLen) > MaxSend
      BY <1>3 DEF DidNotFit
    <2>3. overflowPdu[1].dataLen \in Nat
      BY <1>2, <2>1
    <2> QED
      BY <1>2, <2>1, <2>2, <2>3 DEF HasNoRoom, FitsWithin, GW_IPDU_HDR_SIZE
  <1>4. CASE containerLen >= MaxSend
    <2>1. pdus \in Seq(Pdus) /\ pdus # <<>>
      BY <1>1 DEF IInv, TypeOK, ContainerFits
    <2>2. Head(pdus).len \in PduLens
      <3>1. Head(pdus) \in Pdus
        BY <2>1, HeadTailProperties
      <3> QED
        BY <3>1 DEF Pdus
    <2>3. Head(pdus).len \in Nat
      BY <1>2, <2>2
    <2> QED
      BY <1>2, <1>4, <2>2, <2>3 DEF HasNoRoom, FitsWithin, GW_IPDU_HDR_SIZE
  <1> QED
    BY <1>1, <1>3, <1>4

\* Once a container was cut short by the closing gate, those that follow it to the
\* driver before the gate opens again have no room left.
LateInv ==
    /\ late \in {0, 1}
    /\ gateOpen => late = 0
    /\ late = 1 /\ pc \in {"provide", "transmit"} => HasNoRoom

\* Every step preserves LateInv.
LEMMA LateStep ==
    ASSUME IInv, DidNotFit, LateInv, [Next]_vars
    PROVE  LateInv'
  <1> USE DEF LateInv
  <1>1. CASE ProcessOverflow \/ ReceiveFromQueue
    <2>1. UNCHANGED <<late, gateOpen>>
      BY <1>1 DEF ProcessOverflow, ReceiveFromQueue
    <2>2. pc' \in {"decide", "source"}
      BY <1>1 DEF ProcessOverflow, ReceiveFromQueue, ProcessPdu, AddPdu, CarryOver,
                  IgnorePdu
    <2> QED
      BY <2>1, <2>2
  <1>2. CASE QueueEmpty
    BY <1>2 DEF QueueEmpty
  <1>3. CASE Decide
    <2>1. /\ UNCHANGED <<late, gateOpen, containerLen>>
          /\ pc = "decide"
          /\ pc' \in {"provide", "transmit"} => ShouldTransmit
      BY <1>3 DEF Decide, container
    <2>2. late = 1 /\ ShouldTransmit => HasNoRoom
      BY <2>1, ClosedMeansFull
    <2>3. HasNoRoom' <=> HasNoRoom
      BY <2>1 DEF HasNoRoom, FitsWithin
    <2> QED
      BY <2>1, <2>2, <2>3
  <1>4. CASE ProvideOk
    <2>1. /\ UNCHANGED <<late, gateOpen, containerLen>>
          /\ pc = "provide"
      BY <1>4 DEF ProvideOk, container
    <2>2. HasNoRoom' <=> HasNoRoom
      BY <2>1 DEF HasNoRoom, FitsWithin
    <2> QED
      BY <2>1, <2>2
  <1>5. CASE ProvideFails \/ TransmitFails
    BY <1>5 DEF ProvideFails, TransmitFails, ResetContainer
  <1>6. CASE TransmitOk
    <2>1. /\ pc = "transmit" /\ pc' = "source" /\ gateOpen' = gateOpen
          /\ late' = IF gateOpen \/ HasNoRoom THEN late ELSE late + 1
      BY <1>6 DEF TransmitOk, ResetContainer
    <2>2. CASE gateOpen \/ HasNoRoom
      BY <2>1, <2>2
    <2>3. CASE ~gateOpen /\ ~HasNoRoom
      <3>1. late = 0
        BY <2>1, <2>3
      <3> QED
        BY <2>1, <2>3, <3>1
    <2> QED
      BY <2>2, <2>3
  <1>7. CASE GateChange
    BY <1>7 DEF GateChange
  <1>8. CASE (\E f \in Frames : CAN0_Callback(f)) \/ UNCHANGED vars
    <2>1. UNCHANGED <<late, gateOpen, pc, containerLen>>
      BY <1>8 DEF CAN0_Callback, vars, container
    <2>2. HasNoRoom' <=> HasNoRoom
      BY <2>1 DEF HasNoRoom, FitsWithin
    <2> QED
      BY <2>1, <2>2
  <1> QED
    BY <1>1, <1>2, <1>3, <1>4, <1>5, <1>6, <1>7, <1>8 DEF Next, TaskStep

\* Although the gate may close between the question and Eth_Transmit, at most one
\* container per closing goes out that had room for every PDU, for any PDU lengths
\* and any container size.
THEOREM GateIsRespected == Spec => []AtMostOneLateContainer
  <1>1. Init => DidNotFit /\ LateInv
    BY DEF Init, DidNotFit, LateInv
  <1>2. IInv /\ DidNotFit /\ [Next]_vars => DidNotFit'
    BY DidNotFitStep
  <1>3. IInv /\ DidNotFit /\ LateInv /\ [Next]_vars => LateInv'
    BY LateStep
  <1>4. LateInv => AtMostOneLateContainer
    BY DEF LateInv, AtMostOneLateContainer
  <1> QED
    BY InvariantHolds, <1>1, <1>2, <1>3, <1>4, PTL DEF Spec
-----------------------------------------------------------------------------
(***************************************************************************)
(* Refinement: the task implements BatchForwarder.  A PDU taken from the   *)
(* queue is an Accept, a flush a Deliver or a Drop of the whole container, *)
(* everything else (the move of the carried PDU included) stutters.        *)
(***************************************************************************)
Pending == pdus \o SetAside
Delivered == [i \in DOMAIN sent |-> sent[i].pdus]

\* Splitting a concatenation where its parts meet.
LEMMA SplitConcat ==
    ASSUME NEW S, NEW s \in Seq(S), NEW t \in Seq(S), s # <<>>
    PROVE  /\ Len(s) \in 1 .. Len(s \o t)
           /\ SubSeq(s \o t, 1, Len(s)) = s
           /\ SubSeq(s \o t, Len(s) + 1, Len(s \o t)) = t
  <1>1. /\ Len(s) \in Nat \ {0} /\ Len(t) \in Nat
        /\ Len(s \o t) = Len(s) + Len(t)
    BY EmptySeq, LenProperties, ConcatProperties
  <1>2. SubSeq(s \o t, 1, Len(s)) = s
    <2>1. SubSeq(s \o t, 1, Len(s)) = SubSeq(s, 1, Len(s))
      BY <1>1, SubSeqOfConcat1
    <2> QED
      BY <2>1, SubSeqFull
  <1>3. SubSeq(s \o t, Len(s) + 1, Len(s \o t)) = t
    <2>1. CASE t = <<>>
      BY <1>1, <2>1, EmptySeq, SubSeqEmpty
    <2>2. CASE t # <<>>
      <3>1. Len(t) \in Nat \ {0}
        BY <2>2, EmptySeq
      <3>2. /\ Len(s) + 1 \in Len(s) + 1 .. Len(s) + Len(t)
            /\ Len(s) + Len(t) \in Len(s) + 1 .. Len(s) + Len(t)
            /\ Len(s) + 1 - Len(s) = 1 /\ Len(s) + Len(t) - Len(s) = Len(t)
        BY <1>1, <3>1
      <3>3. SubSeq(s \o t, Len(s) + 1, Len(s) + Len(t))
              = SubSeq(t, Len(s) + 1 - Len(s), Len(s) + Len(t) - Len(s))
        BY <3>2, SubSeqOfConcat2
      <3> QED
        BY <1>1, <3>2, <3>3, SubSeqFull
    <2> QED
      BY <2>1, <2>2
  <1> QED
    BY <1>1, <1>2, <1>3

\* Appending to a sequence appends to its image under a projection.
LEMMA DeliveredAppend ==
    ASSUME TypeOK, sent' = Append(sent, Container)
    PROVE  Delivered' = Append(Delivered, pdus)
  <1>1. sent \in Seq(Containers) /\ Container \in Containers
    BY ContainerType DEF TypeOK
  <1>2. /\ Len(sent) \in Nat /\ DOMAIN sent = 1 .. Len(sent)
        /\ \A i \in 1..Len(sent) : sent[i] \in Containers
    BY <1>1, LenProperties, ElementOfSeq
  <1>3. /\ sent' \in Seq(Containers) /\ Len(sent') = Len(sent) + 1
        /\ \A i \in 1..Len(sent) : sent'[i] = sent[i]
        /\ sent'[Len(sent) + 1] = Container
    BY <1>1, AppendProperties
  <1>4. DOMAIN sent' = 1 .. Len(sent) + 1
    BY <1>3, LenProperties
  <1>5. Container.pdus = pdus
    BY DEF Container
  <1>6. /\ Delivered = [i \in 1..Len(sent) |-> sent[i].pdus]
        /\ Delivered \in Seq(Seq(Pdus)) /\ Len(Delivered) = Len(sent)
    <2>1. \A i \in 1..Len(sent) : sent[i].pdus \in Seq(Pdus)
      BY <1>2 DEF Containers
    <2> QED
      BY <1>2, <2>1 DEF Delivered
  <1>7. Delivered' = [i \in 1 .. Len(sent) + 1 |-> sent'[i].pdus]
    BY <1>4 DEF Delivered
  <1>8. pdus \in Seq(Pdus)
    BY DEF TypeOK
  <1>9. /\ Append(Delivered, pdus) \in Seq(Seq(Pdus))
        /\ Len(Append(Delivered, pdus)) = Len(sent) + 1
        /\ \A i \in 1..Len(sent) : Append(Delivered, pdus)[i] = Delivered[i]
        /\ Append(Delivered, pdus)[Len(sent) + 1] = pdus
    BY <1>6, <1>8, AppendProperties
  <1>10. Append(Delivered, pdus) = [i \in 1 .. Len(sent) + 1 |-> Append(Delivered, pdus)[i]]
    BY <1>9, LenProperties
  <1>11. \A i \in 1 .. Len(sent) + 1 : Append(Delivered, pdus)[i] = sent'[i].pdus
    <2>1. ASSUME NEW i \in 1 .. Len(sent) + 1, i # Len(sent) + 1
          PROVE  Append(Delivered, pdus)[i] = sent'[i].pdus
      <3>1. i \in 1..Len(sent)
        BY <1>2, <2>1
      <3> QED
        BY <1>3, <1>6, <1>9, <3>1
    <2> QED
      BY <1>3, <1>5, <1>9, <2>1
  <1> QED
    BY <1>7, <1>10, <1>11

\* A step that leaves the container, the PDU set aside and what was sent alone
\* is a stuttering step of the forwarder.
LEMMA UntouchedStutters ==
    ASSUME UNCHANGED <<pdus, overflowPdu, sent>>
    PROVE  Pending' = Pending /\ Delivered' = Delivered
    BY DEF Pending, Delivered, SetAside, ToPdu

\* Flushing removes exactly the container from the front of the line.
LEMMA ResetRemovesFront ==
    ASSUME IInv, containerPending, ResetContainer, UNCHANGED overflowPdu
    PROVE  /\ Len(pdus) \in 1 .. Len(Pending)
           /\ pdus = SubSeq(Pending, 1, Len(pdus))
           /\ Pending' = SubSeq(Pending, Len(pdus) + 1, Len(Pending))
  <1>1. pdus \in Seq(Pdus) /\ pdus # <<>> /\ SetAside \in Seq(Pdus)
    BY SetAsideType DEF IInv, TypeOK, ContainerFits
  <1>2. pdus' = <<>> /\ SetAside' = SetAside
    BY ResetMoves
  <1>3. Pending' = SetAside
    BY <1>1, <1>2, ConcatEmptySeq DEF Pending
  <1>4. /\ Len(pdus) \in 1 .. Len(pdus \o SetAside)
        /\ SubSeq(pdus \o SetAside, 1, Len(pdus)) = pdus
        /\ SubSeq(pdus \o SetAside, Len(pdus) + 1, Len(pdus \o SetAside)) = SetAside
    <2>1. SUFFICES ASSUME NEW s, s = SetAside
                   PROVE  /\ Len(pdus) \in 1 .. Len(pdus \o s)
                          /\ SubSeq(pdus \o s, 1, Len(pdus)) = pdus
                          /\ SubSeq(pdus \o s, Len(pdus) + 1, Len(pdus \o s)) = s
      OBVIOUS
    <2> QED
      BY <1>1, <2>1, SplitConcat
  <1> QED
    BY <1>3, <1>4 DEF Pending

\* Every step of the task or its environment is a step of the forwarder or
\* leaves it unchanged.
LEMMA RefinementStep ==
    ASSUME IInv, [Next]_vars
    PROVE  \/ \E x \in Pdus : Pending' = Append(Pending, x) /\ Delivered' = Delivered
           \/ \E k \in 1..Len(Pending) :
                 /\ Pending' = SubSeq(Pending, k + 1, Len(Pending))
                 /\ \/ Delivered' = Append(Delivered, SubSeq(Pending, 1, k))
                    \/ Delivered' = Delivered
           \/ Pending' = Pending /\ Delivered' = Delivered
  <1> DEFINE Goal ==
           \/ \E x \in Pdus : Pending' = Append(Pending, x) /\ Delivered' = Delivered
           \/ \E k \in 1..Len(Pending) :
                 /\ Pending' = SubSeq(Pending, k + 1, Len(Pending))
                 /\ \/ Delivered' = Append(Delivered, SubSeq(Pending, 1, k))
                    \/ Delivered' = Delivered
           \/ Pending' = Pending /\ Delivered' = Delivered
  <1>1. CASE ProcessOverflow
    <2>1. PICK x \in Pdus : /\ pdus = <<>> /\ pdus' = Append(<<>>, x)
                            /\ SetAside = <<x>> /\ SetAside' = <<>>
      BY <1>1, ProcessOverflowMoves
    <2>2. /\ <<x>> \in Seq(Pdus)
          /\ Append(<<>>, x) = <<>> \o <<x>>
      BY EmptySeq, AppendIsConcat
    <2>3. <<>> \o <<x>> = <<x>> /\ <<x>> \o <<>> = <<x>>
      BY <2>2, ConcatEmptySeq
    <2>4. Pending' = Pending
      BY <2>1, <2>2, <2>3 DEF Pending
    <2>5. Delivered' = Delivered
      BY <1>1 DEF ProcessOverflow, Delivered
    <2> QED
      BY <2>4, <2>5
  <1>2. CASE ReceiveFromQueue
    <2>1. pdus \in Seq(Pdus) /\ SetAside = <<>>
      BY <1>2, ReceiveMoves DEF IInv, TypeOK
    <2>2. Pending = pdus
      BY <2>1, ConcatEmptySeq DEF Pending
    <2>3. Delivered' = Delivered
      BY <1>2 DEF ReceiveFromQueue, Delivered
    <2>4. CASE pdus' = pdus /\ SetAside' = <<>>
      BY <2>1, <2>3, <2>4 DEF Pending
    <2>5. ASSUME NEW x \in Pdus,
                 \/ pdus' = Append(pdus, x) /\ SetAside' = <<>>
                 \/ pdus' = pdus /\ SetAside' = <<x>>
          PROVE  Goal
      <3>1. Append(pdus, x) \in Seq(Pdus) /\ Append(pdus, x) = pdus \o <<x>>
        BY <2>1, <2>5, AppendProperties, AppendIsConcat
      <3>2. Append(pdus, x) \o <<>> = Append(pdus, x)
        BY <3>1, ConcatEmptySeq
      <3>3. Pending' = Append(Pending, x)
        BY <2>2, <2>5, <3>1, <3>2 DEF Pending
      <3> QED
        BY <2>3, <3>3
    <2> QED
      BY <1>2, <2>4, <2>5, ReceiveMoves
  <1>3. CASE ProvideFails \/ TransmitFails
    <2>1. /\ containerPending /\ ResetContainer
          /\ UNCHANGED overflowPdu /\ UNCHANGED sent
      BY <1>3 DEF ProvideFails, TransmitFails, IInv, ContainerFits
    <2>2. Delivered' = Delivered
      BY <2>1 DEF Delivered
    <2> QED
      BY <2>1, <2>2, ResetRemovesFront
  <1>4. CASE TransmitOk
    <2>1. /\ containerPending /\ ResetContainer /\ UNCHANGED overflowPdu
          /\ sent' = Append(sent, Container)
      BY <1>4 DEF TransmitOk, IInv, ContainerFits
    <2>2. Delivered' = Append(Delivered, pdus)
      BY <2>1, DeliveredAppend DEF IInv
    <2> QED
      BY <2>1, <2>2, ResetRemovesFront
  <1>5. CASE QueueEmpty \/ Decide \/ ProvideOk \/ GateChange
    BY <1>5, UntouchedStutters DEF QueueEmpty, Decide, ProvideOk, GateChange, container
  <1>6. ASSUME NEW f \in Frames, CAN0_Callback(f)
        PROVE  Goal
    BY <1>6, UntouchedStutters DEF CAN0_Callback, container
  <1>7. CASE UNCHANGED vars
    BY <1>7, UntouchedStutters DEF vars, container
  <1> QED
    BY <1>1, <1>2, <1>3, <1>4, <1>5, <1>6, <1>7 DEF Next, TaskStep

\* The aggregation task implements the batch forwarder: PDUs leave in arrival
\* order, in whole batches, each delivered once or dropped as a whole.
THEOREM TaskForwardsInBatches == Spec => ForwardsInBatches
  <1>1. Init => Forwarder!Init
    <2>1. Init => pdus \o SetAside = <<>>
      BY EmptySeq, ConcatEmptySeq DEF Init, SetAside
    <2>2. Init => [i \in DOMAIN sent |-> sent[i].pdus] = <<>>
      BY DEF Init
    <2> QED
      BY <2>1, <2>2 DEF Forwarder!Init
  <1>2. IInv /\ [Next]_vars => [Forwarder!Next]_(Forwarder!vars)
    BY RefinementStep DEF Forwarder!Next, Forwarder!vars, Forwarder!Accept,
       Forwarder!Deliver, Forwarder!Drop, Forwarder!Front, Forwarder!Rest,
       Pending, Delivered
  <1> QED
    BY InvariantHolds, <1>1, <1>2, PTL DEF Spec, ForwardsInBatches, Forwarder!Spec
-----------------------------------------------------------------------------
(***************************************************************************)
(* Containers are well formed.  WireSize is defined by recursion; what it  *)
(* is for one more PDU is shown with the least number principle.           *)
(***************************************************************************)
\* A set of numbers that is not empty has a least element.
LEMMA LeastNumber ==
    ASSUME NEW T \in SUBSET Nat, T # {}
    PROVE  \E x \in T : \A y \in T : x <= y
  <1> DEFINE Less == {p \in Nat \X Nat : p[1] < p[2]}
  <1>1. IsWellFoundedOn(Less, Nat)
    BY NatLessThanWellFounded DEF OpToRel
  <1>2. PICK x \in T : \A y \in T : ~(<<y, x>> \in Less)
    BY <1>1, WFMin
  <1>3. ASSUME NEW y \in T PROVE x <= y
    <2>1. x \in Nat /\ y \in Nat
      OBVIOUS
    <2>2. <<y, x>> \in Nat \X Nat /\ ~(<<y, x>> \in Less)
      BY <1>2, <2>1
    <2>3. ~(<<y, x>>[1] < <<y, x>>[2])
      BY <2>2
    <2> QED
      BY <2>1, <2>3
  <1> QED
    BY <1>3

\* Induction over an initial segment of the numbers.
LEMMA SegmentInduction ==
    ASSUME NEW T, NEW L \in Nat, 0 \in T, \A n \in 0..L : n \in T /\ n # L => n + 1 \in T
    PROVE  \A n \in 0..L : n \in T
  <1> DEFINE Bad == {n \in 0..L : n \notin T}
  <1> SUFFICES ASSUME Bad # {} PROVE FALSE
    OBVIOUS
  <1>1. PICK x \in Bad : \A y \in Bad : x <= y
    <2>1. Bad \in SUBSET Nat
      OBVIOUS
    <2> QED
      BY <2>1, LeastNumber
  <1>2. x \in 0..L /\ x # 0 /\ x - 1 \in 0..L /\ x - 1 # L
    OBVIOUS
  <1>3. x - 1 \in T
    BY <1>1, <1>2
  <1>4. (x - 1) + 1 \in T
    BY <1>2, <1>3
  <1> QED
    BY <1>2, <1>4

\* g lists the lengths of a container with the first 0, 1, 2... PDUs of seq.
IsSizes(g, seq, n) ==
    /\ g[0] = GW_CONTAINER_HDR_SIZE
    /\ \A i \in 1..n : g[i] = g[i - 1] + GW_IPDU_HDR_SIZE + seq[i].len

\* There are such lengths.
LEMMA SizesExist ==
    ASSUME NEW seq \in Seq(Pdus)
    PROVE  \A n \in 0..Len(seq) : \E g \in [0..n -> Nat] : IsSizes(g, seq, n)
  <1> DEFINE T == {n \in 0..Len(seq) : \E g \in [0..n -> Nat] : IsSizes(g, seq, n)}
  <1>0. Len(seq) \in Nat
    OBVIOUS
  <1>1. 0 \in T
    <2>1. [i \in 0..0 |-> GW_CONTAINER_HDR_SIZE] \in [0..0 -> Nat]
      BY DEF GW_CONTAINER_HDR_SIZE
    <2>2. IsSizes([i \in 0..0 |-> GW_CONTAINER_HDR_SIZE], seq, 0)
      BY DEF IsSizes
    <2>3. 0 \in 0..Len(seq)
      BY <1>0
    <2> QED
      BY <2>1, <2>2, <2>3
  <1>2. ASSUME NEW n \in 0..Len(seq), n \in T, n # Len(seq)
        PROVE  n + 1 \in T
    <2>1. PICK g \in [0..n -> Nat] : IsSizes(g, seq, n)
      BY <1>2
    <2>2. n \in Nat /\ n + 1 \in 1..Len(seq) /\ n \in 0..n
      BY <1>0, <1>2
    <2>3. seq[n + 1].len \in Nat
      <3>1. seq[n + 1] \in Pdus
        BY <2>2
      <3> QED
        BY <3>1, SizesAssumption DEF Pdus
    <2>4. PICK x \in Nat : x = g[n] + GW_IPDU_HDR_SIZE + seq[n + 1].len
      BY <2>2, <2>3 DEF GW_IPDU_HDR_SIZE
    <2> DEFINE h == [i \in 0..n + 1 |-> IF i = n + 1 THEN x ELSE g[i]]
    <2>5. h \in [0..n + 1 -> Nat]
      <3>1. \A i \in 0..n + 1 : i # n + 1 => i \in 0..n
        BY <2>2
      <3> QED
        BY <3>1
    <2>6. IsSizes(h, seq, n + 1)
      <3>1. h[0] = GW_CONTAINER_HDR_SIZE
        BY <2>1, <2>2 DEF IsSizes
      <3>2. ASSUME NEW i \in 1..n + 1
            PROVE  h[i] = h[i - 1] + GW_IPDU_HDR_SIZE + seq[i].len
        <4>1. CASE i = n + 1
          <5>1. i - 1 = n /\ i - 1 \in 0..n + 1 /\ i \in 0..n + 1 /\ i - 1 # n + 1
            BY <2>2, <4>1
          <5> QED
            BY <2>4, <4>1, <5>1
        <4>2. CASE i # n + 1
          <5>1. i \in 1..n /\ i \in 0..n + 1 /\ i - 1 \in 0..n + 1 /\ i - 1 # n + 1
            BY <2>2, <4>2
          <5>2. g[i] = g[i - 1] + GW_IPDU_HDR_SIZE + seq[i].len
            BY <2>1, <5>1 DEF IsSizes
          <5> QED
            BY <4>2, <5>1, <5>2
        <4> QED
          BY <4>1, <4>2
      <3> QED
        BY <3>1, <3>2 DEF IsSizes
    <2>7. n + 1 \in 0..Len(seq)
      BY <2>2
    <2> QED
      BY <2>5, <2>6, <2>7
  <1>3. \A n \in 0..Len(seq) : n \in T
    <2> HIDE DEF T
    <2> QED
      BY <1>0, <1>1, <1>2, SegmentInduction
  <1> QED
    BY <1>3

\* They are determined by the PDUs.
LEMMA SizesUnique ==
    ASSUME NEW n \in Nat, NEW g, NEW h, NEW ss, NEW tt,
           IsSizes(g, ss, n), IsSizes(h, tt, n), \A i \in 1..n : ss[i] = tt[i]
    PROVE  \A i \in 0..n : g[i] = h[i]
  <1> DEFINE T == {i \in 0..n : g[i] = h[i]}
  <1>1. 0 \in T
    BY DEF IsSizes
  <1>2. ASSUME NEW i \in 0..n, i \in T, i # n
        PROVE  i + 1 \in T
    <2>1. i + 1 \in 1..n /\ (i + 1) - 1 = i /\ i + 1 \in 0..n
      BY <1>2
    <2>2. /\ g[i + 1] = g[i] + GW_IPDU_HDR_SIZE + ss[i + 1].len
          /\ h[i + 1] = h[i] + GW_IPDU_HDR_SIZE + tt[i + 1].len
      BY <2>1 DEF IsSizes
    <2> QED
      BY <1>2, <2>1, <2>2
  <1>3. \A i \in 0..n : i \in T
    <2> HIDE DEF T
    <2> QED
      BY <1>1, <1>2, SegmentInduction
  <1> QED
    BY <1>3

\* What WireSize is.
LEMMA WireSizeIsLast ==
    ASSUME NEW seq \in Seq(Pdus)
    PROVE  \E g \in [0..Len(seq) -> Nat] :
               IsSizes(g, seq, Len(seq)) /\ WireSize(seq) = g[Len(seq)]
  <1> DEFINE Sizes(g) == [n \in 0..Len(seq) |->
                             IF n = 0 THEN GW_CONTAINER_HDR_SIZE
                                      ELSE g[n - 1] + GW_IPDU_HDR_SIZE + seq[n].len]
  <1>0. Len(seq) \in Nat /\ Len(seq) \in 0..Len(seq)
    OBVIOUS
  <1>1. PICK g \in [0..Len(seq) -> Nat] : IsSizes(g, seq, Len(seq))
    BY <1>0, SizesExist
  <1>2. g = Sizes(g)
    <2>1. ASSUME NEW i \in 0..Len(seq)
          PROVE  g[i] = IF i = 0 THEN GW_CONTAINER_HDR_SIZE
                                 ELSE g[i - 1] + GW_IPDU_HDR_SIZE + seq[i].len
      <3>1. i = 0 \/ i \in 1..Len(seq)
        BY <1>0
      <3> QED
        BY <1>1, <3>1 DEF IsSizes
    <2> QED
      BY <2>1
  <1>3. PICK h : h = Sizes(h) /\ WireSize(seq) = h[Len(seq)]
    <2>1. WireSize(seq) = (CHOOSE h : h = Sizes(h))[Len(seq)]
      BY DEF WireSize
    <2>2. (CHOOSE h : h = Sizes(h)) = Sizes(CHOOSE h : h = Sizes(h))
      BY <1>2
    <2> QED
      BY <2>1, <2>2
  <1>4. IsSizes(h, seq, Len(seq))
    <2>1. \A i \in 0..Len(seq) : h[i] = IF i = 0 THEN GW_CONTAINER_HDR_SIZE
                                        ELSE h[i - 1] + GW_IPDU_HDR_SIZE + seq[i].len
      BY <1>3
    <2>2. 0 \in 0..Len(seq) /\ \A i \in 1..Len(seq) : i \in 0..Len(seq) /\ i # 0
      BY <1>0
    <2>3. h[0] = GW_CONTAINER_HDR_SIZE
      BY <2>1, <2>2, Zenon
    <2>4. \A i \in 1..Len(seq) : h[i] = h[i - 1] + GW_IPDU_HDR_SIZE + seq[i].len
      BY <2>1, <2>2, Zenon
    <2> QED
      BY <2>3, <2>4, Zenon DEF IsSizes
  <1>5. h[Len(seq)] = g[Len(seq)]
    BY <1>0, <1>1, <1>4, SizesUnique
  <1> QED
    BY <1>1, <1>3, <1>5

\* A container without PDUs is its header.
LEMMA WireSizeEmpty == WireSize(<<>>) = GW_CONTAINER_HDR_SIZE
  <1>1. <<>> \in Seq(Pdus) /\ Len(<<>>) = 0
    BY EmptySeq
  <1>2. PICK g : IsSizes(g, <<>>, 0) /\ WireSize(<<>>) = g[0]
    BY <1>1, WireSizeIsLast
  <1> QED
    BY <1>2 DEF IsSizes

\* One more PDU adds its header and its data.
LEMMA WireSizeAppend ==
    ASSUME NEW seq \in Seq(Pdus), NEW p \in Pdus
    PROVE  WireSize(Append(seq, p)) = WireSize(seq) + GW_IPDU_HDR_SIZE + p.len
  <1> DEFINE more == Append(seq, p)
             n == Len(seq)
  <1>1. /\ more \in Seq(Pdus) /\ Len(more) = n + 1 /\ n \in Nat
        /\ more[n + 1] = p
        /\ \A i \in 1..n : more[i] = seq[i]
    BY AppendProperties, LenProperties
  <1>2. PICK g : IsSizes(g, more, n + 1) /\ WireSize(more) = g[n + 1]
    <2> HIDE DEF more, n
    <2> QED
      BY <1>1, WireSizeIsLast
  <1>3. PICK h : IsSizes(h, seq, n) /\ WireSize(seq) = h[n]
    BY WireSizeIsLast
  <1> HIDE DEF more, n
  <1>4. IsSizes(g, more, n)
    <2>1. \A i \in 1..n : i \in 1..n + 1
      BY <1>1
    <2> QED
      BY <1>2, <2>1, Zenon DEF IsSizes
  <1>5. g[n] = h[n]
    <2>1. \A i \in 0..n : g[i] = h[i]
      BY <1>1, <1>3, <1>4, SizesUnique
    <2> QED
      BY <1>1, <2>1
  <1>6. n + 1 \in 1..n + 1 /\ (n + 1) - 1 = n
    BY <1>1
  <1>7. g[n + 1] = g[(n + 1) - 1] + GW_IPDU_HDR_SIZE + more[n + 1].len
    BY <1>2, <1>6, Zenon DEF IsSizes
  <1>8. WireSize(more) = WireSize(seq) + GW_IPDU_HDR_SIZE + p.len
    BY <1>1, <1>2, <1>3, <1>5, <1>6, <1>7
  <1> QED
    BY <1>8 DEF more

\* A container that would need the count byte beyond 255 does not fit: PDUs are long
\* enough for the container size (at 1518 bytes, 3 bytes or more).
CountFits ==
    \A l \in PduLens : GW_CONTAINER_HDR_SIZE + 256 * (GW_IPDU_HDR_SIZE + l) > MaxSend

LEMMA CountIsAByte ==
    ASSUME CountFits, NEW seq \in Seq(Pdus), WireSize(seq) <= MaxSend
    PROVE  Len(seq) \in 0..255
  <1> DEFINE L == Len(seq)
  <1>0. L \in Nat
    OBVIOUS
  <1>1. \A i \in 1..L : seq[i].len \in PduLens /\ seq[i].len \in Nat
    <2> SUFFICES ASSUME NEW i \in 1..L PROVE seq[i].len \in PduLens /\ seq[i].len \in Nat
      OBVIOUS
    <2>1. seq[i] \in Pdus
      OBVIOUS
    <2> QED
      BY <2>1, SizesAssumption DEF Pdus
  <1> SUFFICES ASSUME Len(seq) \notin 0..255 PROVE FALSE
    OBVIOUS
  <1>2. L > 255
    <2>1. \A n \in Nat : n \notin 0..255 => n > 255
      BY SMT
    <2> QED
      BY <1>0, <2>1
  <1>3. PICK m \in PduLens : m \in Nat /\ \A l \in PduLens : m <= l
    <2>1. PduLens # {} /\ PduLens \in SUBSET Nat
      BY <1>0, <1>1, <1>2, SizesAssumption
    <2> QED
      BY <2>1, LeastNumber
  <1>4. PICK k \in Nat : k = GW_IPDU_HDR_SIZE + m
    BY <1>3 DEF GW_IPDU_HDR_SIZE
  <1>5. PICK g \in [0..L -> Nat] : IsSizes(g, seq, L) /\ WireSize(seq) = g[L]
    BY WireSizeIsLast
  <1> DEFINE T == {n \in 0..L : GW_CONTAINER_HDR_SIZE + n * k <= g[n]}
  <1>6. 0 \in T
    <2>1. 0 * k = 0 /\ 0 \in 0..L
      BY <1>0, <1>4
    <2>2. g[0] = GW_CONTAINER_HDR_SIZE
      BY <1>5 DEF IsSizes
    <2> QED
      BY <2>1, <2>2 DEF GW_CONTAINER_HDR_SIZE
  <1>7. ASSUME NEW n \in 0..L, n \in T, n # L
        PROVE  n + 1 \in T
    <2>1. n \in Nat /\ n + 1 \in 1..L /\ (n + 1) - 1 = n /\ n + 1 \in 0..L
      BY <1>0, <1>7
    <2>2. g[n + 1] = g[n] + GW_IPDU_HDR_SIZE + seq[n + 1].len
      BY <1>5, <2>1 DEF IsSizes
    <2>3. m <= seq[n + 1].len /\ seq[n + 1].len \in Nat
      BY <1>1, <1>3, <2>1
    <2>4. PICK a \in Nat : a = n * k
      BY <1>4, <2>1
    <2>5. (n + 1) * k = a + k
      BY <1>4, <2>1, <2>4
    <2>6. GW_CONTAINER_HDR_SIZE + a <= g[n] /\ g[n] \in Nat
      BY <1>5, <1>7, <2>4
    <2>7. GW_CONTAINER_HDR_SIZE + (a + k) <= g[n + 1]
      BY <1>3, <1>4, <2>2, <2>3, <2>6 DEF GW_CONTAINER_HDR_SIZE, GW_IPDU_HDR_SIZE
    <2> QED
      BY <2>1, <2>5, <2>7
  <1>8. L \in T
    <2>1. \A n \in 0..L : n \in T
      <3> HIDE DEF T, L
      <3> QED
        BY <1>0, <1>6, <1>7, SegmentInduction
    <2> QED
      BY <1>0, <2>1
  <1>9. GW_CONTAINER_HDR_SIZE + L * k <= MaxSend
    <2>1. PICK c \in Nat, x \in Nat : c = L * k /\ x = g[L]
      BY <1>0, <1>4, <1>5
    <2>2. GW_CONTAINER_HDR_SIZE + c <= x
      BY <1>8, <2>1
    <2>3. x <= MaxSend
      BY <1>5, <2>1
    <2>4. GW_CONTAINER_HDR_SIZE + c <= MaxSend
      BY <2>2, <2>3, SizesAssumption DEF GW_CONTAINER_HDR_SIZE
    <2> QED
      BY <2>1, <2>4
  <1>10. GW_CONTAINER_HDR_SIZE + 256 * k > MaxSend
    BY <1>3, <1>4 DEF CountFits
  <1>11. \A a \in Nat : a > 255 => a * k >= 256 * k
    <2> SUFFICES ASSUME NEW a \in Nat, a > 255 PROVE a * k >= 256 * k
      OBVIOUS
    <2>1. PICK b \in Nat : a = 256 + b
      <3>1. a - 256 \in Nat /\ a = 256 + (a - 256)
        OBVIOUS
      <3> QED
        BY <3>1
    <2>2. a * k = 256 * k + b * k /\ b * k \in Nat
      BY <1>4, <2>1
    <2> QED
      BY <1>4, <2>2
  <1>12. PICK c \in Nat, d \in Nat : c = L * k /\ d = 256 * k
    BY <1>0, <1>4
  <1>13. c >= d
    BY <1>0, <1>2, <1>11, <1>12
  <1> QED
    BY <1>9, <1>10, <1>12, <1>13, SizesAssumption DEF GW_CONTAINER_HDR_SIZE

\* The open container is what its length, count and class say.
Urgency(seq, tc) ==
    /\ \A j \in DOMAIN seq : tc <= ClassOf(seq[j])
    /\ \E j \in DOMAIN seq : tc = ClassOf(seq[j])

OpenInv ==
    containerPending => /\ containerLen = WireSize(pdus)
                        /\ iPduCount = Len(pdus) % 256
                        /\ Urgency(pdus, currentTC)

\* The containers sent: the count byte is the number of PDUs modulo 256.
SentInv ==
    \A i \in DOMAIN sent : /\ sent[i].len = WireSize(sent[i].pdus)
                           /\ sent[i].len <= MaxSend
                           /\ sent[i].count = Len(sent[i].pdus) % 256
                           /\ InUrgentFifo(sent[i])

\* The class of a PDU is the one its CAN id has in the table.
LEMMA ClassOfFrame ==
    ASSUME NEW f \in Frames, GW_Mapped(f)
    PROVE  ClassOf(ToPdu(f)) = CanPduMap[f.msgId].tc
  <1> DEFINE id == CHOOSE a \in DOMAIN CanPduMap : CanPduMap[a].pduId = ToPdu(f).pduId
  <1>1. f.msgId \in DOMAIN CanPduMap /\ CanPduMap[f.msgId].pduId = ToPdu(f).pduId
    BY DEF GW_Mapped, ToPdu
  <1>2. id \in DOMAIN CanPduMap /\ CanPduMap[id].pduId = ToPdu(f).pduId
    BY <1>1
  <1>3. id = f.msgId
    BY <1>1, <1>2, TableAssumption
  <1> QED
    BY <1>3 DEF ClassOf

\* Every PDU of a container has a class.
LEMMA ClassType ==
    ASSUME NEW p \in Pdus
    PROVE  ClassOf(p) \in 0..TC_BEST_EFFORT
  <1>1. PICK a \in DOMAIN CanPduMap : CanPduMap[a].pduId = p.pduId
    BY DEF Pdus, PduIds
  <1>2. (CHOOSE b \in DOMAIN CanPduMap : CanPduMap[b].pduId = p.pduId) \in DOMAIN CanPduMap
    BY <1>1
  <1> QED
    BY <1>2, MapAssumption DEF ClassOf

\* The class of one more PDU is taken into account.
LEMMA UrgencyAppend ==
    ASSUME NEW seq \in Seq(Pdus), NEW p \in Pdus, NEW tc \in 0..TC_BEST_EFFORT,
           Urgency(seq, tc)
    PROVE  Urgency(Append(seq, p), Smaller(ClassOf(p), tc))
  <1> DEFINE more == Append(seq, p)
             n == Len(seq)
             t == Smaller(ClassOf(p), tc)
  <1>1. /\ DOMAIN more = 1..n + 1 /\ DOMAIN seq = 1..n /\ n \in Nat
        /\ more[n + 1] = p
        /\ \A i \in 1..n : more[i] = seq[i]
    BY AppendProperties, LenProperties
  <1>2. \A i \in 1..n : ClassOf(seq[i]) \in 0..TC_BEST_EFFORT /\ tc <= ClassOf(seq[i])
    <2>1. \A i \in 1..n : seq[i] \in Pdus
      OBVIOUS
    <2> QED
      BY <1>1, <2>1, ClassType DEF Urgency
  <1>3. /\ ClassOf(p) \in Nat /\ tc \in Nat
        /\ t <= ClassOf(p) /\ t <= tc /\ t \in {ClassOf(p), tc}
    BY ClassType DEF Smaller, TC_BEST_EFFORT
  <1>4. PICK j \in 1..n : tc = ClassOf(seq[j])
    BY <1>1 DEF Urgency
  <1> HIDE DEF more, n, t
  <1>5. ASSUME NEW i \in 1..n + 1 PROVE t <= ClassOf(more[i])
    <2>1. CASE i = n + 1
      BY <1>1, <1>3, <2>1
    <2>2. CASE i # n + 1
      <3>1. i \in 1..n /\ more[i] = seq[i]
        BY <1>1, <2>2
      <3>2. ClassOf(seq[i]) \in Nat /\ tc <= ClassOf(seq[i])
        BY <1>2, <3>1 DEF TC_BEST_EFFORT
      <3>3. t \in Nat
        BY <1>3
      <3>4. t <= ClassOf(seq[i])
        BY <1>3, <3>2, <3>3
      <3> QED
        BY <3>1, <3>4
    <2> QED
      BY <2>1, <2>2
  <1>6. \E i \in 1..n + 1 : t = ClassOf(more[i])
    <2>1. n + 1 \in 1..n + 1 /\ j \in 1..n + 1
      BY <1>1
    <2>2. ClassOf(more[n + 1]) = ClassOf(p) /\ ClassOf(more[j]) = tc
      BY <1>1, <1>4
    <2> QED
      BY <1>3, <2>1, <2>2
  <1>7. Urgency(more, t)
    BY <1>1, <1>5, <1>6 DEF Urgency
  <1> QED
    BY <1>7 DEF more, t

\* The first PDU gives the container its class.
LEMMA UrgencyFirst ==
    ASSUME NEW p \in Pdus
    PROVE  Urgency(Append(<<>>, p), Smaller(ClassOf(p), ClassOf(p)))
  <1>1. Append(<<>>, p) = <<p>>
    OBVIOUS
  <1>2. Smaller(ClassOf(p), ClassOf(p)) = ClassOf(p)
    BY DEF Smaller
  <1>3. ClassOf(p) <= ClassOf(p)
    BY ClassType DEF TC_BEST_EFFORT
  <1>4. DOMAIN <<p>> = 1..1 /\ <<p>>[1] = p /\ 1 \in 1..1 /\ \A j \in 1..1 : j = 1
    OBVIOUS
  <1>5. Urgency(<<p>>, ClassOf(p))
    BY <1>3, <1>4 DEF Urgency
  <1> QED
    BY <1>1, <1>2, <1>5

\* An added PDU is counted in the length, in the count and in the class.
LEMMA AddPduOpen ==
    ASSUME IInv, OpenInv, NEW f \in Frames, AddPdu(f)
    PROVE  OpenInv'
  <1>1. PICK x \in Pdus : x = ToPdu(f) /\ x.len = f.dataLen /\ ClassOf(x) = CanPduMap[f.msgId].tc
    BY MappedFrame, ClassOfFrame DEF AddPdu, ToPdu
  <1>2. /\ pdus' = Append(StartedPdus, x)
        /\ containerLen' = StartedLen + GW_IPDU_HDR_SIZE + x.len
        /\ iPduCount' = (StartedCount + 1) % 256
        /\ currentTC' = Smaller(ClassOf(x), StartedTC(ClassOf(x)))
    BY <1>1 DEF AddPdu
  <1>3. CASE containerPending
    <2>1. /\ StartedPdus = pdus /\ StartedLen = WireSize(pdus)
          /\ StartedCount = Len(pdus) % 256 /\ StartedTC(ClassOf(x)) = currentTC
          /\ Urgency(pdus, currentTC)
      BY <1>3 DEF StartedPdus, StartedLen, StartedCount, StartedTC, OpenInv
    <2>2. pdus \in Seq(Pdus) /\ currentTC \in 0..TC_BEST_EFFORT /\ Len(pdus) \in Nat
      BY LenProperties DEF IInv, TypeOK
    <2>3. containerLen' = WireSize(pdus')
      BY <1>2, <2>1, <2>2, WireSizeAppend
    <2>4. iPduCount' = Len(pdus') % 256
      <3>1. Len(pdus') = Len(pdus) + 1
        BY <1>2, <2>1, <2>2, AppendProperties
      <3>2. \A n \in Nat : ((n % 256) + 1) % 256 = (n + 1) % 256
        BY SMT
      <3> QED
        BY <1>2, <2>1, <2>2, <3>1, <3>2
    <2>5. Urgency(pdus', currentTC')
      BY <1>2, <2>1, <2>2, UrgencyAppend
    <2> QED
      BY <2>3, <2>4, <2>5 DEF OpenInv
  <1>4. CASE ~containerPending
    <2>1. /\ StartedPdus = <<>> /\ StartedLen = WireSize(<<>>)
          /\ StartedCount = 0 /\ StartedTC(ClassOf(x)) = ClassOf(x)
      BY <1>4, WireSizeEmpty DEF StartedPdus, StartedLen, StartedCount, StartedTC
    <2>2. <<>> \in Seq(Pdus)
      BY EmptySeq
    <2>3. containerLen' = WireSize(pdus')
      BY <1>2, <2>1, <2>2, WireSizeAppend
    <2>4. iPduCount' = Len(pdus') % 256
      <3>1. Len(Append(<<>>, x)) = 1
        OBVIOUS
      <3>2. (0 + 1) % 256 = 1 % 256
        OBVIOUS
      <3> QED
        BY <1>2, <2>1, <3>1, <3>2
    <2>5. Urgency(pdus', currentTC')
      BY <1>2, <2>1, UrgencyFirst
    <2> QED
      BY <2>3, <2>4, <2>5 DEF OpenInv
  <1> QED
    BY <1>3, <1>4

\* A step that leaves the container and the wire alone.
LEMMA UntouchedOpen ==
    ASSUME OpenInv, SentInv, UNCHANGED <<container, sent>>
    PROVE  OpenInv' /\ SentInv'
  <1>1. UNCHANGED <<containerPending, pdus, containerLen, iPduCount, currentTC, sent>>
    BY DEF container
  <1>2. OpenInv'
    BY <1>1 DEF OpenInv, Urgency, ClassOf, WireSize
  <1>3. SentInv'
    BY <1>1 DEF SentInv
  <1> QED
    BY <1>2, <1>3

\* What the driver accepts is the open container.
LEMMA SentAppend ==
    ASSUME IInv, OpenInv, SentInv, TransmitOk
    PROVE  SentInv'
  <1>1. /\ containerPending /\ containerLen <= MaxSend /\ pc = "transmit"
        /\ containerLen = WireSize(pdus) /\ iPduCount = Len(pdus) % 256
        /\ Urgency(pdus, currentTC)
    BY DEF IInv, ContainerFits, OpenInv, TransmitOk
  <1>2. PICK c \in Containers : c = Container
    BY ContainerType DEF IInv
  <1>3. /\ c.len = containerLen /\ c.count = iPduCount /\ c.pdus = pdus
        /\ c.fifo = TC_to_FIFO(currentTC)
    BY <1>2 DEF Container
  <1>4. InUrgentFifo(c)
    BY <1>1, <1>3 DEF InUrgentFifo, Urgency
  <1>5. /\ sent' = Append(sent, c) /\ sent \in Seq(Containers)
    BY <1>2 DEF TransmitOk, IInv, TypeOK
  <1>6. /\ DOMAIN sent' = 1..Len(sent) + 1 /\ DOMAIN sent = 1..Len(sent) /\ Len(sent) \in Nat
        /\ sent'[Len(sent) + 1] = c
        /\ \A i \in 1..Len(sent) : sent'[i] = sent[i]
    BY <1>5, AppendProperties, LenProperties
  <1>7. ASSUME NEW i \in DOMAIN sent'
        PROVE  /\ sent'[i].len = WireSize(sent'[i].pdus)
               /\ sent'[i].len <= MaxSend
               /\ sent'[i].count = Len(sent'[i].pdus) % 256
               /\ InUrgentFifo(sent'[i])
    <2>1. CASE i = Len(sent) + 1
      BY <1>1, <1>3, <1>4, <1>6, <2>1
    <2>2. CASE i # Len(sent) + 1
      <3>1. i \in DOMAIN sent /\ sent'[i] = sent[i]
        BY <1>6, <2>2
      <3> QED
        BY <3>1 DEF SentInv
    <2> QED
      BY <2>1, <2>2
  <1> QED
    BY <1>7 DEF SentInv

LEMMA WellFormedStep ==
    ASSUME IInv, OpenInv, SentInv, [Next]_vars
    PROVE  OpenInv' /\ SentInv'
  <1>1. CASE ProcessOverflow
    <2>1. AddPdu(overflowPdu[1]) /\ overflowPdu[1] \in Frames
      BY <1>1, CarriedPduIsAdded
    <2>2. sent' = sent
      BY <1>1 DEF ProcessOverflow
    <2> QED
      BY <2>1, <2>2, AddPduOpen DEF SentInv
  <1>2. CASE ReceiveFromQueue
    <2>1. Head(queue) \in Frames /\ sent' = sent
      BY <1>2, HeadTailProperties DEF IInv, TypeOK, ReceiveFromQueue
    <2>2. CASE AddPdu(Head(queue))
      BY <2>1, <2>2, AddPduOpen DEF SentInv
    <2>3. CASE CarryOver(Head(queue))
      <3>1. containerPending
        BY <2>1, <2>3, CarryOverNeedsPending DEF IInv
      <3>2. UNCHANGED container
        BY <2>3, <3>1 DEF CarryOver, container, StartedPdus, StartedLen, StartedCount, StartedTC
      <3> QED
        BY <2>1, <3>2, UntouchedOpen
    <2>4. CASE IgnorePdu(Head(queue))
      BY <2>1, <2>4, UntouchedOpen DEF IgnorePdu
    <2> QED
      BY <1>2, <2>2, <2>3, <2>4 DEF ReceiveFromQueue, ProcessPdu
  <1>3. CASE QueueEmpty \/ Decide \/ ProvideOk \/ GateChange
    BY <1>3, UntouchedOpen DEF QueueEmpty, Decide, ProvideOk, GateChange
  <1>4. CASE ProvideFails \/ TransmitFails
    <2>1. ~containerPending' /\ sent' = sent
      BY <1>4 DEF ProvideFails, TransmitFails, ResetContainer
    <2> QED
      BY <2>1 DEF OpenInv, SentInv
  <1>5. CASE TransmitOk
    <2>1. ~containerPending'
      BY <1>5 DEF TransmitOk, ResetContainer
    <2> QED
      BY <1>5, <2>1, SentAppend DEF OpenInv
  <1>6. ASSUME NEW f \in Frames, CAN0_Callback(f)
        PROVE  OpenInv' /\ SentInv'
    BY <1>6, UntouchedOpen DEF CAN0_Callback
  <1>7. CASE UNCHANGED vars
    BY <1>7, UntouchedOpen DEF vars
  <1> QED
    BY <1>1, <1>2, <1>3, <1>4, <1>5, <1>6, <1>7 DEF Next, TaskStep

\* What TransmitOk has sent, for any PDU lengths: the length and the FIFO are right, and
\* the count byte is the number of PDUs modulo 256.
LEMMA SentIsWellFormed == Spec => [](TypeOK /\ SentInv)
  <1>1. Init => OpenInv /\ SentInv
    BY DEF Init, OpenInv, SentInv
  <1>2. IInv /\ OpenInv /\ SentInv /\ [Next]_vars => OpenInv' /\ SentInv'
    BY WellFormedStep
  <1>3. IInv => TypeOK
    BY DEF IInv
  <1> QED
    BY InvariantHolds, <1>1, <1>2, <1>3, PTL DEF Spec

\* Every container Eth_Transmit accepted can be parsed: its length and its count byte
\* are those of its PDUs and it left through the FIFO of the most urgent one, as long as
\* the uint8 iPduCount cannot wrap before the container is full.
THEOREM ContainersAreWellFormed ==
    ASSUME CountFits
    PROVE  Spec => []SentContainersWellFormed
  <1>1. TypeOK /\ SentInv => SentContainersWellFormed
    <2> SUFFICES ASSUME TypeOK, SentInv, NEW i \in DOMAIN sent
                 PROVE  /\ sent[i].len = WireSize(sent[i].pdus)
                        /\ sent[i].count = Len(sent[i].pdus)
                        /\ InUrgentFifo(sent[i])
      BY DEF SentContainersWellFormed
    <2>1. sent[i].pdus \in Seq(Pdus)
      <3>1. sent[i] \in Containers
        BY DEF TypeOK
      <3> QED
        BY <3>1 DEF Containers
    <2>2. /\ sent[i].len = WireSize(sent[i].pdus) /\ sent[i].len <= MaxSend
          /\ sent[i].count = Len(sent[i].pdus) % 256 /\ InUrgentFifo(sent[i])
      BY DEF SentInv
    <2>3. WireSize(sent[i].pdus) <= MaxSend
      BY <2>2
    <2>4. Len(sent[i].pdus) \in 0..255
      BY <2>1, <2>3, CountIsAByte
    <2>5. \A n \in 0..255 : n % 256 = n
      BY SMT
    <2> QED
      BY <2>2, <2>4, <2>5
  <1> QED
    BY <1>1, SentIsWellFormed, PTL
=============================================================================
