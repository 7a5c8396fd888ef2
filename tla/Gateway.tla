------------------------------ MODULE Gateway ------------------------------
(***************************************************************************)
(* The gateway: CAN reception (CanRx) and the aggregation task             *)
(* (Aggregator) as start_CAN runs them, two tasks of one priority that     *)
(* share xQueue_CAN and the counters of canStats.  The reception offers    *)
(* the frames; the aggregator takes them.                                  *)
(***************************************************************************)
EXTENDS Aggregator, FiniteSets

CONSTANTS Instances, MbCount, FrameOf(_, _), MaxArrivals \* as in CanRx

VARIABLES
    stored, flag, shifted, lock, mbState, pMB, buffer,     \* CanRx
    rxPc, k, arrived, lastRead, log, stale

rxVars == <<stored, flag, shifted, lock, mbState, pMB, buffer, rxPc, k, arrived,
            lastRead, log, stale>>
aggVars == <<overflowPdu, container, pc, gateOpen, sent, taken, flushed, late>>
gatewayVars == <<vars, rxVars>>

\* The reception's view of the counters.
RxStats == [rxCount |-> canStats.rxCount, queueFullErrors |-> canStats.queueFullErrors]

\* The steps of the reception, and the reception with the aggregator as its
\* environment.
Rx == INSTANCE CanRx WITH pc <- rxPc
Reception == INSTANCE CanRx WITH pc <- rxPc, canStats <- RxStats

ASSUME ReceptionAssumption ==
    /\ Instances \in Nat \ {0}
    /\ MbCount \in Nat \ {0}
    /\ MaxArrivals \in Nat

\* The frames of the mailboxes are the ones the aggregator is ready for; the
\* number of callbacks is bounded by that of the frames.
ASSUME FramesAssumption ==
    /\ \A m \in Rx!Mailboxes : \A n \in 1..MaxArrivals : FrameOf(m, n) \in Frames
    /\ Rx!Zeroed \in Frames
    /\ Rx!NumMb * MaxArrivals <= MaxOffered

\* Each mailbox filters an id of its own (FlexCAN_init_SKKU); frames are numbered.
ASSUME IdsAssumption ==
    \A m, q \in Rx!Mailboxes : \A n, r \in 1..MaxArrivals :
        /\ FrameOf(m, n).data = n
        /\ FrameOf(m, n).msgId = FrameOf(q, r).msgId => m = q

\* FlexCAN_init_SKKU and start_CAN.
GatewayInit == Init /\ Reception!Init

CanTask ==
    /\ Rx!PollingTask
    /\ offered' = canStats'.rxCount
    /\ UNCHANGED aggVars

AggregationTask == TaskStep /\ UNCHANGED rxVars

Environment ==
    \/ \E m \in Rx!Mailboxes : Rx!FrameArrives(m) /\ UNCHANGED <<aggVars, offered>>
    \/ GateChange /\ UNCHANGED rxVars

GatewayNext == CanTask \/ AggregationTask \/ Environment

GatewaySpec == GatewayInit /\ [][GatewayNext]_gatewayVars
-----------------------------------------------------------------------------
\* One sequence after the other.
Flatten(seqs) ==
    LET after[i \in 0..Len(seqs)] == IF i = 0 THEN <<>> ELSE after[i - 1] \o seqs[i]
    IN  after[Len(seqs)]

\* The I-PDUs that frames turn into; unmapped ids are ignored.
ToPdus(frames) ==
    Flatten([i \in DOMAIN frames |->
                IF GW_Mapped(frames[i]) THEN <<ToPdu(frames[i])>> ELSE <<>>])

\* The I-PDUs of containers.
Flat(containers) == Flatten([i \in DOMAIN containers |-> containers[i].pdus])

\* End to end, the frames of one CAN id leave in the order they arrived, over
\* every mailbox, queue, container and carry-over in between.
WireOrderPerId ==
    LET wire == Flat(sent)
    IN  \A i, j \in DOMAIN wire :
            (i < j /\ wire[i].pduId = wire[j].pduId) => wire[i].data <= wire[j].data

\* No loss is silent, although two tasks keep the counters: every callback is
\* an entry of the queue or a counted refusal; without a counted transmit error
\* all that was flushed is on the wire; and while the three error counters are
\* zero every mapped frame the callback handed over has been sent or is on its
\* way, in order.
LossesAreCounted ==
    /\ canStats.rxCount = Len(log) + canStats.queueFullErrors
    /\ canStats.containersSent = Len(sent)
    /\ (canStats.ethTxErrors + canStats.ethBufferErrors = 0) => flushed = Flat(sent)
    /\ (canStats.queueFullErrors + canStats.ethTxErrors + canStats.ethBufferErrors = 0) =>
           ToPdus(log) = ((Flat(sent) \o pdus) \o SetAside) \o ToPdus(queue)

\* The composition is a run of each part, so whatever holds of a part alone
\* holds in the gateway: the aggregator takes from the queue as CanRx assumes,
\* and the reception offers frames as Aggregator assumes.
ReceptionHolds == Reception!Spec
AggregationHolds == Spec
=============================================================================
