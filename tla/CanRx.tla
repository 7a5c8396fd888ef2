------------------------------- MODULE CanRx -------------------------------
(***************************************************************************)
(* CAN reception: the receive mailboxes of the two FlexCAN instances, the  *)
(* mailbox states of RTD/src/FlexCAN_Ip.c, the polling task                *)
(* CAN_Receive_Polling_Task and the callback CAN0_Callback_SKKU of         *)
(* src/src/FlexCAN_SKKU.c, and xQueue_CAN.                                 *)
(*                                                                         *)
(* Frames arrive at any time, also between two register accesses of the    *)
(* driver.  Each mailbox filters one CAN id; its frames are numbered as    *)
(* they arrive.                                                            *)
(***************************************************************************)
EXTENDS Integers, Sequences

CONSTANTS
    Instances,   \* number of FlexCAN instances polled
    MbCount,     \* CanRxTaskParam_t.mb_count: receive mailboxes per instance
    QueueLength, \* capacity of xQueue_CAN
    MaxArrivals, \* bound: frames that arrive per mailbox
    FrameOf(_, _) \* the frame with a serial number that a mailbox receives:
                  \* Flexcan_Ip_MsgBuffType with the serial number as its data

ASSUME CanRxAssumption ==
    /\ Instances \in Nat \ {0}
    /\ MbCount \in Nat \ {0}
    /\ QueueLength \in Nat
    /\ MaxArrivals \in Nat

NumMb == Instances * MbCount
Mailboxes == 0 .. NumMb - 1

\* Each mailbox filters an id of its own (FlexCAN_init_SKKU).
ASSUME FrameAssumption ==
    \A m, q \in Mailboxes : \A n, r \in 1..MaxArrivals :
        /\ FrameOf(m, n).data = n
        /\ FrameOf(m, n).msgId = FrameOf(q, r).msgId => m = q

\* The destinations a mailbox can be armed with: rxShadow[i] of the task, which
\* mailbox i of every instance shares, and the global rxData of the callback.
Shadow(m) == m % MbCount
RxData == MbCount
Buffers == 0 .. MbCount
NoBuffer == MbCount + 1     \* NULL_PTR

\* A buffer nobody has written.
Zeroed == [msgId |-> 0, dataLen |-> 0, data |-> 0]

VARIABLES
    stored,   \* serial number of the frame in each mailbox, 0 for none
    flag,     \* its interrupt flag (IFLAG bit)
    shifted,  \* serial number waiting in the serial buffer for a locked mailbox
    lock,     \* the locked mailbox, or NumMb
    mbState,  \* Flexcan_Ip_MBhandleType.state
    pMB,      \* Flexcan_Ip_MBhandleType.pMBmessage
    buffer,   \* contents of the destinations
    queue,    \* xQueue_CAN
    canStats, \* rxCount and queueFullErrors
    pc,       \* the polling task's position
    k,        \* the mailbox its loops stand at
    arrived,  \* history: frames arrived per mailbox
    lastRead, \* history: last serial number read from each mailbox
    log,      \* history: everything xQueue_CAN accepted, in order
    stale     \* history: callbacks per mailbox that queued another frame than
              \* the one just read

hardware == <<stored, flag, shifted, lock>>
driver == <<mbState, pMB>>
vars == <<hardware, driver, buffer, queue, canStats, pc, k, arrived, lastRead,
          log, stale>>

\* After FlexCAN_init_SKKU: mailboxes empty and accepting, states idle.
Init ==
    /\ stored = [m \in Mailboxes |-> 0]
    /\ flag = [m \in Mailboxes |-> FALSE]
    /\ shifted = [m \in Mailboxes |-> 0]
    /\ lock = NumMb
    /\ mbState = [m \in Mailboxes |-> "IDLE"]
    /\ pMB = [m \in Mailboxes |-> NoBuffer]
    /\ buffer = [b \in Buffers |-> Zeroed]
    /\ queue = <<>>
    /\ canStats = [rxCount |-> 0, queueFullErrors |-> 0]
    /\ pc = "arm"
    /\ k = 0
    /\ arrived = [m \in Mailboxes |-> 0]
    /\ lastRead = [m \in Mailboxes |-> 0]
    /\ log = <<>>
    /\ stale = [m \in Mailboxes |-> 0]
-----------------------------------------------------------------------------
(***************************************************************************)
(* The controller: a matching frame goes into its mailbox, overwriting an  *)
(* unread one, and raises the flag; while the mailbox is locked the frame  *)
(* waits in the serial buffer.                                             *)
(***************************************************************************)
FrameArrives(m) ==
    /\ arrived[m] < MaxArrivals
    /\ arrived' = [arrived EXCEPT ![m] = @ + 1]
    /\ IF lock = m
       THEN /\ shifted' = [shifted EXCEPT ![m] = arrived[m] + 1]
            /\ UNCHANGED <<stored, flag>>
       ELSE /\ stored' = [stored EXCEPT ![m] = arrived[m] + 1]
            /\ flag' = [flag EXCEPT ![m] = TRUE]
            /\ UNCHANGED shifted
    /\ UNCHANGED <<lock, driver, buffer, queue, canStats, pc, k, lastRead, log,
                   stale>>

\* Unlocking lets a frame that waited in the serial buffer move in.
Unlocked ==
    /\ lock' = NumMb
    /\ shifted' = [shifted EXCEPT ![k] = 0]
    /\ IF shifted[k] # 0
       THEN /\ stored' = [stored EXCEPT ![k] = shifted[k]]
            /\ flag' = [flag EXCEPT ![k] = TRUE]
       ELSE UNCHANGED <<stored, flag>>
-----------------------------------------------------------------------------
(***************************************************************************)
(* FlexCAN_Ip_Receive in polling mode: refuses a mailbox that is not idle. *)
(***************************************************************************)
\* Slip: a mailbox is armed again but keeps the destination it had.
Mut_Receive(m, b) ==
    IF mbState[m] = "IDLE"
    THEN /\ mbState' = [mbState EXCEPT ![m] = "RX_BUSY"]
         /\ pMB' = [pMB EXCEPT ![m] = IF @ = NoBuffer THEN b ELSE @]
    ELSE UNCHANGED driver

Receive(m, b) ==
    IF mbState[m] = "IDLE"
    THEN /\ mbState' = [mbState EXCEPT ![m] = "RX_BUSY"]
         /\ pMB' = [pMB EXCEPT ![m] = b]
    ELSE UNCHANGED driver

\* The task's first loop arms every mailbox with its shadow buffer.
ArmMailbox ==
    /\ pc = "arm"
    /\ Receive(k, Shadow(k))
    /\ k' = (k + 1) % NumMb
    /\ pc' = IF k + 1 = NumMb THEN "poll" ELSE "arm"
    /\ UNCHANGED <<hardware, buffer, queue, canStats, arrived, lastRead, log,
                   stale>>

\* Slip: the loops end one mailbox early.
Mut_NextMailbox ==
    /\ k' = IF k + 2 >= NumMb THEN 0 ELSE k + 1
    /\ pc' = IF k + 2 >= NumMb THEN "delay" ELSE "poll"

\* On to the next mailbox; after the last one the task sleeps one tick.
NextMailbox ==
    /\ k' = (k + 1) % NumMb
    /\ pc' = IF k + 1 = NumMb THEN "delay" ELSE "poll"

Readable(m) == flag[m] /\ mbState[m] = "RX_BUSY"

\* FlexCAN_Ip_MainFunctionRead finds nothing to do.
NothingToRead ==
    /\ pc = "poll"
    /\ ~Readable(k)
    /\ NextMailbox
    /\ UNCHANGED <<hardware, driver, buffer, queue, canStats, arrived, lastRead,
                   log, stale>>

(***************************************************************************)
(* FlexCAN_IRQHandlerRxMB, called by FlexCAN_Ip_MainFunctionRead: lock and *)
(* copy, clear the flag, unlock, then the callback.                        *)
(***************************************************************************)
LockAndCopy ==
    /\ pc = "poll"
    /\ Readable(k)
    /\ lock' = k
    /\ buffer' = [buffer EXCEPT ![pMB[k]] = FrameOf(k, stored[k])]
    /\ lastRead' = [lastRead EXCEPT ![k] = stored[k]]
    /\ pc' = "clear"
    /\ UNCHANGED <<stored, flag, shifted, driver, queue, canStats, k, arrived,
                   log, stale>>

ClearFlag ==
    /\ pc = "clear"
    /\ flag' = [flag EXCEPT ![k] = FALSE]
    /\ pc' = "unlock"
    /\ UNCHANGED <<stored, shifted, lock, driver, buffer, queue, canStats, k,
                   arrived, lastRead, log, stale>>

UnlockMailbox ==
    /\ pc = "unlock"
    /\ Unlocked
    /\ mbState' = [mbState EXCEPT ![k] = "IDLE"]
    /\ pc' = "callback"
    /\ UNCHANGED <<pMB, buffer, queue, canStats, k, arrived, lastRead, log,
                   stale>>

\* Slip: the mailbox is unlocked first, then the flag is cleared.
Mut_FinishRead ==
    \/ /\ pc = "clear"
       /\ Unlocked
       /\ pc' = "unlock"
       /\ UNCHANGED <<driver, buffer, queue, canStats, k, arrived, lastRead, log,
                      stale>>
    \/ /\ pc = "unlock"
       /\ flag' = [flag EXCEPT ![k] = FALSE]
       /\ mbState' = [mbState EXCEPT ![k] = "IDLE"]
       /\ pc' = "callback"
       /\ UNCHANGED <<stored, shifted, lock, pMB, buffer, queue, canStats, k,
                      arrived, lastRead, log, stale>>

FinishRead == ClearFlag \/ UnlockMailbox

\* Slips: the callback arms only the mailboxes of instance 0; it does not ask
\* whether the queue took the frame; it queues in front.
Mut_ArmInstance0 ==
    /\ pc = "callback"
    /\ IF k < MbCount THEN Receive(k, RxData) ELSE UNCHANGED driver
    /\ queue' = queue
    /\ NextMailbox
    /\ UNCHANGED <<hardware, buffer, canStats, arrived, lastRead, log, stale>>

Mut_QueueUnchecked ==
    /\ pc = "callback"
    /\ Receive(k, RxData)
    /\ queue' = Append(queue, buffer[RxData])
    /\ log' = Append(log, buffer[RxData])
    /\ NextMailbox
    /\ UNCHANGED <<hardware, buffer, canStats, arrived, lastRead, stale>>

Mut_QueueInFront ==
    /\ pc = "callback"
    /\ Receive(k, RxData)
    /\ log' = <<buffer[RxData]>> \o log
    /\ NextMailbox
    /\ UNCHANGED <<hardware, buffer, queue, canStats, arrived, lastRead, stale>>

\* CAN0_Callback_SKKU: re-arm the mailbox with the global rxData, then queue
\* a copy of rxData, or count the refusal of a full queue.
CAN0_Callback ==
    /\ pc = "callback"
    /\ Receive(k, RxData)
    /\ stale' = [stale EXCEPT ![k] = IF buffer[RxData] = FrameOf(k, lastRead[k])
                                        THEN @ ELSE @ + 1]
    /\ IF Len(queue) < QueueLength
       THEN /\ queue' = Append(queue, buffer[RxData])
            /\ log' = Append(log, buffer[RxData])
            /\ canStats' = [canStats EXCEPT !.rxCount = @ + 1]
       ELSE /\ canStats' = [canStats EXCEPT !.rxCount = @ + 1,
                                            !.queueFullErrors = @ + 1]
            /\ UNCHANGED <<queue, log>>
    /\ NextMailbox
    /\ UNCHANGED <<hardware, buffer, arrived, lastRead>>

\* vTaskDelay(1 ms) and round again.
Delay ==
    /\ pc = "delay"
    /\ pc' = "poll"
    /\ UNCHANGED <<hardware, driver, buffer, queue, canStats, k, arrived,
                   lastRead, log, stale>>

\* xQueueReceive by the aggregation task.
TakeFromQueue ==
    /\ queue # <<>>
    /\ queue' = Tail(queue)
    /\ UNCHANGED <<hardware, driver, buffer, canStats, pc, k, arrived, lastRead,
                   log, stale>>
-----------------------------------------------------------------------------
PollingTask ==
    \/ ArmMailbox
    \/ NothingToRead
    \/ LockAndCopy
    \/ FinishRead
    \/ CAN0_Callback
    \/ Delay

Next ==
    \/ PollingTask
    \/ TakeFromQueue
    \/ \E m \in Mailboxes : FrameArrives(m)

Spec == Init /\ [][Next]_vars

\* The polling task is scheduled again and again; frames need not arrive.
FairSpec == Spec /\ WF_vars(PollingTask)
-----------------------------------------------------------------------------
Frames == {Zeroed} \cup {FrameOf(m, n) : m \in Mailboxes, n \in 1..MaxArrivals}

\* Every variable has the type its C declaration gives it.
TypeOK ==
    /\ stored \in [Mailboxes -> 0..MaxArrivals]
    /\ flag \in [Mailboxes -> BOOLEAN]
    /\ shifted \in [Mailboxes -> 0..MaxArrivals]
    /\ lock \in 0..NumMb
    /\ mbState \in [Mailboxes -> {"IDLE", "RX_BUSY"}]
    /\ pMB \in [Mailboxes -> Buffers \cup {NoBuffer}]
    /\ buffer \in [Buffers -> Frames]
    /\ queue \in Seq(Frames) /\ Len(queue) <= QueueLength
    /\ canStats \in [rxCount : Nat, queueFullErrors : Nat]
    /\ pc \in {"arm", "poll", "clear", "unlock", "callback", "delay"}
    /\ k \in Mailboxes
    /\ arrived \in [Mailboxes -> 0..MaxArrivals]
    /\ lastRead \in [Mailboxes -> 0..MaxArrivals]
    /\ log \in Seq(Frames)
    /\ stale \in [Mailboxes -> Nat]

\* A frame that sits unread in its mailbox has its flag up, also when it
\* arrived while the driver held the mailbox locked: the driver clears the flag
\* before it unlocks, so the flag it clears is never that of a newer frame.
UnreadIsFlagged == \A m \in Mailboxes : stored[m] # lastRead[m] => flag[m]

\* Outside the handler every mailbox is armed: one that stayed idle would be
\* skipped by FlexCAN_Ip_MainFunctionRead for ever.
AlwaysRearmed ==
    pc \in {"poll", "delay"} => \A m \in Mailboxes : mbState[m] = "RX_BUSY"

\* The frames of one mailbox enter xQueue_CAN in order of arrival; an older
\* frame never follows a newer one.
NoReordering ==
    \A i, j \in DOMAIN log :
        (i < j /\ log[i].msgId = log[j].msgId) => log[i].data <= log[j].data

\* A mailbox queues something else than the frame it received at most once
\* (its first frame goes to the shadow buffer the callback does not look at);
\* from its second frame on, reception is exact.
StaleAtMostOnce == \A m \in Mailboxes : stale[m] <= 1

\* Every frame that arrives is read, or overwritten by a newer one that is.
ArrivalsAreRead ==
    \A m \in Mailboxes : \A n \in 1..MaxArrivals :
        arrived[m] >= n ~> lastRead[m] >= n

\* "receive a new PDU from the queue" (FlexCAN_SKKU.c:503): every entry the
\* callback queues is the frame it was called for.
QueuedIsNew == \A m \in Mailboxes : stale[m] = 0
=============================================================================
