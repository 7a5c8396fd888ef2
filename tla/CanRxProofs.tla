---------------------------- MODULE CanRxProofs ----------------------------
(***************************************************************************)
(* Invariance proofs for CAN reception, for every number of instances and  *)
(* mailboxes, every queue length and every number of arrivals.             *)
(***************************************************************************)
EXTENDS CanRx, SequenceTheorems, TLAPS

\* There is a mailbox, and the loops of the polling task go round them.
LEMMA MailboxCount ==
    /\ NumMb \in Nat \ {0}
    /\ NumMb \notin Mailboxes
    /\ \A m \in Mailboxes : m \in Nat /\ m < NumMb
    /\ \A m \in Mailboxes : (m + 1) % NumMb = IF m + 1 = NumMb THEN 0 ELSE m + 1
    /\ \A m \in Mailboxes : (m + 1) % NumMb \in Mailboxes
    /\ 0 \in Mailboxes
    /\ NumMb \in 0 .. NumMb
    /\ \A m \in Mailboxes : m \in 0 .. NumMb
  <1>1. NumMb \in Nat \ {0}
    BY CanRxAssumption, SMT DEF NumMb
  <1>2. SUFFICES ASSUME NEW n \in Nat \ {0}, n = NumMb
                 PROVE  /\ n \notin 0 .. n - 1
                        /\ \A m \in 0 .. n - 1 : m \in Nat /\ m < n
                        /\ \A m \in 0 .. n - 1 : (m + 1) % n = IF m + 1 = n THEN 0 ELSE m + 1
                        /\ \A m \in 0 .. n - 1 : (m + 1) % n \in 0 .. n - 1
                        /\ 0 \in 0 .. n - 1
                        /\ n \in 0 .. n
                        /\ \A m \in 0 .. n - 1 : m \in 0 .. n
    BY <1>1 DEF Mailboxes
  <1>3. \A m \in 0 .. n - 1 : (m + 1) % n = IF m + 1 = n THEN 0 ELSE m + 1
    BY SMT
  <1> QED
    BY <1>3, SMT

\* rxShadow and rxData are different destinations.
LEMMA Destinations ==
    /\ RxData \in Buffers
    /\ \A m \in Mailboxes : Shadow(m) \in Buffers /\ Shadow(m) # RxData
  <1>1. MbCount \in Nat \ {0}
    BY CanRxAssumption
  <1>2. \A m \in Nat : m % MbCount \in 0 .. MbCount - 1
    BY <1>1, SMT
  <1>3. \A m \in Mailboxes : Shadow(m) \in 0 .. MbCount - 1
    BY <1>2, MailboxCount DEF Shadow
  <1> QED
    BY <1>1, <1>3, SMT DEF RxData, Buffers

-----------------------------------------------------------------------------
(***************************************************************************)
(* The inductive invariant, in parts.                                      *)
(***************************************************************************)
\* The driver reads one mailbox at a time: it is the one that is locked, and
\* only a locked mailbox has a frame waiting in the serial buffer.
LockInv ==
    /\ lock = IF pc \in {"clear", "unlock"} THEN k ELSE NumMb
    /\ \A m \in Mailboxes : shifted[m] # 0 => lock = m

\* Serial numbers grow from what was read to what is stored, waits and arrived;
\* a flagged mailbox holds a frame.
SerialInv ==
    \A m \in Mailboxes :
        /\ lastRead[m] <= stored[m]
        /\ stored[m] <= arrived[m]
        /\ shifted[m] # 0 => stored[m] <= shifted[m] /\ shifted[m] <= arrived[m]
        /\ flag[m] => stored[m] # 0

\* What the driver holds locked is what it just read.
ReadInv == pc \in {"clear", "unlock"} => stored[k] = lastRead[k]

\* Which mailboxes are armed at each position, and with what.
ArmInv ==
    /\ \A m \in Mailboxes : mbState[m] = "RX_BUSY" => pMB[m] \in Buffers
    /\ pc = "arm" => \A m \in Mailboxes : m < k => mbState[m] = "RX_BUSY"
    /\ pc # "arm" => \A m \in Mailboxes :
                        (pc = "callback" => m # k) => mbState[m] = "RX_BUSY"
    /\ pc = "callback" => mbState[k] = "IDLE"

\* A mailbox queued something stale only before it was armed with rxData; once
\* it is, rxData holds the frame just read when the callback runs.
StaleInv ==
    /\ pc = "arm" => \A m \in Mailboxes : stale[m] = 0
    /\ \A m \in Mailboxes : pMB[m] # RxData => stale[m] = 0
    /\ (pc \in {"clear", "unlock", "callback"} /\ pMB[k] = RxData) =>
           buffer[RxData] = FrameOf(k, lastRead[k])

\* A frame that was read from its mailbox when the last serial numbers read
\* were last, or the zeroes of an unused buffer.
WasRead(f, last) ==
    \/ f = Zeroed
    \/ \E m \in Mailboxes : \E n \in 1..last[m] : f = FrameOf(m, n)

\* rxData is never older than what was queued under its id.
OrderInv ==
    /\ WasRead(buffer[RxData], lastRead)
    /\ \A i \in DOMAIN log : WasRead(log[i], lastRead)
    /\ \A i \in DOMAIN log :
           log[i].msgId = buffer[RxData].msgId => log[i].data <= buffer[RxData].data

IInv ==
    /\ TypeOK
    /\ LockInv
    /\ SerialInv
    /\ ReadInv
    /\ UnreadIsFlagged
    /\ ArmInv
    /\ StaleInv
    /\ StaleAtMostOnce
    /\ OrderInv
    /\ NoReordering

\* FlexCAN_init_SKKU leaves the receive side in a state of the invariant.
LEMMA InitIInv == Init => IInv
  <1> SUFFICES ASSUME Init PROVE IInv
    OBVIOUS
  <1>1. Zeroed \in Frames
    BY DEF Frames
  <1>2. TypeOK
    BY <1>1, MailboxCount, Destinations, CanRxAssumption, EmptySeq, SMT DEF Init, TypeOK
  <1>3. LockInv /\ SerialInv /\ ReadInv /\ UnreadIsFlagged
    BY MailboxCount, SMT DEF Init, LockInv, SerialInv, ReadInv, UnreadIsFlagged
  <1>4. ArmInv
    BY MailboxCount, SMT DEF Init, ArmInv
  <1>5. StaleInv /\ StaleAtMostOnce
    BY SMT DEF Init, StaleInv, StaleAtMostOnce
  <1>6. DOMAIN log = {}
    BY SMT DEF Init
  <1>7. OrderInv /\ NoReordering
    BY <1>6, Destinations DEF Init, OrderInv, NoReordering, WasRead
  <1> QED
    BY <1>2, <1>3, <1>4, <1>5, <1>7 DEF IInv

-----------------------------------------------------------------------------
(***************************************************************************)
(* Each part is kept by every step.                                        *)
(***************************************************************************)
\* The steps by name.
LEMMA Steps ==
    ASSUME [Next]_vars
    PROVE  \/ ArmMailbox
           \/ NothingToRead
           \/ LockAndCopy
           \/ ClearFlag
           \/ UnlockMailbox
           \/ CAN0_Callback
           \/ Delay
           \/ TakeFromQueue
           \/ \E m \in Mailboxes : FrameArrives(m)
           \/ UNCHANGED vars
  BY DEF Next, PollingTask, FinishRead

\* What the driver reads is a frame, and it has somewhere to put it.
LEMMA ReadsAFrame ==
    ASSUME IInv, LockAndCopy
    PROVE  /\ k \in Mailboxes
           /\ stored[k] \in 1..MaxArrivals
           /\ pMB[k] \in Buffers
           /\ FrameOf(k, stored[k]) \in Frames
  <1>1. k \in Mailboxes /\ flag[k] /\ mbState[k] = "RX_BUSY"
    BY DEF IInv, TypeOK, LockAndCopy, Readable
  <1>2. stored[k] \in 1..MaxArrivals
    BY <1>1, CanRxAssumption, SMT DEF IInv, TypeOK, SerialInv
  <1>3. pMB[k] \in Buffers
    BY <1>1 DEF IInv, ArmInv
  <1> QED
    BY <1>1, <1>2, <1>3 DEF Frames

\* The counters of the callback stay natural numbers.
LEMMA CountersType ==
    ASSUME NEW s \in [rxCount : Nat, queueFullErrors : Nat]
    PROVE  /\ [s EXCEPT !.rxCount = @ + 1] \in [rxCount : Nat, queueFullErrors : Nat]
           /\ [s EXCEPT !.rxCount = @ + 1, !.queueFullErrors = @ + 1]
                 \in [rxCount : Nat, queueFullErrors : Nat]
  <1> DEFINE Counters == [rxCount : Nat, queueFullErrors : Nat]
  <1>1. \A t \in Counters : [t EXCEPT !.rxCount = @ + 1] \in Counters
    OBVIOUS
  <1>2. \A t \in Counters : [t EXCEPT !.queueFullErrors = @ + 1] \in Counters
    OBVIOUS
  <1>3. [[s EXCEPT !.rxCount = @ + 1] EXCEPT !.queueFullErrors = @ + 1] \in Counters
    BY <1>1, <1>2
  <1> QED
    BY <1>1, <1>3

\* Arming a mailbox keeps the types of the driver's state.
LEMMA ReceiveType ==
    ASSUME NEW m \in Mailboxes, NEW b \in Buffers, Receive(m, b),
           mbState \in [Mailboxes -> {"IDLE", "RX_BUSY"}],
           pMB \in [Mailboxes -> Buffers \cup {NoBuffer}]
    PROVE  /\ mbState' \in [Mailboxes -> {"IDLE", "RX_BUSY"}]
           /\ pMB' \in [Mailboxes -> Buffers \cup {NoBuffer}]
  <1>1. mbState' = mbState \/ mbState' = [mbState EXCEPT ![m] = "RX_BUSY"]
    BY DEF Receive, driver
  <1>2. pMB' = pMB \/ pMB' = [pMB EXCEPT ![m] = b]
    BY DEF Receive, driver
  <1>3. mbState' \in [Mailboxes -> {"IDLE", "RX_BUSY"}]
    BY <1>1
  <1>4. pMB' \in [Mailboxes -> Buffers \cup {NoBuffer}]
    BY <1>2
  <1> QED
    BY <1>3, <1>4

\* The types are kept.
LEMMA TypeStep ==
    ASSUME IInv, [Next]_vars
    PROVE  TypeOK'
  <1> USE DEF hardware, driver
  <1>0. TypeOK
    BY DEF IInv
  <1>1. CASE ArmMailbox
    <2>1. /\ mbState' \in [Mailboxes -> {"IDLE", "RX_BUSY"}]
          /\ pMB' \in [Mailboxes -> Buffers \cup {NoBuffer}]
      <3>1. Receive(k, Shadow(k)) /\ k \in Mailboxes /\ Shadow(k) \in Buffers
        BY <1>0, <1>1, Destinations DEF TypeOK, ArmMailbox
      <3> QED
        BY <1>0, <3>1, ReceiveType DEF TypeOK
    <2>2. k' \in Mailboxes /\ pc' \in {"arm", "poll"}
      BY <1>0, <1>1, MailboxCount DEF TypeOK, ArmMailbox
    <2> QED
      BY <1>0, <1>1, <2>1, <2>2 DEF TypeOK, ArmMailbox
  <1>2. CASE NothingToRead
    BY <1>0, <1>2, MailboxCount DEF TypeOK, NothingToRead, NextMailbox
  <1>3. CASE LockAndCopy
    <2>1. lock' \in 0..NumMb
      BY <1>3, ReadsAFrame, MailboxCount DEF LockAndCopy
    <2>2. /\ buffer' \in [Buffers -> Frames]
          /\ lastRead' \in [Mailboxes -> 0..MaxArrivals]
      BY <1>0, <1>3, ReadsAFrame DEF TypeOK, LockAndCopy
    <2> QED
      BY <1>0, <1>3, <2>1, <2>2 DEF TypeOK, LockAndCopy
  <1>4. CASE ClearFlag
    BY <1>0, <1>4 DEF TypeOK, ClearFlag
  <1>5. CASE UnlockMailbox
    <2>1. lock' \in 0..NumMb
      BY <1>5, MailboxCount DEF UnlockMailbox, Unlocked
    <2>2. 0 \in 0..MaxArrivals
      BY CanRxAssumption
    <2>3. /\ shifted' \in [Mailboxes -> 0..MaxArrivals]
          /\ stored' \in [Mailboxes -> 0..MaxArrivals]
          /\ flag' \in [Mailboxes -> BOOLEAN]
          /\ mbState' \in [Mailboxes -> {"IDLE", "RX_BUSY"}]
      BY <1>0, <1>5, <2>2 DEF TypeOK, UnlockMailbox, Unlocked
    <2> QED
      BY <1>0, <1>5, <2>1, <2>3 DEF TypeOK, UnlockMailbox
  <1>6. CASE CAN0_Callback
    <2>1. buffer[RxData] \in Frames
      BY <1>0, Destinations DEF TypeOK
    <2>2. /\ queue' \in Seq(Frames) /\ Len(queue') <= QueueLength
          /\ log' \in Seq(Frames)
      <3>1. CASE Len(queue) < QueueLength
        <4>1. queue' = Append(queue, buffer[RxData]) /\ log' = Append(log, buffer[RxData])
          BY <1>6, <3>1 DEF CAN0_Callback
        <4> QED
          BY <1>0, <2>1, <3>1, <4>1, AppendProperties, CanRxAssumption DEF TypeOK
      <3>2. CASE ~(Len(queue) < QueueLength)
        BY <1>0, <1>6, <3>2 DEF TypeOK, CAN0_Callback
      <3> QED
        BY <3>1, <3>2
    <2>3. canStats' \in [rxCount : Nat, queueFullErrors : Nat]
      BY <1>0, <1>6, CountersType DEF TypeOK, CAN0_Callback
    <2>4. /\ mbState' \in [Mailboxes -> {"IDLE", "RX_BUSY"}]
          /\ pMB' \in [Mailboxes -> Buffers \cup {NoBuffer}]
      <3>1. Receive(k, RxData) /\ k \in Mailboxes /\ RxData \in Buffers
        BY <1>0, <1>6, Destinations DEF TypeOK, CAN0_Callback
      <3> QED
        BY <1>0, <3>1, ReceiveType DEF TypeOK
    <2>5. stale' \in [Mailboxes -> Nat]
      BY <1>0, <1>6 DEF TypeOK, CAN0_Callback
    <2>6. k' \in Mailboxes /\ pc' \in {"poll", "delay"}
      BY <1>0, <1>6, MailboxCount DEF TypeOK, CAN0_Callback, NextMailbox
    <2> QED
      BY <1>0, <1>6, <2>2, <2>3, <2>4, <2>5, <2>6 DEF TypeOK, CAN0_Callback
  <1>7. CASE Delay
    BY <1>0, <1>7 DEF TypeOK, Delay
  <1>8. CASE TakeFromQueue
    <2>1. queue' \in Seq(Frames) /\ Len(queue') = Len(queue) - 1
      BY <1>0, <1>8, HeadTailProperties DEF TypeOK, TakeFromQueue
    <2>2. Len(queue') <= QueueLength
      BY <1>0, <2>1, LenProperties, CanRxAssumption DEF TypeOK
    <2> QED
      BY <1>0, <1>8, <2>1, <2>2 DEF TypeOK, TakeFromQueue
  <1>9. ASSUME NEW m \in Mailboxes, FrameArrives(m)
        PROVE  TypeOK'
    <2>1. arrived[m] + 1 \in 0..MaxArrivals
      BY <1>0, <1>9, CanRxAssumption DEF TypeOK, FrameArrives
    <2>2. PICK n \in 0..MaxArrivals :
                 /\ arrived' = [arrived EXCEPT ![m] = n]
                 /\ shifted' = shifted \/ shifted' = [shifted EXCEPT ![m] = n]
                 /\ stored' = stored \/ stored' = [stored EXCEPT ![m] = n]
      BY <1>9, <2>1 DEF FrameArrives
    <2>3. /\ arrived' \in [Mailboxes -> 0..MaxArrivals]
          /\ shifted' \in [Mailboxes -> 0..MaxArrivals]
          /\ stored' \in [Mailboxes -> 0..MaxArrivals]
      <3>1. /\ arrived \in [Mailboxes -> 0..MaxArrivals]
            /\ shifted \in [Mailboxes -> 0..MaxArrivals]
            /\ stored \in [Mailboxes -> 0..MaxArrivals]
        BY <1>0 DEF TypeOK
      <3>2. \A f \in [Mailboxes -> 0..MaxArrivals] :
                [f EXCEPT ![m] = n] \in [Mailboxes -> 0..MaxArrivals]
        OBVIOUS
      <3>3. arrived' \in [Mailboxes -> 0..MaxArrivals]
        BY <2>2, <3>1, <3>2
      <3>4. shifted' \in [Mailboxes -> 0..MaxArrivals]
        BY <2>2, <3>1, <3>2
      <3>5. stored' \in [Mailboxes -> 0..MaxArrivals]
        BY <2>2, <3>1, <3>2
      <3> QED
        BY <3>3, <3>4, <3>5
    <2>4. flag' \in [Mailboxes -> BOOLEAN]
      BY <1>0, <1>9 DEF TypeOK, FrameArrives
    <2> QED
      BY <1>0, <1>9, <2>3, <2>4 DEF TypeOK, FrameArrives
  <1>10. CASE UNCHANGED vars
    BY <1>0, <1>10 DEF TypeOK, vars
  <1> QED
    BY <1>1, <1>2, <1>3, <1>4, <1>5, <1>6, <1>7, <1>8, <1>9, <1>10, Steps

\* One mailbox is locked at a time, by the read that goes on.
LEMMA LockStep ==
    ASSUME IInv, [Next]_vars
    PROVE  LockInv'
  <1> USE MailboxCount DEF hardware, driver
  <1>0. TypeOK /\ LockInv
    BY DEF IInv
  <1>1. CASE ArmMailbox
    BY <1>0, <1>1 DEF TypeOK, LockInv, ArmMailbox
  <1>2. CASE NothingToRead
    BY <1>0, <1>2 DEF TypeOK, LockInv, NothingToRead, NextMailbox
  <1>3. CASE LockAndCopy
    BY <1>0, <1>3 DEF TypeOK, LockInv, LockAndCopy
  <1>4. CASE ClearFlag
    BY <1>0, <1>4 DEF TypeOK, LockInv, ClearFlag
  <1>5. CASE UnlockMailbox
    BY <1>0, <1>5 DEF TypeOK, LockInv, UnlockMailbox, Unlocked
  <1>6. CASE CAN0_Callback
    BY <1>0, <1>6 DEF TypeOK, LockInv, CAN0_Callback, NextMailbox
  <1>7. CASE Delay
    BY <1>0, <1>7 DEF TypeOK, LockInv, Delay
  <1>8. CASE TakeFromQueue
    BY <1>0, <1>8 DEF TypeOK, LockInv, TakeFromQueue
  <1>9. ASSUME NEW m \in Mailboxes, FrameArrives(m)
        PROVE  LockInv'
    BY <1>0, <1>9 DEF TypeOK, LockInv, FrameArrives
  <1>10. CASE UNCHANGED vars
    BY <1>0, <1>10 DEF LockInv, vars
  <1> QED
    BY <1>1, <1>2, <1>3, <1>4, <1>5, <1>6, <1>7, <1>8, <1>9, <1>10, Steps

\* Serial numbers stay in order, the locked mailbox keeps what was read from
\* it, and what is unread stays flagged: the flag that ClearFlag takes away is
\* that of the frame just read, and a frame that arrives meanwhile brings a
\* flag of its own when the mailbox is unlocked.
LEMMA SerialStep ==
    ASSUME IInv, [Next]_vars
    PROVE  SerialInv' /\ ReadInv' /\ UnreadIsFlagged'
  <1> DEFINE P == SerialInv /\ ReadInv /\ UnreadIsFlagged
  <1> USE DEF hardware, driver, SerialInv, ReadInv, UnreadIsFlagged
  <1>0. TypeOK /\ LockInv /\ P
    BY DEF IInv
  <1>t. /\ k \in Mailboxes
        /\ \A q \in Mailboxes : /\ stored[q] \in Nat
                                /\ shifted[q] \in Nat
                                /\ arrived[q] \in Nat
                                /\ lastRead[q] \in Nat
                                /\ flag[q] \in BOOLEAN
    BY <1>0, CanRxAssumption DEF TypeOK
  <1>1. CASE ArmMailbox
    BY <1>0, <1>1 DEF TypeOK, ArmMailbox
  <1>2. CASE NothingToRead
    BY <1>0, <1>2 DEF TypeOK, NothingToRead, NextMailbox
  <1>3. CASE LockAndCopy
    <2>1. /\ lastRead'[k] = stored[k]
          /\ \A q \in Mailboxes : q # k => lastRead'[q] = lastRead[q]
          /\ UNCHANGED <<stored, flag, shifted, k, arrived>>
      BY <1>0, <1>3 DEF TypeOK, LockAndCopy
    <2> QED
      BY <1>0, <1>t, <2>1
  <1>4. CASE ClearFlag
    BY <1>0, <1>4 DEF TypeOK, ClearFlag
  <1>5. CASE UnlockMailbox
    <2>1. \A m \in Mailboxes : m # k => /\ stored'[m] = stored[m]
                                       /\ flag'[m] = flag[m]
                                       /\ shifted'[m] = shifted[m]
      BY <1>0, <1>5 DEF TypeOK, UnlockMailbox, Unlocked
    <2>2. shifted'[k] = 0
      BY <1>0, <1>5 DEF TypeOK, UnlockMailbox, Unlocked
    <2>3. \/ stored'[k] = stored[k] /\ flag'[k] = flag[k]
          \/ shifted[k] # 0 /\ stored'[k] = shifted[k] /\ flag'[k] = TRUE
      BY <1>0, <1>5 DEF TypeOK, UnlockMailbox, Unlocked
    <2>4. UNCHANGED <<arrived, lastRead>> /\ pc' = "callback"
      BY <1>5 DEF UnlockMailbox
    <2> QED
      BY <1>0, <1>t, <2>1, <2>2, <2>3, <2>4
  <1>6. CASE CAN0_Callback
    BY <1>0, <1>6 DEF TypeOK, CAN0_Callback, NextMailbox
  <1>7. CASE Delay
    BY <1>0, <1>7 DEF TypeOK, Delay
  <1>8. CASE TakeFromQueue
    BY <1>0, <1>8 DEF TypeOK, TakeFromQueue
  <1>9. ASSUME NEW m \in Mailboxes, FrameArrives(m)
        PROVE  P'
    <2>1. /\ arrived'[m] = arrived[m] + 1
          /\ \A q \in Mailboxes : q # m => arrived'[q] = arrived[q]
      BY <1>0, <1>9 DEF TypeOK, FrameArrives
    <2>2. UNCHANGED <<lock, pc, k, lastRead>>
      BY <1>9 DEF FrameArrives
    <2>3. CASE lock = m
      <3>1. /\ UNCHANGED <<stored, flag>>
            /\ shifted'[m] = arrived[m] + 1
            /\ \A q \in Mailboxes : q # m => shifted'[q] = shifted[q]
        BY <1>0, <1>9, <2>3 DEF TypeOK, FrameArrives
      <3> QED
        BY <1>0, <1>t, <2>1, <2>2, <3>1
    <2>4. CASE lock # m
      <3>1. /\ UNCHANGED shifted
            /\ stored'[m] = arrived[m] + 1
            /\ flag'[m] = TRUE
            /\ \A q \in Mailboxes : q # m => stored'[q] = stored[q] /\ flag'[q] = flag[q]
        BY <1>0, <1>9, <2>4 DEF TypeOK, FrameArrives
      <3>2. shifted[m] = 0 /\ ~(pc \in {"clear", "unlock"} /\ k = m)
        BY <1>0, <2>4 DEF LockInv
      <3> QED
        BY <1>0, <1>t, <2>1, <2>2, <3>1, <3>2
    <2> QED
      BY <2>3, <2>4
  <1>10. CASE UNCHANGED vars
    BY <1>0, <1>10 DEF vars
  <1> QED
    BY <1>1, <1>2, <1>3, <1>4, <1>5, <1>6, <1>7, <1>8, <1>9, <1>10, Steps

\* Every mailbox the task has passed is armed with a destination.
LEMMA ArmStep ==
    ASSUME IInv, [Next]_vars
    PROVE  ArmInv'
  <1> USE DEF hardware, driver
  <1>0. TypeOK /\ ArmInv
    BY DEF IInv
  <1>1. CASE ArmMailbox
    <2>1. /\ mbState'[k] = "RX_BUSY" /\ pMB'[k] \in Buffers
          /\ \A m \in Mailboxes : m # k => mbState'[m] = mbState[m] /\ pMB'[m] = pMB[m]
      <3>1. CASE mbState[k] = "IDLE"
        BY <1>0, <1>1, <3>1, Destinations DEF TypeOK, ArmMailbox, Receive
      <3>2. CASE mbState[k] = "RX_BUSY"
        BY <1>0, <1>1, <3>2 DEF TypeOK, ArmInv, ArmMailbox, Receive
      <3> QED
        BY <1>0, <3>1, <3>2 DEF TypeOK
    <2>2. /\ k \in Mailboxes /\ pc = "arm"
          /\ k' = IF k + 1 = NumMb THEN 0 ELSE k + 1
          /\ pc' = IF k + 1 = NumMb THEN "poll" ELSE "arm"
      BY <1>0, <1>1, MailboxCount DEF TypeOK, ArmMailbox
    <2>3. \A m \in Mailboxes : mbState'[m] = "RX_BUSY" => pMB'[m] \in Buffers
      BY <1>0, <2>1 DEF ArmInv
    <2>4. \A m \in Mailboxes : m < k + 1 => mbState'[m] = "RX_BUSY"
      BY <1>0, <2>1, <2>2, MailboxCount DEF ArmInv
    <2>5. k + 1 = NumMb => \A m \in Mailboxes : m < k + 1
      BY MailboxCount
    <2> QED
      BY <2>2, <2>3, <2>4, <2>5 DEF ArmInv
  <1>2. CASE NothingToRead
    BY <1>0, <1>2 DEF TypeOK, ArmInv, NothingToRead, NextMailbox
  <1>3. CASE LockAndCopy
    BY <1>0, <1>3 DEF TypeOK, ArmInv, LockAndCopy
  <1>4. CASE ClearFlag
    BY <1>0, <1>4 DEF TypeOK, ArmInv, ClearFlag
  <1>5. CASE UnlockMailbox
    BY <1>0, <1>5 DEF TypeOK, ArmInv, UnlockMailbox
  <1>6. CASE CAN0_Callback
    <2>1. /\ mbState'[k] = "RX_BUSY" /\ pMB'[k] \in Buffers
          /\ \A m \in Mailboxes : m # k => mbState'[m] = mbState[m] /\ pMB'[m] = pMB[m]
      BY <1>0, <1>6, Destinations DEF TypeOK, ArmInv, CAN0_Callback, Receive
    <2>2. pc = "callback" /\ pc' \in {"poll", "delay"}
      BY <1>6 DEF CAN0_Callback, NextMailbox
    <2> QED
      BY <1>0, <2>1, <2>2 DEF ArmInv
  <1>7. CASE Delay
    BY <1>0, <1>7 DEF TypeOK, ArmInv, Delay
  <1>8. CASE TakeFromQueue
    BY <1>0, <1>8 DEF TypeOK, ArmInv, TakeFromQueue
  <1>9. CASE \E m \in Mailboxes : FrameArrives(m)
    BY <1>0, <1>9 DEF TypeOK, ArmInv, FrameArrives
  <1>10. CASE UNCHANGED vars
    BY <1>0, <1>10 DEF ArmInv, vars
  <1> QED
    BY <1>1, <1>2, <1>3, <1>4, <1>5, <1>6, <1>7, <1>8, <1>9, <1>10, Steps

\* The callback runs for a mailbox FlexCAN_IRQHandlerRxMB has just made idle,
\* so FlexCAN_Ip_Receive takes the new destination.
LEMMA CallbackArms ==
    ASSUME IInv, CAN0_Callback
    PROVE  /\ pMB'[k] = RxData
           /\ \A m \in Mailboxes : m # k => pMB'[m] = pMB[m]
  <1>1. mbState[k] = "IDLE" /\ k \in Mailboxes /\ pMB \in [Mailboxes -> Buffers \cup {NoBuffer}]
    BY DEF IInv, ArmInv, TypeOK, CAN0_Callback
  <1> QED
    BY <1>1 DEF CAN0_Callback, Receive

\* Once armed with rxData a mailbox queues nothing stale any more.
LEMMA StaleStep ==
    ASSUME IInv, [Next]_vars
    PROVE  StaleInv' /\ StaleAtMostOnce'
  <1> DEFINE P == StaleInv /\ StaleAtMostOnce
  <1> USE DEF hardware, driver, StaleInv, StaleAtMostOnce
  <1>0. TypeOK /\ P
    BY DEF IInv
  <1>1. CASE ArmMailbox
    <2>1. pc = "arm" /\ pc' \in {"arm", "poll"} /\ UNCHANGED stale
      BY <1>1 DEF ArmMailbox
    <2> QED
      BY <1>0, <2>1
  <1>2. CASE NothingToRead
    BY <1>0, <1>2 DEF NothingToRead, NextMailbox
  <1>3. CASE LockAndCopy
    <2>1. /\ pMB[k] = RxData => buffer'[RxData] = FrameOf(k, stored[k])
          /\ lastRead'[k] = stored[k]
      BY <1>0, <1>3, Destinations DEF TypeOK, LockAndCopy
    <2>2. pc' = "clear" /\ pc = "poll" /\ UNCHANGED <<stale, pMB, k>>
      BY <1>3 DEF LockAndCopy
    <2> QED
      BY <1>0, <2>1, <2>2
  <1>4. CASE ClearFlag
    BY <1>0, <1>4 DEF ClearFlag
  <1>5. CASE UnlockMailbox
    BY <1>0, <1>5 DEF UnlockMailbox
  <1>6. CASE CAN0_Callback
    <2>1. pc = "callback" /\ pc' \in {"poll", "delay"}
      BY <1>6 DEF CAN0_Callback, NextMailbox
    <2>2. /\ k \in Mailboxes
          /\ \A m \in Mailboxes : m # k => stale'[m] = stale[m]
          /\ stale'[k] = IF buffer[RxData] = FrameOf(k, lastRead[k])
                            THEN stale[k] ELSE stale[k] + 1
      BY <1>0, <1>6 DEF TypeOK, CAN0_Callback
    <2>3. stale'[k] <= 1
      BY <1>0, <2>1, <2>2
    <2> QED
      BY <1>0, <1>6, <2>1, <2>2, <2>3, CallbackArms
  <1>7. CASE Delay
    BY <1>0, <1>7 DEF Delay
  <1>8. CASE TakeFromQueue
    BY <1>0, <1>8 DEF TakeFromQueue
  <1>9. CASE \E m \in Mailboxes : FrameArrives(m)
    BY <1>0, <1>9 DEF FrameArrives
  <1>10. CASE UNCHANGED vars
    BY <1>0, <1>10 DEF vars
  <1> QED
    BY <1>1, <1>2, <1>3, <1>4, <1>5, <1>6, <1>7, <1>8, <1>9, <1>10, Steps

\* What was read carries its serial number, at most the last one read of its
\* id's mailbox.
LEMMA ReadSerials ==
    ASSUME IInv, NEW f, WasRead(f, lastRead)
    PROVE  /\ f.data \in Nat
           /\ \A m \in Mailboxes : \A n \in 1..MaxArrivals :
                  f.msgId = FrameOf(m, n).msgId => f.data <= lastRead[m]
  <1>1. CASE f = Zeroed
    <2>1. f.data = 0
      BY <1>1 DEF Zeroed
    <2>2. \A m \in Mailboxes : lastRead[m] \in Nat
      BY CanRxAssumption DEF IInv, TypeOK
    <2> QED
      BY <2>1, <2>2
  <1>2. ASSUME NEW q \in Mailboxes, NEW r \in 1..lastRead[q], f = FrameOf(q, r)
        PROVE  /\ f.data \in Nat
               /\ \A m \in Mailboxes : \A n \in 1..MaxArrivals :
                      f.msgId = FrameOf(m, n).msgId => f.data <= lastRead[m]
    <2>1. r \in 1..MaxArrivals /\ r \in Nat /\ r <= lastRead[q]
      BY CanRxAssumption DEF IInv, TypeOK
    <2>2. f.data = r
      BY <1>2, <2>1, FrameAssumption
    <2>3. \A m \in Mailboxes : \A n \in 1..MaxArrivals :
              f.msgId = FrameOf(m, n).msgId => m = q
      BY <1>2, <2>1, FrameAssumption
    <2> QED
      BY <2>1, <2>2, <2>3
  <1> QED
    BY <1>1, <1>2 DEF WasRead

\* What was read once stays read: the serial numbers read from a mailbox never
\* go back.
LEMMA ReadStaysRead ==
    ASSUME IInv, [Next]_vars, NEW f, WasRead(f, lastRead)
    PROVE  WasRead(f, lastRead')
  <1>1. \A m \in Mailboxes : lastRead[m] \in Nat /\ stored[m] \in Nat /\ lastRead[m] <= stored[m]
    BY CanRxAssumption DEF IInv, TypeOK, SerialInv
  <1>2. \A m \in Mailboxes : lastRead'[m] = lastRead[m] \/ lastRead'[m] = stored[m]
    <2>1. CASE LockAndCopy
      BY <2>1 DEF LockAndCopy, IInv, TypeOK
    <2>2. CASE UNCHANGED lastRead
      BY <2>2
    <2> QED
      BY <2>1, <2>2, Steps DEF ArmMailbox, NothingToRead, ClearFlag, UnlockMailbox,
         CAN0_Callback, Delay, TakeFromQueue, FrameArrives, vars
  <1>3. \A m \in Mailboxes : 1..lastRead[m] \subseteq 1..lastRead'[m]
    BY <1>1, <1>2
  <1> QED
    BY <1>3 DEF WasRead

\* The queue's entries keep their order: the driver copies a frame to rxData
\* only over an older one of its id, and the callback queues what rxData holds.
LEMMA OrderStep ==
    ASSUME IInv, [Next]_vars
    PROVE  OrderInv' /\ NoReordering'
  <1> DEFINE P == OrderInv /\ NoReordering
  <1> USE DEF hardware, driver
  <1>0. TypeOK /\ P
    BY DEF IInv
  <1>r. /\ WasRead(buffer[RxData], lastRead')
        /\ \A i \in DOMAIN log : WasRead(log[i], lastRead')
    BY <1>0, ReadStaysRead DEF OrderInv
  <1>1. CASE LockAndCopy /\ pMB[k] = RxData
    <2>1. UNCHANGED log
      BY <1>1 DEF LockAndCopy
    <2>2. buffer'[RxData] = FrameOf(k, stored[k]) /\ lastRead'[k] = stored[k]
      BY <1>0, <1>1, Destinations DEF TypeOK, LockAndCopy
    <2>3. k \in Mailboxes /\ stored[k] \in 1..MaxArrivals
      BY <1>1, ReadsAFrame
    <2>4. buffer'[RxData].data = stored[k] /\ stored[k] \in Nat
      BY <2>2, <2>3, FrameAssumption
    <2>5. WasRead(buffer'[RxData], lastRead')
      BY <2>2, <2>3 DEF WasRead
    <2>6. ASSUME NEW i \in DOMAIN log, log[i].msgId = buffer'[RxData].msgId
          PROVE  log[i].data <= buffer'[RxData].data
      <3>1. WasRead(log[i], lastRead)
        BY <1>0 DEF OrderInv
      <3>2. log[i].data \in Nat /\ log[i].data <= lastRead[k]
        BY <2>2, <2>3, <2>6, <3>1, ReadSerials
      <3>3. lastRead[k] \in Nat /\ lastRead[k] <= stored[k]
        BY <2>3, CanRxAssumption DEF IInv, TypeOK, SerialInv
      <3> QED
        BY <2>4, <3>2, <3>3
    <2> QED
      BY <1>0, <1>r, <2>1, <2>5, <2>6 DEF OrderInv, NoReordering
  <1>2. CASE CAN0_Callback /\ Len(queue) < QueueLength
    <2>1. UNCHANGED <<buffer, lastRead>> /\ log' = Append(log, buffer[RxData])
      BY <1>2 DEF CAN0_Callback
    <2>2. /\ DOMAIN log = 1..Len(log) /\ Len(log) \in Nat
          /\ DOMAIN log' = 1..(Len(log) + 1)
          /\ \A i \in DOMAIN log : log'[i] = log[i]
          /\ log'[Len(log) + 1] = buffer[RxData]
      BY <1>0, <2>1, Destinations, AppendProperties, LenProperties DEF TypeOK
    <2>3. \A i \in DOMAIN log' : i \in DOMAIN log \/ i = Len(log) + 1
      BY <2>2
    <2>4. buffer[RxData].data \in Nat
      BY <1>0, ReadSerials DEF OrderInv
    <2>5. OrderInv'
      BY <1>0, <2>1, <2>2, <2>3, <2>4 DEF OrderInv
    <2>6. NoReordering'
      <3> SUFFICES ASSUME NEW i \in DOMAIN log', NEW j \in DOMAIN log', i < j,
                          log'[i].msgId = log'[j].msgId
                   PROVE  log'[i].data <= log'[j].data
        BY DEF NoReordering
      <3>1. i \in DOMAIN log
        BY <2>2
      <3>2. CASE j \in DOMAIN log
        BY <1>0, <2>2, <3>1, <3>2 DEF NoReordering
      <3>3. CASE j = Len(log) + 1
        BY <1>0, <2>2, <3>1, <3>3 DEF OrderInv
      <3> QED
        BY <2>3, <3>2, <3>3
    <2> QED
      BY <2>5, <2>6
  <1>3. CASE log' = log /\ buffer'[RxData] = buffer[RxData]
    BY <1>0, <1>r, <1>3 DEF OrderInv, NoReordering
  <1>4. CASE LockAndCopy /\ pMB[k] # RxData
    <2>1. log' = log /\ buffer'[RxData] = buffer[RxData]
      BY <1>0, <1>4, Destinations DEF TypeOK, LockAndCopy
    <2> QED
      BY <1>3, <2>1
  <1>5. CASE CAN0_Callback /\ ~(Len(queue) < QueueLength)
    BY <1>3, <1>5 DEF CAN0_Callback
  <1> QED
    BY <1>1, <1>2, <1>3, <1>4, <1>5, Steps DEF ArmMailbox, NothingToRead,
       ClearFlag, UnlockMailbox, Delay, TakeFromQueue, FrameArrives, vars

-----------------------------------------------------------------------------
\* Every reachable state satisfies the invariant.
THEOREM Invariance == Spec => []IInv
  <1>1. IInv /\ [Next]_vars => IInv'
    <2> SUFFICES ASSUME IInv, [Next]_vars PROVE IInv'
      OBVIOUS
    <2>1. TypeOK' /\ LockInv'
      BY TypeStep, LockStep
    <2>2. SerialInv' /\ ReadInv' /\ UnreadIsFlagged'
      BY SerialStep
    <2>3. ArmInv' /\ StaleInv' /\ StaleAtMostOnce'
      BY ArmStep, StaleStep
    <2>4. OrderInv' /\ NoReordering'
      BY OrderStep
    <2> QED
      BY <2>1, <2>2, <2>3, <2>4 DEF IInv
  <1> QED
    BY InitIInv, <1>1, PTL DEF Spec

\* Every variable of the receive side keeps the type of its C declaration, and
\* xQueue_CAN never exceeds its capacity.
THEOREM TypeCorrect == Spec => []TypeOK
  <1>1. IInv => TypeOK
    BY DEF IInv
  <1> QED
    BY Invariance, <1>1, PTL

\* However a frame's arrival falls between the register accesses of
\* FlexCAN_IRQHandlerRxMB, a frame that sits unread in its mailbox is flagged.
THEOREM UnreadFramesAreFlagged == Spec => []UnreadIsFlagged
  <1>1. IInv => UnreadIsFlagged
    BY DEF IInv
  <1> QED
    BY Invariance, <1>1, PTL

\* Outside the handler no mailbox is idle: the callback re-arms the one that
\* FlexCAN_IRQHandlerRxMB released.
THEOREM MailboxesAreRearmed == Spec => []AlwaysRearmed
  <1>1. IInv => AlwaysRearmed
    BY DEF IInv, ArmInv, AlwaysRearmed
  <1> QED
    BY Invariance, <1>1, PTL

\* All mailboxes share rxData, and still the frames of one id enter xQueue_CAN
\* in their order of arrival.
THEOREM OrderIsKept == Spec => []NoReordering
  <1>1. IInv => NoReordering
    BY DEF IInv
  <1> QED
    BY Invariance, <1>1, PTL

\* A mailbox queues something else than the frame just read at most once, for
\* its first frame, which goes to the shadow buffer.
THEOREM StaleOnce == Spec => []StaleAtMostOnce
  <1>1. IInv => StaleAtMostOnce
    BY DEF IInv
  <1> QED
    BY Invariance, <1>1, PTL
=============================================================================
