------------------------------- MODULE Queue -------------------------------
(***************************************************************************)
(* A FreeRTOS queue (FreeRTOS/Source/queue.c) of several items, as         *)
(* xQueue_CAN is one, so without queueOVERWRITE:                           *)
(* xQueueGenericSend and xQueueReceive by tasks that may wait, their       *)
(* FromISR forms, and the lock that keeps interrupts from the event lists  *)
(* while a task decides to wait.  A step is one critical section.  While a *)
(* task has the scheduler suspended only it and interrupts run; otherwise  *)
(* any task that is on no event list may, as tasks of one priority under   *)
(* time slicing do.                                                        *)
(***************************************************************************)
EXTENDS Integers, Sequences, FiniteSets

CONSTANTS
    Tasks,
    Priority, \* priority of each task
    None,     \* no task
    Length,   \* uxLength
    Waits,    \* values of xTicksToWait used: a subset of AllWaits
    MaxItems  \* bound: number of items the calls offer

AllWaits == {"none", "finite", "forever"} \* 0, between, portMAX_DELAY

ASSUME QueueAssumption ==
    /\ IsFiniteSet(Tasks)
    /\ Priority \in [Tasks -> Nat]
    /\ None \notin Tasks
    /\ Length \in Nat \ {0}
    /\ Waits \subseteq AllWaits
    /\ MaxItems \in Nat

VARIABLES
    storage,    \* the items at pcHead, by position
    writeTo,    \* pcWriteTo as a position
    readFrom,   \* pcReadFrom as a position
    waiting,    \* uxMessagesWaiting
    txLock,     \* cTxLock
    rxLock,     \* cRxLock
    toSend,     \* xTasksWaitingToSend
    toReceive,  \* xTasksWaitingToReceive
    suspender,  \* the task that suspended the scheduler, or None
    pc,         \* position of each task, "out" between two calls
    call,       \* the call of each task: what it does ("receive", or where a
                \* send copies to), its item, its xTicksToWait, its time is up
    offered,    \* number of items offered
    taken       \* history: the item received last, <<>> before the first

ring == <<storage, writeTo, readFrom, waiting, taken>>
lock == <<txLock, rxLock, suspender>>
lists == <<toSend, toReceive>>
calls == <<call, offered>>
vars == <<ring, lock, lists, pc, calls>>

queueUNLOCKED == -1
queueLOCKED_UNMODIFIED == 0

Items == 1..MaxItems
Slots == 0..(Length - 1)

CopyPositions == {"back", "front"}

NoCall == [op |-> "receive", item |-> 0, wait |-> "none", expired |-> FALSE]

\* xQueueGenericReset on a new queue.
Init ==
    /\ storage = [s \in Slots |-> 0]
    /\ writeTo = 0
    /\ readFrom = Length - 1
    /\ waiting = 0
    /\ txLock = queueUNLOCKED
    /\ rxLock = queueUNLOCKED
    /\ toSend = <<>>
    /\ toReceive = <<>>
    /\ suspender = None
    /\ pc = [t \in Tasks |-> "out"]
    /\ call = [t \in Tasks |-> NoCall]
    /\ offered = 0
    /\ taken = <<>>

In(t, list) == \E i \in DOMAIN list : list[i] = t

Runs(t) ==
    IF suspender = None THEN ~In(t, toSend) /\ ~In(t, toReceive) ELSE t = suspender
-----------------------------------------------------------------------------
(***************************************************************************)
(* The ring.                                                               *)
(***************************************************************************)
AfterWrite == IF writeTo + 1 >= Length THEN 0 ELSE writeTo + 1

\* Slip: an item sent to the front goes where the last one was read, after the
\* step back.
Mut_CopyDataToQueue(i, position) ==
    /\ IF position = "back"
       THEN /\ storage' = [storage EXCEPT ![writeTo] = i]
            /\ writeTo' = AfterWrite
            /\ UNCHANGED readFrom
       ELSE /\ readFrom' = (readFrom + Length - 1) % Length
            /\ storage' = [storage EXCEPT ![readFrom'] = i]
            /\ UNCHANGED writeTo
    /\ waiting' = waiting + 1
    /\ UNCHANGED taken

CopyDataToQueue(i, position) ==
    /\ IF position = "back"
       THEN /\ storage' = [storage EXCEPT ![writeTo] = i]
            /\ writeTo' = AfterWrite
            /\ UNCHANGED readFrom
       ELSE /\ storage' = [storage EXCEPT ![readFrom] = i]
            /\ readFrom' = (readFrom + Length - 1) % Length
            /\ UNCHANGED writeTo
    /\ waiting' = waiting + 1
    /\ UNCHANGED taken

CopyDataFromQueue ==
    /\ readFrom' = (readFrom + 1) % Length
    /\ taken' = <<storage[readFrom']>>
    /\ waiting' = waiting - 1
    /\ UNCHANGED <<storage, writeTo>>

(***************************************************************************)
(* The event lists: sorted by priority, first come first served within     *)
(* one.  A task taken off a list is ready, or will be when the scheduler   *)
(* is resumed.                                                             *)
(***************************************************************************)
PlaceOnEventList(t, list) ==
    LET ahead == Cardinality({i \in DOMAIN list : Priority[list[i]] >= Priority[t]})
    IN  [i \in 1..(Len(list) + 1) |-> IF i <= ahead THEN list[i]
                                     ELSE IF i = ahead + 1 THEN t
                                     ELSE list[i - 1]]

\* The n longest waiting tasks of the highest priorities are woken.
Woken(list, n) == SubSeq(list, 1 + (IF n < Len(list) THEN n ELSE Len(list)), Len(list))
-----------------------------------------------------------------------------
(***************************************************************************)
(* The calls of tasks.                                                     *)
(***************************************************************************)
CallSend(t) ==
    /\ pc[t] = "out"
    /\ Runs(t)
    /\ offered < MaxItems
    /\ offered' = offered + 1
    /\ \E position \in CopyPositions, w \in Waits :
           call' = [call EXCEPT ![t] = [op |-> position, item |-> offered + 1,
                                        wait |-> w, expired |-> FALSE]]
    /\ pc' = [pc EXCEPT ![t] = "try"]
    /\ UNCHANGED <<ring, lock, lists>>

CallReceive(t) ==
    /\ pc[t] = "out"
    /\ Runs(t)
    /\ \E w \in Waits : call' = [call EXCEPT ![t] = [NoCall EXCEPT !.wait = w]]
    /\ pc' = [pc EXCEPT ![t] = "try"]
    /\ UNCHANGED <<ring, lock, lists, offered>>

Receives(t) == call[t].op = "receive"

At(t, place) == pc[t] = place /\ Runs(t)

Goto(t, place) ==
    /\ pc' = [pc EXCEPT ![t] = place]
    /\ UNCHANGED calls

Return(t) ==
    /\ pc' = [pc EXCEPT ![t] = "out"]
    /\ call' = [call EXCEPT ![t] = NoCall]
    /\ UNCHANGED offered

TrySend(t) ==
    /\ At(t, "try")
    /\ ~Receives(t)
    /\ waiting < Length
    /\ CopyDataToQueue(call[t].item, call[t].op)
    /\ toReceive' = Woken(toReceive, 1)
    /\ Return(t)
    /\ UNCHANGED <<lock, toSend>>

TryReceive(t) ==
    /\ At(t, "try")
    /\ Receives(t)
    /\ waiting > 0
    /\ CopyDataFromQueue
    /\ toSend' = Woken(toSend, 1)
    /\ Return(t)
    /\ UNCHANGED <<lock, toReceive>>

\* Full or empty: return at once, or set the time-out and go on to wait.
TryFails(t) ==
    /\ At(t, "try")
    /\ IF Receives(t) THEN waiting = 0 ELSE waiting = Length
    /\ IF call[t].wait = "none" THEN Return(t) ELSE Goto(t, "lock")
    /\ UNCHANGED <<ring, lock, lists>>

\* vTaskSuspendAll, prvLockQueue and xTaskCheckForTimeOut, which reads nothing
\* that an interrupt changes; a call whose time is up waits no more.
LockQueue(t) ==
    /\ At(t, "lock")
    /\ suspender' = t
    /\ txLock' = IF txLock = queueUNLOCKED THEN queueLOCKED_UNMODIFIED ELSE txLock
    /\ rxLock' = IF rxLock = queueUNLOCKED THEN queueLOCKED_UNMODIFIED ELSE rxLock
    /\ pc' = [pc EXCEPT ![t] = IF call[t].expired THEN "unlockTx" ELSE "look"]
    /\ call' = [call EXCEPT ![t].wait = IF call[t].expired THEN "none" ELSE @]
    /\ UNCHANGED <<ring, lists, offered>>

\* prvIsQueueFull or prvIsQueueEmpty.
Look(t) ==
    /\ At(t, "look")
    /\ Goto(t, IF waiting = (IF Receives(t) THEN 0 ELSE Length) THEN "place" ELSE "unlockTx")
    /\ UNCHANGED <<ring, lock, lists>>

\* vTaskPlaceOnEventList: the task stops when the scheduler is resumed.
Place(t) ==
    /\ At(t, "place")
    /\ IF Receives(t)
       THEN toReceive' = PlaceOnEventList(t, toReceive) /\ UNCHANGED toSend
       ELSE toSend' = PlaceOnEventList(t, toSend) /\ UNCHANGED toReceive
    /\ Goto(t, "unlockTx")
    /\ UNCHANGED <<ring, lock>>

\* Slip: the items sent while the queue was locked are forgotten.
Mut_UnlockTx(t) ==
    /\ At(t, "unlockTx")
    /\ txLock' = queueUNLOCKED
    /\ Goto(t, "unlockRx")
    /\ UNCHANGED <<ring, rxLock, suspender, lists>>

\* prvUnlockQueue, its two critical sections.
UnlockTx(t) ==
    /\ At(t, "unlockTx")
    /\ toReceive' = Woken(toReceive, txLock)
    /\ txLock' = queueUNLOCKED
    /\ Goto(t, "unlockRx")
    /\ UNCHANGED <<ring, rxLock, suspender, toSend>>

UnlockRx(t) ==
    /\ At(t, "unlockRx")
    /\ toSend' = Woken(toSend, rxLock)
    /\ rxLock' = queueUNLOCKED
    /\ Goto(t, "resume")
    /\ UNCHANGED <<ring, txLock, suspender, toReceive>>

\* xTaskResumeAll: wait if on a list, else try again or give up.
ResumeAll(t) ==
    /\ At(t, "resume")
    /\ suspender' = None
    /\ \/ call[t].wait # "none" /\ Goto(t, "try")
       \/ call[t].wait = "none" /\ Receives(t) /\ Goto(t, "recheck")
       \/ call[t].wait = "none" /\ ~Receives(t) /\ Return(t)
    /\ UNCHANGED <<ring, txLock, rxLock, lists>>

\* xQueueReceive looks once more after its time-out.
Recheck(t) ==
    /\ At(t, "recheck")
    /\ IF waiting = 0 THEN Return(t) ELSE Goto(t, "try")
    /\ UNCHANGED <<ring, lock, lists>>
-----------------------------------------------------------------------------
(***************************************************************************)
(* Interrupts, between any two critical sections, and the tick.            *)
(***************************************************************************)
\* xQueueGenericSendFromISR
SendFromISR(position) ==
    /\ offered < MaxItems
    /\ waiting < Length
    /\ offered' = offered + 1
    /\ CopyDataToQueue(offered + 1, position)
    /\ IF txLock = queueUNLOCKED
       THEN toReceive' = Woken(toReceive, 1) /\ UNCHANGED txLock
       ELSE txLock' = txLock + 1 /\ UNCHANGED toReceive
    /\ UNCHANGED <<rxLock, suspender, toSend, pc, call>>

\* xQueueReceiveFromISR
ReceiveFromISR ==
    /\ waiting > 0
    /\ CopyDataFromQueue
    /\ IF rxLock = queueUNLOCKED
       THEN toSend' = Woken(toSend, 1) /\ UNCHANGED rxLock
       ELSE rxLock' = rxLock + 1 /\ UNCHANGED toSend
    /\ UNCHANGED <<txLock, suspender, toReceive, pc, calls>>

Without(list, t) ==
    LET place == CHOOSE i \in DOMAIN list : list[i] = t
    IN  IF In(t, list)
        THEN [i \in 1..(Len(list) - 1) |-> list[IF i < place THEN i ELSE i + 1]]
        ELSE list

\* The time of a call is up; a task that waits is taken off its list.  Ticks
\* are held back while the scheduler is suspended.
TimeOut(t) ==
    /\ suspender = None
    /\ pc[t] # "out"
    /\ call[t].wait = "finite"
    /\ ~call[t].expired
    /\ call' = [call EXCEPT ![t].expired = TRUE]
    /\ toSend' = Without(toSend, t)
    /\ toReceive' = Without(toReceive, t)
    /\ UNCHANGED <<ring, lock, pc, offered>>
-----------------------------------------------------------------------------
TaskStep(t) ==
    \/ TrySend(t)
    \/ TryReceive(t)
    \/ TryFails(t)
    \/ LockQueue(t)
    \/ Look(t)
    \/ Place(t)
    \/ UnlockTx(t)
    \/ UnlockRx(t)
    \/ ResumeAll(t)
    \/ Recheck(t)

Next ==
    \/ \E t \in Tasks : CallSend(t) \/ CallReceive(t) \/ TaskStep(t) \/ TimeOut(t)
    \/ \E position \in CopyPositions : SendFromISR(position)
    \/ ReceiveFromISR

Spec == Init /\ [][Next]_vars
-----------------------------------------------------------------------------
Places == {"out", "try", "lock", "look", "place", "unlockTx", "unlockRx",
           "resume", "recheck"}

\* The variables have their types, the lists no task twice.
TypeOK ==
    /\ storage \in [Slots -> 0..MaxItems]
    /\ writeTo \in Slots
    /\ readFrom \in Slots
    /\ waiting \in 0..Length
    /\ txLock \in Int /\ txLock >= queueUNLOCKED
    /\ rxLock \in Int /\ rxLock >= queueUNLOCKED
    /\ \A list \in {toSend, toReceive} :
           /\ list \in Seq(Tasks)
           /\ \A i, j \in DOMAIN list : list[i] = list[j] => i = j
    /\ suspender \in Tasks \cup {None}
    /\ pc \in [Tasks -> Places]
    /\ call \in [Tasks -> [op : {"receive", "back", "front"},
                           item : 0..MaxItems, wait : AllWaits, expired : BOOLEAN]]
    /\ offered \in 0..MaxItems
    /\ taken \in {<<>>} \cup {<<i>> : i \in Items}

\* Tasks in a call that look at the queue once more before they wait or return.
ActiveReceivers == {t \in Tasks : Receives(t) /\ pc[t] # "out" /\ ~In(t, toReceive)}
ActiveSenders == {t \in Tasks : ~Receives(t) /\ pc[t] # "out" /\ ~In(t, toSend)}

\* No wake-up for an item is lost: if a task waits to receive while the queue
\* holds items, there is for each item a receiver that is awake, although items
\* come from interrupts while a task is on its way to wait.
ReceiversAreWoken ==
    txLock = queueUNLOCKED /\ toReceive # <<>> =>
        waiting <= Cardinality(ActiveReceivers)

\* The same for free places and the tasks that wait to send; a sender that gives
\* up after its time-out does not take a wake-up with it.
SendersAreWoken ==
    rxLock = queueUNLOCKED /\ toSend # <<>> =>
        Length - waiting <= Cardinality(ActiveSenders)

\* The scheduler is suspended exactly while the queue is locked or being
\* unlocked, so no second task finds a lock it did not set; and a task that
\* waits has said so: it is on the list of its own call.
LockDiscipline ==
    /\ suspender = None => txLock = queueUNLOCKED /\ rxLock = queueUNLOCKED
    /\ \A t \in Tasks :
           /\ In(t, toReceive) => Receives(t) /\ pc[t] # "out" /\ call[t].wait # "none"
           /\ In(t, toSend) => ~Receives(t) /\ pc[t] # "out" /\ call[t].wait # "none"

\* The lock does its work: whatever interrupts send and take between a task's
\* last look at the queue and its place on an event list, no task sleeps beside
\* an item or a free place that nobody else is about to take, and no lock or
\* list entry outlives its call.
NoLostWakeUp ==
    /\ TypeOK
    /\ LockDiscipline
    /\ ReceiversAreWoken
    /\ SendersAreWoken

\* The ring is a queue.
Bounded == INSTANCE BoundedQueue WITH
    content <- [i \in 1..waiting |-> storage[(readFrom + i) % Length]]

\* Refinement: every critical section is one step of the bounded queue or none.
IsBoundedQueue == Bounded!Spec
=============================================================================
