# CAN-FD to TSN Ethernet gateway (S32G399, M7): TLA+ verification project

The repository is the firmware of a gateway on one Cortex-M7 core: CAN-FD frames
received on two FlexCAN controllers are aggregated into containers and sent over
a GMAC Ethernet controller whose transmit queues are opened and closed by a
time-aware shaper (IEEE 802.1Qbv). Its own logic is in `src/src/` (mainly
`FlexCAN_SKKU.c`); it runs on FreeRTOS and on NXP's real-time drivers in
`RTD/src/`. This directory models the parts that carry the data path, checks
them with TLC and proves the main results with TLAPS.

## 1. Inventory

| Part | State | Operations | Interacts with |
|---|---|---|---|
| Polling task `CAN_Receive_Polling_Task`, callback `CAN0_Callback_SKKU` | `rxShadow[]`, global `rxData`, `canStats` | arm mailboxes, poll, re-arm and queue | FlexCAN driver (calls, callback), `xQueue_CAN` |
| FlexCAN mailbox driver (`FlexCAN_Ip.c`) | per mailbox: state, `pMBmessage`, `isPolling`; hardware: frame, flag, lock | `FlexCAN_Ip_Receive`, `FlexCAN_Ip_MainFunctionRead`, `FlexCAN_IRQHandlerRxMB` | CAN controller, which stores frames at any time |
| Aggregation task `ETH_PDU_Send_TAS` | container (`containerLen`, `iPduCount`, `currentTC`, `containerPending`), `overflowPdu` | take a PDU, add or carry over, decide, provide/transmit, reset | `xQueue_CAN`, gate lookup, Ethernet driver |
| Gate lookup (`gcl_locate`, `TAS_IsGateOpen_FIFOx`, `TAS_RemainingOpenTimeNs_FIFOx`) | none; reads the MAC clock; `GCL_MIRROR` | two register reads, table lookup | MAC clock, gate control list in the MAC |
| Ethernet transmit path (`Eth.c`, `Eth_Ipw.c`, `Gmac_Ip.c`) | descriptor ring (OWN, LOCKED, Des0, Info0), `TxCurrentDesc`, tail pointer, request list | `Eth_ProvideTxBuffer`, `Eth_Transmit`, `Eth_ReportTransmission` | DMA, Tx interrupt, task |
| Ethernet receive path | receive ring, `RxCurrentDesc`, `RxAllocDesc` | `Eth_Receive`, `Gmac_Ip_ReadFrame`, `Gmac_Ip_ProvideRxBuff`, `Gmac_Ip_RestoreRxCtxtDescr` | DMA, Rx interrupt; the upper layer is a stub |
| Controller mode | enable bits of MAC and DMA | `Eth_Init`, `Eth_SetControllerMode`, `Gmac_Ip_EnableController`, `Gmac_Ip_DisableController` | both rings, request list, both interrupts |
| FreeRTOS queue (`xQueue_CAN`) | ring of items, event lists, `cTxLock`, `cRxLock` | send and receive by tasks and interrupts, lock and unlock | scheduler, tick |
| FlexCAN transmission, abort, blocking calls, FIFOs | mailbox states, semaphores | `FlexCAN_Ip_Send`, `AbortTransfer`, ... | used by no started task |
| Board bring-up, `main`, test tasks, the rest of FreeRTOS, lwIP, generated tables | | | environment |

What is hard here: the Tx interrupt may preempt the task between any two stores
of `Eth_Transmit` and nothing masks it; the DMA and the CAN controllers change
shared memory at any time; the MAC clock is read in two halves; a container is
dropped when the driver refuses it, at the moment when another PDU may be waiting
for the next container; mailboxes are armed for one frame at a time; both DMAs
destroy the buffer addresses of the descriptors they hand back, and the receive
DMA sleeps until it is woken; a mode change rewrites rings and lists that interrupts are
using; a task decides to wait on a queue that interrupts keep changing. The hazards
are listed in `PROJECT.json`, each at its line with the properties that cover it.

Scheduling facts the models use: `ETH_TAS` and `CAN_RX_POLL` have the same
priority with time slicing; CAN is polled, no CAN interrupt is used; the GMAC
channel-0 interrupts preempt both tasks; `main` creates `xQueue_CAN` with 64
places (the comment above it speaks of 256); every mapped CAN id has class
`TC_CRITICAL`, so all containers use FIFO 0.

## 2. Modules

| Module | Models |
|---|---|
| `Aggregator` | `ETH_PDU_Send_TAS`. One loop iteration is cut where the task touches something shared: the queue (`ProcessOverflow`, `ReceiveFromQueue`, `QueueEmpty`), the gate (`Decide`), the driver (`ProvideOk/Fails`, `TransmitOk/Fails`). A container is the sequence of its I-PDUs with the length and count the code keeps beside the bytes. `CAN0_Callback` and `GateChange` are its environment; the gate may change between the question and the driver calls, and the history `late` counts the containers with room left that leave after it closed. |
| `BatchForwarder` | Abstract specification of the task: items stand in one line, non-empty batches leave from the front, delivered or dropped as a whole. |
| `EthTx` | The transmit path for one FIFO. `Eth_ProvideTxBuffer` is one step; `Eth_Transmit` is cut at each store to the request list (`TestHead`, `SetHead`/`LinkTail`, `SetTail`, `EndList`) and `Gmac_Ip_SendFrame` at the two stores the interrupt can tell apart (`SendFrame` writes Info0, `GiveToDma` sets OWN, `AdvanceTail` moves the tail pointer). `TxIrqEnter`, `ReportEntry`, `TxIrqExit` are the interrupt; the task stands still while it runs. `DmaSend` may send any descriptor it owns, in ring order, which includes every schedule of the real DMA; its write-back stores the time stamp (`Stamp`) over the buffer pointer in Des0, and `ReportEntry` restores it from Info0. `CopyFrame` is the memcpy into a buffer of the ring, `CopyOutsideRing` the memcpy through a pointer that is none: the program is not followed beyond it. The history `early` names the descriptors that were reported between the stores of Info0 and OWN. |
| `CanRx` | Mailboxes, driver, polling task, callback, queue. `FlexCAN_IRQHandlerRxMB` is cut at lock-and-copy, clearing the flag, unlocking and the callback; `FrameArrives` may fall between any two. |
| `TasGate` | The two register reads of `mac_time_now_ns`, in either order, with any time passing between them, and the functions that answer from `GCL_MIRROR`; `HwOpen` is the gate as the MAC drives it from the configured list. |
| `EthRx` | The receive ring, the DMA and the Rx interrupt. `Gmac_Ip_ReadFrame` and `EthIf_RxIndication` are steps; `Gmac_Ip_ProvideRxBuff` is cut where the DMA can see a difference: after the context descriptor is given back, before and after OWN of the frame's own descriptor, and at the tail pointer. |
| `EthRxMode` | `EthRx` with `Eth_SetControllerMode`: the MAC is disabled, the DMA stopped, the descriptors restored or the drain times out, and the controller started again; `Eth_Receive` refuses while the mode is not active. |
| `EthTxMode` | `EthTx` with `Eth_SetControllerMode`: the list is cleared entry by entry with the Tx interrupt between any two, the DMA stopped, the queues drained or timed out (in either half of `Gmac_Ip_DisableController`), the ring restored; `Eth_Transmit` refuses while the controller is down. |
| `Queue` | `xQueueGenericSend`, `xQueueReceive` and their FromISR forms. A step is a critical section; between any two of them interrupts send and receive. |
| `BoundedQueue` | Abstract specification of the queue: at most `Length` items, put at the back or the front, taken from the front. |
| `Gateway` | The composition `start_CAN` runs: `Aggregator` extended with an instance of `CanRx`; two tasks, one queue, one set of counters. |
| `MCAggregator`, `MCTasGate`, `MCCanRx`, `MCGateway`, `MCQueue` | Values for TLC. |
| `AggregatorProofs`, `EthTxProofs`, `EthTxModeProofs`, `TasGateProofs`, `CanRxProofs`, `EthRxProofs`, `QueueProofs`, `GatewayProofs` | Theorems and proofs. |

The `Mut_...` operators next to a definition are slips a programmer could make
there; with one of them in the definition's place TLC finds the property named in
`PROJECT.json` violated. They are used by nothing else.

Abstractions: payload bytes are model values; the container's byte layout is
reduced to length, count, FIFO and the PDU sequence; frames on the wire are
numbered; statistics that no property reads are kept only where an action counts
them; Ethernet and error-tracer argument checks that the gateway's calls cannot
fail are left out. Of a transmit time stamp only what it does to Des0 is modelled:
it is assumed to be neither the address of a buffer of the ring nor 0.

The hardware, as far as the code does not say, is assumed to behave so: the
transmit and the receive DMA work through their ring in order and keep their
position when they are stopped and started; a received frame's descriptor and
the context descriptor behind it are handed back together (an assertion of
`Gmac_Ip_RestoreRxCtxtDescr` presumes it); the receive DMA suspends at a
descriptor it does not own and wakes when the tail pointer is written; a FlexCAN
mailbox that is locked keeps its frame and takes a waiting one when unlocked; every
transmitted frame gets a time stamp (all ask for one with TTSE, and
`Eth_Ipw_ConfigureController` starts the clock because `ETH_GLOBAL_TIME_API` is on).

## 3. Runs

| Run | Shows |
|---|---|
| `Aggregator` (pass) | Safety: `PduConservation`: no PDU is lost, repeated or reordered by carry-over and reset. `CarryOverSafe`: the one-place carry-over is never overwritten. `ContainerFits`: the memcpy stays in the granted buffer. `SentContainersWellFormed`: length, count and FIFO of what is sent agree with its PDUs. `AtMostOneLateContainer`: after the gate closes at most one container with room left goes out, the one whose question was still answered yes; all others are too full for some PDU. `ForwardsInBatches`: refinement of `BatchForwarder`. Liveness: `TakenPdusLeave`. |
| `EthTx` (pass) | `NoWriteUnderDma`: a grant is the descriptor's own buffer, out of the DMA's reach, unless that descriptor was reported early. `GrantedBufferIsSendable`, `NoNullLookup`, `WireOrder`, `ConfirmOnceInOrder`. `CompletionsAreSeen`: with no Tx interrupt pending or running, the head of the list is unfinished. Liveness: `AcceptedReachesWire`, `IrqTerminates`. |
| `EthTxLost` (violation) | The interrupt empties the list between the task's test of `pQueueHead` and its link: a request is lost, its descriptor stays locked. |
| `EthTxStamp` (violation) | The interrupt between Info0 and OWN confirms a frame the DMA does not have yet and clears Info0. The frame is sent, its time stamp stays in Des0, and when the ring comes round `Gmac_Ip_GetTxBuff` grants it as a buffer, to which the task copies its container. |
| `EthTx4K` (violation) | A frame across a 4 KB boundary reaches the DMA; the check for it has no caller. |
| `CanRx` (pass) | `UnreadIsFlagged`, `AlwaysRearmed`, `NoReordering`, `StaleAtMostOnce`, and the liveness property `ArrivalsAreRead`. |
| `CanRxStale` (violation) | The first frame of each mailbox is lost and something older is queued in its place. |
| `TasGate` (pass) | `OpenMeansOpen`, `RemainingIsExact`, `ClosedMeansClosing` around the change of a second. |
| `EthRx` (pass) | Until the first mode change `IndicatesInOrder` (good frames once and in order, the driver's assertions hold) and `NothingLeftBehind` (no frame and no wake-up is lost between clearing RI and leaving the interrupt); across mode changes `BuffersSurviveModeChange` (single owner, no buffer written while it is read, a successful ETH_MODE_DOWN leaves a clean ring); `RxIrqTerminates`. |
| `EthTxMode` (pass) | `DownReleasesAll`, `NoStaleTransmission`, `ModeChangeEnds`. |
| `Queue` (pass) | `NoLostWakeUp`: no task sleeps beside an item or a free place nobody else is about to take, whatever interrupts do while it is on its way to sleep. `IsBoundedQueue`: refinement of `BoundedQueue`, so the queue that `CanRx`, `Aggregator` and `Gateway` write as a sequence is what `queue.c` provides. |
| `Gateway` (pass) | `WireOrderPerId` and `LossesAreCounted` end to end. `ReceptionHolds`, `AggregationHolds`: the composition is a behaviour of `CanRx` with the aggregator as its consumer and of `Aggregator` with the reception as its source, so the safety results of the two modules, the proved ones included, hold in the gateway. |

What an early confirmation does and does not break: until the task first copies to
a time stamp, the wire carries every accepted frame, once and in order, no buffer is
written under the DMA, and no frame is confirmed twice; a time stamp is granted only
at a descriptor that was reported early. After such a copy nothing is claimed: it
faults or overwrites foreign memory, and the models stop there.

What a mode change does not guarantee, and no property claims: `TxCurrentDesc`,
`RxCurrentDesc`, `RxAllocDesc` and the DMA's positions are not reset, so with
frames under way at the time of ETH_MODE_DOWN the driver and the DMA may look at
different descriptors after the restart, and frames wait until the ring comes
round; and a Tx interrupt while the list is being cleared looks up NULL, which
the Info0 of an unused descriptor equals, and clears that descriptor's buffer
address. The models have these steps, up to the copy through the lost address. `main` never changes the mode after
`device_init`.

### Bounds

- `Aggregator`: `MaxSend` 13 with PDU lengths 1 and 4 gives containers filled
  exactly, containers a PDU no longer fits into, and containers flushed early;
  `MaxOffered` 4 is enough for a full container, a carry-over and a following
  flush; two mapped ids of different FIFOs and one unmapped id.
- `EthTx`: a ring of 3 and 8 frames make every position wrap twice and let stale
  list entries be reused; a frame reported early is number 2 at the soonest, and its
  descriptor is granted again with number 5, so the time stamps are met on either
  side of a wrap; the violation runs use 6 frames or fewer (breadth-first search
  finds the shortest case). `BufferBase` 2304 is the ring's address in the
  linked image modulo 4096.
- `CanRx`: two instances with one mailbox each (mailbox 0 of both shares
  `rxShadow[0]`), a queue of 2, three frames per mailbox: the first goes to the
  shadow buffer, the second is the first exact one, the third can arrive while
  the mailbox is locked.
- `EthRx`: a ring of 4, 4 frames and 2 mode changes: frames use one descriptor
  or two, so the ring is full with a context descriptor in the last slot, and
  wraps; larger rings and more frames were tried up to 1.5 million states.
- `EthTxMode`: a ring of 3, 5 frames, 2 calls for ETH_MODE_DOWN: the list is
  cleared with entries listed, dequeued, lost and reported early, and a second time
  after a failed call.
- `Queue`: three tasks, one of them of a higher priority, on a queue of two
  items with three items offered: the event lists hold more than one task and
  the ring wraps. The two tasks of one priority are interchangeable. Deadlock is
  not checked: once no more items are offered, tasks that wait with
  `portMAX_DELAY` wait for good.
- `Gateway`: one mailbox per instance, three frames each, a queue of 2 and
  containers of 10 bytes: the queue overflows, PDUs are carried over and
  containers are refused. `MaxOffered` is the number of frames, so it never holds
  the callback back; id 0 with length 0 is the zeroed `rxData`.
- `TasGate`: steps of 100 us (the margin) from 994.9 ms to 1.007 s, which covers
  all four slots and the change of the second; start times at, 1 ns after and
  1 ns before a multiple of the margin put reads on and beside every boundary.

### Fairness

- `Aggregator`: weak fairness of the task (always ready, same priority as the
  polling task, time slicing) and of the gate (a cyclic list); strong fairness of
  a decision in an open window. `GateSampled` states the real-time fact that the
  window (0.9 ms) is far longer than a loop iteration, which an untimed model
  cannot derive; only `TakenPdusLeave` uses it.
- `EthTx`: the DMA sends what it owns (each gate opens every cycle), a raised
  interrupt is taken and runs on, a started call is continued. The task need not
  start another call. `EthTx.cfg` switches the deadlock check off because the
  task stops after `MaxFrames`.
- `CanRx`: weak fairness of the polling task; frames need not arrive and the
  consumer need not take anything from the queue.
- `EthRx`: a raised interrupt is taken and runs on. Nothing is asked of the
  network, the DMA or the task that changes the mode.
- `EthTxMode`: a raised interrupt is taken and runs on, and a mode change that
  has begun is continued, as the task is ready throughout. Deadlock is not
  checked in these two runs, as frames and mode changes are bounded.

## 4. Proofs

Every invariant and every safety action property that a passing run checks is
also a theorem, with the one exception named at the end of this section; so are
the refinements. A theorem holds for every value of the constants that satisfies
the module's `ASSUME`s, which TLC evaluates in the module's run.

`AggregatorProofs`, for every routing table, set of PDU lengths, container size
and queue length with `SizesAssumption` (one PDU of any length fits an empty
container: 2 + 3 + 64 <= 1518 in the code), `MapAssumption` (the table's
entries have the types of `CanIdToPduId_t`) and `TableAssumption` (no PDU id
twice in the table, FlexCAN_SKKU.c:128-133; only well-formedness and the order
per id use it):

- `TypeCorrect`, `CarryOverIsSafe`, `ContainersFit`: from the inductive invariant
  `IInv == TypeOK /\ CarryOverSafe /\ ContainerFits`. Neither of the last two is
  inductive alone: that the carried PDU meets an empty container needs the flush
  in the same iteration, which needs `containerLen` above the header size, which
  needs the container to hold a PDU.
- `PdusAreConserved`: `PduConservation` relative to `IInv`.
- `GateIsRespected`: `AtMostOneLateContainer`. `DidNotFit` remembers between the
  carry-over and the decision that the carried PDU did not fit, so what is decided
  on while the gate is closed has no room left; `LateInv` says that once one
  container was late, what stands before the driver is of that kind until the gate
  opens again.
- `TaskForwardsInBatches`: every step maps to a step or a stutter of
  `BatchForwarder`.
- `ContainersAreWellFormed`: `OpenInv` relates length, count and class of the open
  container to its PDUs, `SentInv` those of the containers sent. For any PDU
  lengths this gives the length, the FIFO and the count modulo 256. That the count
  byte is the number of PDUs is proved under the theorem's hypothesis `CountFits`:
  256 of the shortest PDUs do not fit one container. At 1518 bytes that means
  PDUs of 3 bytes or more; the code checks nothing of the kind, and a container of
  256 shorter PDUs would carry a wrong count. The polling rate (four mailboxes per
  millisecond, a flush every 10 ms) keeps the real system far from it, which is a
  matter of timing and not of this proof.

`EthTxProofs`, for every ring size, number and length of frames (`RingAssumption`
only gives types and says that `NULL` and `Stamp` are no slots): `TypeCorrect`,
`BuffersAreSafe`, `GrantIsSendable`, `LookupsAreValid`,
`ConfirmationsAreOrdered`, all from one inductive invariant `IInv`:

- `RingInv`, `EntryInv`, `IrqInv`: a descriptor of the DMA points to its own buffer,
  and one that it owns or has stamped still has that buffer in Info0 or was reported
  early; the two ring pointers differ only during a call, `LOCKED` holds exactly
  while the list entry has a buffer pointer, only the entry just granted can hold a
  time stamp, and the interrupt's iterator is the list head.
- `NumberInv`, `ListInv`, `ConfirmInv`: what makes the list safe. Entries are
  reused and `pNextBuffer` of a dequeued entry is stale, so reachability alone
  says little; the frame numbers in the buffers do. They grow along the list
  (`LinkInv`), nothing settled lies between two neighbours (`GapInv`), only the
  last entry has no successor (`ChainInv`), and the tail, or the entry about to
  become it, has the highest number (`TailInv`). Hence a head without a
  successor is the last listed entry, every confirmed number is below that of the
  head, and a request that was linked behind a dequeued entry (the disagreement
  `EthTxLost` shows) lies outside the list for good. Each action
  has a lemma `...Step` with one step per conjunct it can disturb.
- `CompletionsAreNotMissed`: `CompletionsAreSeen` is inductive together with `IInv`,
  which gives that the head of the list is done exactly when the descriptor of its
  own number is (`HeadDone`). Only the DMA finishes a frame and it raises TI, the
  interrupt gives up only at an unfinished head, and the task puts only entries with
  an empty Info0 at the head.
- `WireKeepsOrder`: on top of `IInv`, `WireOrder` is inductive together with
  `TailIsBehind`: the tail pointer stands behind the frames in flight, one short
  between the store of OWN and its own move. Only the store of OWN and the DMA
  move a frame; the ring is not full when OWN is stored, because the DMA would own
  the tail descriptor.

`EthTxModeProofs`, for every ring size and number of mode changes:
`DownIsComplete`. `EmptyInv`: from the store that empties the list to the return
of the call, `pQueueHead` is NULL and an interrupt that runs has an empty
iterator, so it cannot put an entry back.

`TasGateProofs`, for every clock value and any delay between the two register
reads (`TimeAssumption` only gives types): `TypeCorrect`, `OpenAnswerIsSound`,
`RemainingTimeIsExact`, `ClosedAnswerIsSound`. The key is `TornReadHarmless`: a
second is a whole number of cycles, so a read torn across a second is off by a
multiple of `CYCLE_NS` and the position in the cycle is still that of the instant
the nanoseconds were read.

`CanRxProofs`, for every number of instances, mailboxes and frames and every
queue length (`CanRxAssumption`; `FrameAssumption`: each mailbox filters an id of
its own, FlexCAN_SKKU.c:302-310): `TypeCorrect`, `UnreadFramesAreFlagged`,
`MailboxesAreRearmed`, `OrderIsKept`, `StaleOnce`. The inductive invariant adds
that only the locked mailbox has a frame waiting behind it (`LockInv`), that
serial numbers grow from read over stored to arrived (`SerialInv`), that what is
locked is what was just read (`ReadInv`, without which clearing the flag could
hide a frame), which mailboxes are armed at each position (`ArmInv`), that a
mailbox not yet armed with `rxData` has queued nothing stale (`StaleInv`), and
that `rxData` is never older than what was queued under its id (`OrderInv`).

`EthRxProofs`, for every ring of two or more descriptors, any number of frames
and of mode changes: `BuffersAreSafe`, `FramesAreIndicatedInOrder`,
`InterruptLeavesNothing`. `PosInv` relates `RxCurrentDesc` and `RxAllocDesc` at
each position of the interrupt; `BufferInv` says that Info0 is one-to-one and that
the one descriptor without a buffer is the one about to be refilled; `OrderInv`
says that the descriptors handed back form a chain from `RxCurrentDesc` to the
DMA's position, each leading to the frame that arrived next, past its context
descriptor when it has one, and that RI is set or the interrupt running while the
chain is not empty.

`QueueProofs`, for every finite set of tasks, all priorities and every length:
`WakeUpsAreKept` and the refinement `RingIsAQueue`. `WakeInv`: while tasks wait,
the items (free places) are covered by tasks that are awake and will look again
and by the wake-ups counted in `cTxLock` (`cRxLock`); `PlaceInv`: between its last
look and its place on the event list, a task misses nothing the lock has not
counted. The set of awake tasks leaves out calls whose time may be up
(`Willing`), which makes the invariant stronger than `NoLostWakeUp` and inductive.

`GatewayProofs`, for every routing table, number of mailboxes and frames and all
sizes (the assumptions of `Aggregator`; `ReceptionAssumption` and `FramesAssumption`
give types and say that the frames are ones the aggregator knows and that the
bound `MaxOffered` does not hold the callback back; `IdsAssumption` is
`FrameAssumption` of `CanRx`):

- `GatewayRunsTheAggregator`, `GatewayRunsTheReception`: the composition implements
  each part. The first needs that the callbacks stay below `MaxOffered`: every one
  belongs to a serial number read for the first time, and `RxCount` bounds them by
  the size of the set of those (`ReadSet`).
- `LossesAreCountedAlways`: `CountInv` relates log, counters and what was taken.
- `WireOrderIsKept`: `RxOrder` for the log, `WireInv` for what is sent, held and
  queued. The facts about the reception are proved again here, as a theorem cannot be
  carried over from a module that is only instantiated.

Induction over data. The library's induction rules take an operator as parameter
and cannot be used, but for sets they can be replaced by the least number
principle (`LeastNumber`, `SegmentInduction` in `AggregatorProofs`, from
`WFMin` of the library). With it the recursive functions `WireSize` and `Flatten`
are characterised: a function satisfying the recursion exists, it is unique, and
so one more element does what one expects.

Model-checked only:

- liveness under fairness, which is outside this prover's reach:
  `TakenPdusLeave`, `AcceptedReachesWire`, `IrqTerminates`,
  `ArrivalsAreRead`, `RxIrqTerminates`, `ModeChangeEnds`;
- `NoStaleTransmission` of `EthTxMode`: it rests on the interrupt never looking up
  a cleared entry after a restart, hence on an invariant of the list like that of
  `EthTxProofs` for rings whose two pointers stand apart after a mode change. TLC
  finds no violation with a ring of 3, 6 frames and 2 mode changes.

## 5. Not modelled

- FlexCAN transmission, abort, blocking calls, receive FIFOs and interrupts: the
  gateway only receives, by polling; no started task calls them, nor
  `CAN_SendTask_Generic`, whose creation is commented out.
- `Eth_TxConfirmation` by polling: the configuration uses Tx interrupts. The values
  of time stamps: no decision depends on them (that they replace a buffer address
  in Des0 is modelled).
- The rest of FreeRTOS: third-party; its queue is modelled because the data path
  hangs on it, its scheduler is the interleaving of the models. The firmware
  never frees memory or deletes a task.
- lwIP and its port: third-party, not started by `main`.
- Board bring-up: a straight sequence of register writes before the scheduler
  starts. Generated tables: constants of the models.
- `TAS_GetTimeUntilNextOpen`, `TAS_IsGSNFuture`, `tas_trans_test`,
  `ETH_ReceiveTask` and the PTP code are never run by `main`.

By lines the repository is almost all vendored: lwIP, FreeRTOS, the drivers'
register and configuration headers. The models cover the code the gateway runs
on its data path, which is a small share of those lines.

## 6. Plan

Done, in this order because the data path is the heart of the system:
aggregation task with its abstract specification; transmit path; CAN reception;
gate lookup; receive path; mode changes of both paths; the queue under the gateway
with its abstract specification; the composition of reception and aggregation; and
the proofs of section 4.

Next: `NoStaleTransmission`. The list invariant of `EthTxProofs` has to be stated
for descriptors and list entries that are `d` slots apart (a call that is refused
while the controller is down moves `TxCurrentDesc` and not the tail pointer), and
for entries that stay allocated outside the list.
