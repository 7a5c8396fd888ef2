------------------------------ MODULE TasGate ------------------------------
(***************************************************************************)
(* How src/src/FlexCAN_SKKU.c decides from the MAC clock whether the gate  *)
(* of a Tx FIFO is open: mac_time_now_ns reads the seconds and nanoseconds *)
(* registers one after the other while the clock runs (and while the task  *)
(* may be preempted), and TAS_IsGateOpen_FIFOx and                         *)
(* TAS_RemainingOpenTimeNs_FIFOx look the result up in GCL_MIRROR, a copy  *)
(* of the gate control list that Gmac_Ip_TxTimeAwareShaperInit wrote into  *)
(* the MAC.  The gates themselves follow the MAC's list.                   *)
(***************************************************************************)
EXTENDS Integers, Sequences

CONSTANTS
    StartTimes, \* MAC time, in ns, at which the observation may begin
    Tick,       \* time that passes in one step
    Horizon     \* bound: the observation ends here

ASSUME TimeAssumption ==
    /\ StartTimes \subseteq Nat
    /\ Tick \in Nat
    /\ Horizon \in Nat

NSEC_PER_SEC == 1000000000
CYCLE_NS == 10000000
SLOT_MARGIN_NS == 100000
Fifos == 0..2

\* The entries of a gate control list, the control bits as a set of FIFOs.
Entry(interval, gates) == [TimeIntervalNs |-> interval, gates |-> gates]

\* GMAC_0_GateControlListPB, which the MAC repeats every CYCLE_NS from time 0.
GateControlList ==
    << Entry(1000000, {0}), Entry(4000000, {1}), Entry(4000000, {2}),
       Entry(1000000, {}) >>

\* Slip: the copy is not updated after the intervals were changed.
Mut_GCL_MIRROR ==
    << Entry(1000000, {0}), Entry(3000000, {1}), Entry(5000000, {2}),
       Entry(1000000, {}) >>

GCL_MIRROR ==
    << Entry(1000000, {0}), Entry(4000000, {1}), Entry(4000000, {2}),
       Entry(1000000, {}) >>

GCL_DEPTH == 4

VARIABLES
    now,       \* the MAC clock
    pc,        \* which register mac_time_now_ns has read: "none" between calls
    sec,       \* MAC_SYSTEM_TIME_SECONDS as read
    nsec,      \* MAC_SYSTEM_TIME_NANOSECONDS as read
    readAt,    \* history: when the nanoseconds were read
    openFifos, \* the FIFOs TAS_IsGateOpen_FIFOx answers true for
    remaining  \* what TAS_RemainingOpenTimeNs_FIFOx answers for each FIFO

answers == <<openFifos, remaining>>
vars == <<now, pc, sec, nsec, readAt, answers>>

NoTime == [f \in Fifos |-> 0]

Init ==
    /\ now \in StartTimes
    /\ pc = "none"
    /\ sec = 0
    /\ nsec = 0
    /\ readAt = now
    /\ openFifos = {}
    /\ remaining = NoTime
-----------------------------------------------------------------------------
\* The loop of gcl_locate: acc after i entries.
SlotEnd[i \in 0..GCL_DEPTH] ==
    IF i = 0 THEN 0 ELSE SlotEnd[i - 1] + GCL_MIRROR[i].TimeIntervalNs

\* Slip: a slot is taken to contain the instant at which it ends.
Mut_gcl_locate(tcy) ==
    LET later == {i \in 1..GCL_DEPTH : tcy <= SlotEnd[i]}
        first == CHOOSE i \in later : \A j \in later : i <= j
    IN  [idx |-> first, s0 |-> SlotEnd[first - 1], s1 |-> SlotEnd[first]]

\* gcl_locate: the first slot that ends after tcy, or the last slot.
gcl_locate(tcy) ==
    LET later == {i \in 1..GCL_DEPTH : tcy < SlotEnd[i]}
        first == CHOOSE i \in later : \A j \in later : i <= j
    IN  IF later = {}
        THEN [idx |-> GCL_DEPTH, s1 |-> CYCLE_NS,
              s0 |-> CYCLE_NS - GCL_MIRROR[GCL_DEPTH].TimeIntervalNs]
        ELSE [idx |-> first, s0 |-> SlotEnd[first - 1], s1 |-> SlotEnd[first]]

\* Slip: the margin before the gate closes is not kept.
Mut_EffEnd(slot) == slot.s1

EffEnd(slot) ==
    IF slot.s1 > SLOT_MARGIN_NS THEN slot.s1 - SLOT_MARGIN_NS ELSE slot.s0

TAS_IsGateOpen(f, tcy) ==
    LET slot == gcl_locate(tcy)
    IN  /\ slot.s0 <= tcy
        /\ tcy < EffEnd(slot)
        /\ f \in GCL_MIRROR[slot.idx].gates

\* Slip: the difference is taken whether the gate is open or not.
Mut_Remaining(f, tcy) == EffEnd(gcl_locate(tcy)) - tcy

TAS_RemainingOpenTimeNs(f, tcy) ==
    IF TAS_IsGateOpen(f, tcy) THEN EffEnd(gcl_locate(tcy)) - tcy ELSE 0

\* mac_time_now_ns() % CYCLE_NS
TimeInCycle(s, n) == (s * NSEC_PER_SEC + n) % CYCLE_NS
-----------------------------------------------------------------------------
Elapse ==
    /\ now + Tick <= Horizon
    /\ now' = now + Tick
    /\ UNCHANGED <<pc, sec, nsec, readAt, answers>>

\* A call begins; what the previous call answered is no longer in use.  C does
\* not say which of the two volatile operands is read first.
BeginCall == openFifos' = {} /\ remaining' = NoTime

ReadSecondsFirst ==
    /\ pc = "none"
    /\ pc' = "seconds"
    /\ sec' = now \div NSEC_PER_SEC
    /\ BeginCall
    /\ UNCHANGED <<now, nsec, readAt>>

ReadNanosecondsFirst ==
    /\ pc = "none"
    /\ pc' = "nanoseconds"
    /\ nsec' = now % NSEC_PER_SEC
    /\ readAt' = now
    /\ BeginCall
    /\ UNCHANGED <<now, sec>>

\* The second register is read and the functions answer.
Answer(tcy) ==
    /\ pc' = "none"
    /\ openFifos' = {f \in Fifos : TAS_IsGateOpen(f, tcy)}
    /\ remaining' = [f \in Fifos |-> TAS_RemainingOpenTimeNs(f, tcy)]

AnswerAfterNanoseconds ==
    /\ pc = "seconds"
    /\ nsec' = now % NSEC_PER_SEC
    /\ readAt' = now
    /\ Answer(TimeInCycle(sec, now % NSEC_PER_SEC))
    /\ UNCHANGED <<now, sec>>

AnswerAfterSeconds ==
    /\ pc = "nanoseconds"
    /\ sec' = now \div NSEC_PER_SEC
    /\ Answer(TimeInCycle(now \div NSEC_PER_SEC, nsec))
    /\ UNCHANGED <<now, nsec, readAt>>

Next ==
    \/ Elapse
    \/ ReadSecondsFirst
    \/ ReadNanosecondsFirst
    \/ AnswerAfterNanoseconds
    \/ AnswerAfterSeconds

Spec == Init /\ [][Next]_vars
-----------------------------------------------------------------------------
\* The gates as the MAC drives them: entry i of its list is in force from
\* HwBoundary[i - 1] to HwBoundary[i] of every cycle.
HwBoundary[i \in 0..GCL_DEPTH] ==
    IF i = 0 THEN 0 ELSE HwBoundary[i - 1] + GateControlList[i].TimeIntervalNs

HwOpen(f, t) ==
    \E i \in 1..GCL_DEPTH :
        /\ f \in GateControlList[i].gates
        /\ HwBoundary[i - 1] <= t % CYCLE_NS
        /\ t % CYCLE_NS < HwBoundary[i]

\* Every variable has the type its C declaration gives it.
TypeOK ==
    /\ now \in Nat
    /\ pc \in {"none", "seconds", "nanoseconds"}
    /\ sec \in Nat
    /\ nsec \in 0 .. NSEC_PER_SEC - 1
    /\ readAt \in Nat /\ readAt <= now
    /\ openFifos \in SUBSET Fifos
    /\ remaining \in [Fifos -> Nat]

\* When TAS_IsGateOpen_FIFOx answers true, the gate of that FIFO is open in the
\* MAC and stays open for SLOT_MARGIN_NS after the clock was read, even when
\* the second changed or the task was preempted between the two register reads.
OpenMeansOpen ==
    \A f \in openFifos : now - readAt <= SLOT_MARGIN_NS => HwOpen(f, now)

\* A positive answer of TAS_RemainingOpenTimeNs_FIFOx is exact: the gate stays
\* open for that time plus the margin and then closes.
RemainingIsExact ==
    \A f \in Fifos : remaining[f] > 0 =>
        /\ now - readAt < remaining[f] + SLOT_MARGIN_NS => HwOpen(f, now)
        /\ now - readAt = remaining[f] + SLOT_MARGIN_NS => ~HwOpen(f, now)

\* When TAS_IsGateOpen_FIFOx answers false, the gate was closed when the clock
\* was read or closes before the margin is over: no usable window is refused.
ClosedMeansClosing ==
    [][ (pc # "none" /\ pc' = "none") =>
            \A f \in Fifos \ openFifos' :
                HwOpen(f, readAt') => ~HwOpen(f, readAt' + SLOT_MARGIN_NS) ]_vars
=============================================================================
