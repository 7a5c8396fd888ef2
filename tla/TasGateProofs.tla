--------------------------- MODULE TasGateProofs ---------------------------
(***************************************************************************)
(* The gate decision is sound for every clock reading, every preemption    *)
(* between the two register reads and every grain of time.                 *)
(***************************************************************************)
EXTENDS TasGate, TLAPS

\* The slot boundaries, written out.
Bounds == [i \in 0..4 |-> IF i = 0 THEN 0 ELSE IF i = 1 THEN 1000000
                          ELSE IF i = 2 THEN 5000000
                          ELSE IF i = 3 THEN 9000000 ELSE 10000000]

\* The boundaries the loop of gcl_locate accumulates.
LEMMA SlotEnds ==
    /\ SlotEnd[0] = 0
    /\ SlotEnd[1] = 1000000
    /\ SlotEnd[2] = 5000000
    /\ SlotEnd[3] = 9000000
    /\ SlotEnd[4] = 10000000
  <1> DEFINE Rec(f) == [i \in 0..GCL_DEPTH |->
                  IF i = 0 THEN 0 ELSE f[i - 1] + GCL_MIRROR[i].TimeIntervalNs]
  <1>1. Bounds = Rec(Bounds)
    BY SMT DEF Bounds, GCL_DEPTH, GCL_MIRROR, Entry
  <1>2. SlotEnd = Rec(SlotEnd)
    BY <1>1, Zenon DEF SlotEnd
  <1>3. \A i \in 0..4 : SlotEnd[i] = IF i = 0 THEN 0
             ELSE SlotEnd[i - 1] + GCL_MIRROR[i].TimeIntervalNs
    BY <1>2 DEF GCL_DEPTH
  <1> QED
    BY <1>3, SMT DEF GCL_MIRROR, Entry

\* The boundaries of the MAC's own list.
LEMMA HwBoundaries ==
    /\ HwBoundary[0] = 0
    /\ HwBoundary[1] = 1000000
    /\ HwBoundary[2] = 5000000
    /\ HwBoundary[3] = 9000000
    /\ HwBoundary[4] = 10000000
  <1> DEFINE Rec(f) == [i \in 0..GCL_DEPTH |->
                  IF i = 0 THEN 0 ELSE f[i - 1] + GateControlList[i].TimeIntervalNs]
  <1>1. Bounds = Rec(Bounds)
    BY SMT DEF Bounds, GCL_DEPTH, GateControlList, Entry
  <1>2. HwBoundary = Rec(HwBoundary)
    BY <1>1, Zenon DEF HwBoundary
  <1>3. \A i \in 0..4 : HwBoundary[i] = IF i = 0 THEN 0
             ELSE HwBoundary[i - 1] + GateControlList[i].TimeIntervalNs
    BY <1>2 DEF GCL_DEPTH
  <1> QED
    BY <1>3, SMT DEF GateControlList, Entry

\* The cycle divides the second, so the seconds do not matter: a reading torn
\* across the change of the second gives the same time in the cycle.
LEMMA TornReadHarmless ==
    ASSUME NEW s \in Nat, NEW t \in Nat
    PROVE  TimeInCycle(s, t % NSEC_PER_SEC) = t % CYCLE_NS
    BY SMT DEF TimeInCycle, NSEC_PER_SEC, CYCLE_NS

\* gcl_locate returns slot i when tcy lies in it: the loop stops there first.
LEMMA Located ==
    ASSUME NEW tcy \in Nat, NEW i \in 1..4,
           SlotEnd[i - 1] <= tcy, tcy < SlotEnd[i]
    PROVE  gcl_locate(tcy) = [idx |-> i, s0 |-> SlotEnd[i - 1], s1 |-> SlotEnd[i]]
  <1> DEFINE later == {j \in 1..GCL_DEPTH : tcy < SlotEnd[j]}
             first == CHOOSE j \in later : \A k \in later : j <= k
  <1>1. i \in later /\ later \subseteq 1..4
    BY SMT DEF GCL_DEPTH
  <1>2. \A j \in later : i <= j
    <2>1. SUFFICES ASSUME NEW j \in 1..4, j < i, tcy < SlotEnd[j]
                   PROVE  FALSE
      BY <1>1, SMT DEF GCL_DEPTH
    <2> QED
      BY <2>1, SlotEnds, SMT
  <1>3. first \in later /\ \A k \in later : first <= k
    BY <1>1, <1>2, Zenon
  <1>4. first = i
    BY <1>1, <1>2, <1>3, SMT
  <1>5. gcl_locate(tcy) = [idx |-> first, s0 |-> SlotEnd[first - 1], s1 |-> SlotEnd[first]]
    BY <1>1, Zenon DEF gcl_locate
  <1> QED
    BY <1>4, <1>5, Zenon

\* The instants at which TAS_IsGateOpen_FIFOx answers true.
LEMMA OpenWindows ==
    ASSUME NEW tcy \in Nat, tcy < CYCLE_NS, NEW f \in Fifos
    PROVE  TAS_IsGateOpen(f, tcy) <=>
             \/ f = 0 /\ tcy < 900000
             \/ f = 1 /\ 1000000 <= tcy /\ tcy < 4900000
             \/ f = 2 /\ 5000000 <= tcy /\ tcy < 8900000
  <1>0. tcy \in Nat /\ tcy < 10000000
    BY SMT DEF CYCLE_NS
  <1>1. ASSUME NEW i \in 1..4, NEW a \in Nat, NEW b \in Nat,
               SlotEnd[i - 1] = a, SlotEnd[i] = b, b > SLOT_MARGIN_NS,
               a <= tcy, tcy < b
        PROVE  TAS_IsGateOpen(f, tcy) <=>
                 tcy < b - SLOT_MARGIN_NS /\ f \in GCL_MIRROR[i].gates
    <2>1. gcl_locate(tcy) = [idx |-> i, s0 |-> a, s1 |-> b]
      BY <1>1, Located, SMT
    <2>2. EffEnd([idx |-> i, s0 |-> a, s1 |-> b]) = b - SLOT_MARGIN_NS
      BY <1>1, SMT DEF EffEnd
    <2> QED
      BY <1>1, <2>1, <2>2, SMT DEF TAS_IsGateOpen
  <1>2. CASE tcy < 1000000
    <2>1. TAS_IsGateOpen(f, tcy) <=> tcy < 900000 /\ f \in {0}
      BY <1>0, <1>1, <1>2, SlotEnds, SMT DEF SLOT_MARGIN_NS, GCL_MIRROR, Entry
    <2> QED
      BY <1>0, <1>2, <2>1, SMT
  <1>3. CASE 1000000 <= tcy /\ tcy < 5000000
    <2>1. TAS_IsGateOpen(f, tcy) <=> tcy < 4900000 /\ f \in {1}
      BY <1>0, <1>1, <1>3, SlotEnds, SMT DEF SLOT_MARGIN_NS, GCL_MIRROR, Entry
    <2> QED
      BY <1>0, <1>3, <2>1, SMT
  <1>4. CASE 5000000 <= tcy /\ tcy < 9000000
    <2>1. TAS_IsGateOpen(f, tcy) <=> tcy < 8900000 /\ f \in {2}
      BY <1>0, <1>1, <1>4, SlotEnds, SMT DEF SLOT_MARGIN_NS, GCL_MIRROR, Entry
    <2> QED
      BY <1>0, <1>4, <2>1, SMT
  <1>5. CASE 9000000 <= tcy
    <2>1. TAS_IsGateOpen(f, tcy) <=> tcy < 9900000 /\ f \in {}
      BY <1>0, <1>1, <1>5, SlotEnds, SMT DEF SLOT_MARGIN_NS, GCL_MIRROR, Entry
    <2> QED
      BY <1>0, <1>5, <2>1, SMT
  <1> QED
    BY <1>0, <1>2, <1>3, <1>4, <1>5, SMT

\* What TAS_RemainingOpenTimeNs_FIFOx answers while the gate is open.
LEMMA RemainingWindows ==
    ASSUME NEW tcy \in Nat, tcy < CYCLE_NS, NEW f \in Fifos,
           TAS_IsGateOpen(f, tcy)
    PROVE  /\ f = 0 => TAS_RemainingOpenTimeNs(f, tcy) = 900000 - tcy
           /\ f = 1 => TAS_RemainingOpenTimeNs(f, tcy) = 4900000 - tcy
           /\ f = 2 => TAS_RemainingOpenTimeNs(f, tcy) = 8900000 - tcy
  <1>1. TAS_RemainingOpenTimeNs(f, tcy) = EffEnd(gcl_locate(tcy)) - tcy
    BY Zenon DEF TAS_RemainingOpenTimeNs
  <1>2. ASSUME NEW i \in 1..4, NEW a \in Nat, NEW b \in Nat,
               SlotEnd[i - 1] = a, SlotEnd[i] = b, b > SLOT_MARGIN_NS,
               a <= tcy, tcy < b
        PROVE  EffEnd(gcl_locate(tcy)) = b - SLOT_MARGIN_NS
    <2>1. gcl_locate(tcy) = [idx |-> i, s0 |-> a, s1 |-> b]
      BY <1>2, Located, SMT
    <2> QED
      BY <1>2, <2>1, SMT DEF EffEnd
  <1> HIDE DEF TAS_IsGateOpen
  <1>3. CASE f = 0
    <2>1. tcy < 900000
      BY <1>3, OpenWindows, SMT
    <2>2. EffEnd(gcl_locate(tcy)) = 900000
      BY <1>2, <2>1, SlotEnds, SMT DEF SLOT_MARGIN_NS
    <2> QED
      BY <1>1, <1>3, <2>2, SMT
  <1>4. CASE f = 1
    <2>1. 1000000 <= tcy /\ tcy < 4900000
      BY <1>4, OpenWindows, SMT
    <2>2. EffEnd(gcl_locate(tcy)) = 4900000
      BY <1>2, <2>1, SlotEnds, SMT DEF SLOT_MARGIN_NS
    <2> QED
      BY <1>1, <1>4, <2>2, SMT
  <1>5. CASE f = 2
    <2>1. 5000000 <= tcy /\ tcy < 8900000
      BY <1>5, OpenWindows, SMT
    <2>2. EffEnd(gcl_locate(tcy)) = 8900000
      BY <1>2, <2>1, SlotEnds, SMT DEF SLOT_MARGIN_NS
    <2> QED
      BY <1>1, <1>5, <2>2, SMT
  <1> QED
    BY <1>3, <1>4, <1>5, SMT DEF Fifos

\* The instants at which the MAC opens a gate.
LEMMA HwWindows ==
    ASSUME NEW t \in Nat, NEW f \in Fifos
    PROVE  HwOpen(f, t) <=>
             \/ f = 0 /\ t % CYCLE_NS < 1000000
             \/ f = 1 /\ 1000000 <= t % CYCLE_NS /\ t % CYCLE_NS < 5000000
             \/ f = 2 /\ 5000000 <= t % CYCLE_NS /\ t % CYCLE_NS < 9000000
    BY HwBoundaries, SMT DEF HwOpen, GCL_DEPTH, GateControlList, Entry, Fifos, CYCLE_NS
-----------------------------------------------------------------------------
(***************************************************************************)
(* The invariant: an answer is always the one for the instant at which the *)
(* nanoseconds were read, whichever register came first.                   *)
(***************************************************************************)
AnswerFor(t) == {f \in Fifos : TAS_IsGateOpen(f, t % CYCLE_NS)}

RemainingFor(t) ==
    [f \in Fifos |-> TAS_RemainingOpenTimeNs(f, t % CYCLE_NS)]

IInv ==
    /\ now \in Nat /\ readAt \in Nat /\ readAt <= now
    /\ pc \in {"none", "seconds", "nanoseconds"}
    /\ sec \in Nat
    /\ nsec \in Nat /\ nsec < NSEC_PER_SEC
    /\ pc = "nanoseconds" => nsec = readAt % NSEC_PER_SEC
    /\ \/ openFifos = {} /\ remaining = NoTime
       \/ openFifos = AnswerFor(readAt) /\ remaining = RemainingFor(readAt)

\* Dividing the clock into its two registers.
LEMMA Registers ==
    ASSUME NEW t \in Nat
    PROVE  /\ t \div NSEC_PER_SEC \in Nat
           /\ t % NSEC_PER_SEC \in Nat /\ t % NSEC_PER_SEC < NSEC_PER_SEC
           /\ t % CYCLE_NS \in Nat /\ t % CYCLE_NS < CYCLE_NS
    BY SMT DEF NSEC_PER_SEC, CYCLE_NS

\* The invariant is inductive.
LEMMA InvStep ==
    ASSUME IInv, [Next]_vars
    PROVE  IInv'
  <1> USE DEF IInv
  <1>1. CASE Elapse
    BY <1>1, TimeAssumption, SMT DEF Elapse, answers, AnswerFor, RemainingFor
  <1>2. CASE ReadSecondsFirst
    BY <1>2, Registers, SMT DEF ReadSecondsFirst, BeginCall
  <1>3. CASE ReadNanosecondsFirst
    BY <1>3, Registers, SMT DEF ReadNanosecondsFirst, BeginCall
  <1>4. CASE AnswerAfterNanoseconds
    <2>1. TimeInCycle(sec, now % NSEC_PER_SEC) = now % CYCLE_NS
      BY TornReadHarmless, Zenon
    <2>2. openFifos' = AnswerFor(readAt') /\ remaining' = RemainingFor(readAt')
      BY <1>4, <2>1, Zenon DEF AnswerAfterNanoseconds, Answer, AnswerFor, RemainingFor
    <2> QED
      BY <1>4, <2>2, Registers, SMT DEF AnswerAfterNanoseconds, Answer
  <1>5. CASE AnswerAfterSeconds
    <2>1. TimeInCycle(now \div NSEC_PER_SEC, nsec) = readAt % CYCLE_NS
      <3>1. now \div NSEC_PER_SEC \in Nat
        BY Registers, Zenon
      <3>2. nsec = readAt % NSEC_PER_SEC /\ readAt \in Nat
        BY <1>5, Zenon DEF AnswerAfterSeconds
      <3> QED
        BY <3>1, <3>2, TornReadHarmless, Zenon
    <2>2. openFifos' = AnswerFor(readAt') /\ remaining' = RemainingFor(readAt')
      BY <1>5, <2>1, Zenon DEF AnswerAfterSeconds, Answer, AnswerFor, RemainingFor
    <2> QED
      BY <1>5, <2>2, Registers, SMT DEF AnswerAfterSeconds, Answer
  <1>6. CASE UNCHANGED vars
    BY <1>6, SMT DEF vars, answers
  <1> QED
    BY <1>1, <1>2, <1>3, <1>4, <1>5, <1>6 DEF Next

\* The invariant holds in every reachable state.
LEMMA InvariantHolds == Spec => []IInv
  <1>1. Init => IInv
    BY TimeAssumption, SMT DEF Init, IInv, NSEC_PER_SEC
  <1>2. IInv /\ [Next]_vars => IInv'
    BY InvStep
  <1> QED
    BY <1>1, <1>2, PTL DEF Spec

\* TAS_RemainingOpenTimeNs_FIFOx never answers less than no time: its unsigned
\* difference does not wrap.
LEMMA RemainingType ==
    ASSUME NEW tcy \in Nat, tcy < CYCLE_NS, NEW f \in Fifos
    PROVE  TAS_RemainingOpenTimeNs(f, tcy) \in Nat
  <1>1. CASE ~TAS_IsGateOpen(f, tcy)
    <2>1. TAS_RemainingOpenTimeNs(f, tcy) = 0
      BY <1>1, Zenon DEF TAS_RemainingOpenTimeNs
    <2> QED
      BY <2>1, SMT
  <1>2. CASE TAS_IsGateOpen(f, tcy)
    <2>1. \/ f = 0 /\ tcy < 900000
          \/ f = 1 /\ 1000000 <= tcy /\ tcy < 4900000
          \/ f = 2 /\ 5000000 <= tcy /\ tcy < 8900000
      BY <1>2, OpenWindows, SMT
    <2>2. /\ f = 0 => TAS_RemainingOpenTimeNs(f, tcy) = 900000 - tcy
          /\ f = 1 => TAS_RemainingOpenTimeNs(f, tcy) = 4900000 - tcy
          /\ f = 2 => TAS_RemainingOpenTimeNs(f, tcy) = 8900000 - tcy
      BY <1>2, RemainingWindows, SMT
    <2> QED
      BY <2>1, <2>2, SMT
  <1> QED
    BY <1>1, <1>2

\* The clock readings and the answers keep their unsigned types: no difference
\* the lookup takes is negative.
THEOREM TypeCorrect == Spec => []TypeOK
  <1>1. IInv => TypeOK
    <2> SUFFICES ASSUME IInv PROVE TypeOK
      OBVIOUS
    <2>1. nsec \in 0 .. NSEC_PER_SEC - 1
      <3>1. nsec \in Nat /\ nsec < NSEC_PER_SEC
        BY Zenon DEF IInv
      <3>2. NSEC_PER_SEC \in Nat
        BY SMT DEF NSEC_PER_SEC
      <3>3. \A n, b \in Nat : n < b => n \in 0 .. b - 1
        BY SMT
      <3> QED
        BY <3>1, <3>2, <3>3, Zenon
    <2>2. openFifos \in SUBSET Fifos
      BY Zenon DEF IInv, AnswerFor
    <2>3. readAt % CYCLE_NS \in Nat /\ readAt % CYCLE_NS < CYCLE_NS
      BY Registers, Zenon DEF IInv
    <2>4. RemainingFor(readAt) \in [Fifos -> Nat]
      BY <2>3, RemainingType, Zenon DEF RemainingFor
    <2>5. NoTime \in [Fifos -> Nat]
      BY SMT DEF NoTime
    <2>6. remaining \in [Fifos -> Nat]
      BY <2>4, <2>5, Zenon DEF IInv
    <2> QED
      BY <2>1, <2>2, <2>6, Zenon DEF IInv, TypeOK
  <1> QED
    BY InvariantHolds, <1>1, PTL

\* A true answer of TAS_IsGateOpen_FIFOx holds for the whole margin, torn
\* readings included, at every clock rate and from every start.
THEOREM OpenAnswerIsSound == Spec => []OpenMeansOpen
  <1>1. IInv => OpenMeansOpen
    <2>1. SUFFICES ASSUME IInv, NEW f \in openFifos,
                          now - readAt <= SLOT_MARGIN_NS
                   PROVE  HwOpen(f, now)
      BY Zenon DEF OpenMeansOpen
    <2>2. f \in Fifos /\ TAS_IsGateOpen(f, readAt % CYCLE_NS)
      BY <2>1, Zenon DEF IInv, AnswerFor
    <2>3. now \in Nat /\ readAt \in Nat /\ readAt <= now
      BY <2>1, Zenon DEF IInv
    <2> HIDE DEF TAS_IsGateOpen, HwOpen
    <2> DEFINE p == readAt % CYCLE_NS
               q == now % CYCLE_NS
    <2>4. \/ f = 0 /\ p < 900000
          \/ f = 1 /\ 1000000 <= p /\ p < 4900000
          \/ f = 2 /\ 5000000 <= p /\ p < 8900000
      BY <2>2, <2>3, Registers, OpenWindows, SMT
    <2>5. \/ f = 0 /\ q < 1000000
          \/ f = 1 /\ 1000000 <= q /\ q < 5000000
          \/ f = 2 /\ 5000000 <= q /\ q < 9000000
      BY <2>1, <2>3, <2>4, SMT DEF SLOT_MARGIN_NS, CYCLE_NS
    <2> QED
      BY <2>2, <2>3, <2>5, HwWindows, SMT
  <1> QED
    BY InvariantHolds, <1>1, PTL

\* A positive remaining time is exact: the gate is open until it and the
\* margin have passed, and closed at that instant.
THEOREM RemainingTimeIsExact == Spec => []RemainingIsExact
  <1>1. IInv => RemainingIsExact
    <2>1. SUFFICES ASSUME IInv, NEW f \in Fifos, remaining[f] > 0
                   PROVE  /\ now - readAt < remaining[f] + SLOT_MARGIN_NS => HwOpen(f, now)
                          /\ now - readAt = remaining[f] + SLOT_MARGIN_NS => ~HwOpen(f, now)
      BY Zenon DEF RemainingIsExact
    <2> DEFINE p == readAt % CYCLE_NS
               q == now % CYCLE_NS
               d == now - readAt
    <2>2. remaining[f] = TAS_RemainingOpenTimeNs(f, p)
      BY <2>1, SMT DEF IInv, NoTime, RemainingFor
    <2>3. TAS_IsGateOpen(f, p)
      BY <2>1, <2>2, SMT DEF TAS_RemainingOpenTimeNs
    <2>4. /\ now \in Nat /\ readAt \in Nat /\ readAt <= now
          /\ p \in Nat /\ p < CYCLE_NS
      BY <2>1, Registers, Zenon DEF IInv
    <2>5. \/ f = 0 /\ p < 900000 /\ remaining[f] = 900000 - p
          \/ f = 1 /\ 1000000 <= p /\ p < 4900000 /\ remaining[f] = 4900000 - p
          \/ f = 2 /\ 5000000 <= p /\ p < 8900000 /\ remaining[f] = 8900000 - p
      BY <2>2, <2>3, <2>4, OpenWindows, RemainingWindows, SMT
    <2>6. ASSUME d < remaining[f] + SLOT_MARGIN_NS
          PROVE  \/ f = 0 /\ q < 1000000
                 \/ f = 1 /\ 1000000 <= q /\ q < 5000000
                 \/ f = 2 /\ 5000000 <= q /\ q < 9000000
      BY <2>4, <2>5, <2>6, SMT DEF SLOT_MARGIN_NS, CYCLE_NS
    <2>7. ASSUME d = remaining[f] + SLOT_MARGIN_NS
          PROVE  ~ \/ f = 0 /\ q < 1000000
                   \/ f = 1 /\ 1000000 <= q /\ q < 5000000
                   \/ f = 2 /\ 5000000 <= q /\ q < 9000000
      BY <2>4, <2>5, <2>7, SMT DEF SLOT_MARGIN_NS, CYCLE_NS
    <2> QED
      BY <2>4, <2>6, <2>7, HwWindows, SMT
  <1> QED
    BY InvariantHolds, <1>1, PTL

\* A false answer of TAS_IsGateOpen_FIFOx never refuses a window with more
\* than the margin left.
THEOREM ClosedAnswerIsSound == Spec => ClosedMeansClosing
  <1> DEFINE Refused == (pc # "none" /\ pc' = "none") =>
            \A f \in Fifos \ openFifos' :
                HwOpen(f, readAt') => ~HwOpen(f, readAt' + SLOT_MARGIN_NS)
  <1>1. IInv /\ IInv' /\ [Next]_vars => [Refused]_vars
    <2>1. SUFFICES ASSUME IInv, IInv', Next, pc # "none", pc' = "none",
                          NEW f \in Fifos \ openFifos', HwOpen(f, readAt')
                   PROVE  ~HwOpen(f, readAt' + SLOT_MARGIN_NS)
      BY Zenon
    <2>2. readAt' \in Nat
      BY <2>1, Zenon DEF IInv
    <2>3. PICK t \in Nat : t = readAt'
      BY <2>2, Zenon
    <2>4. openFifos' = AnswerFor(t)
      <3>1. AnswerAfterNanoseconds \/ AnswerAfterSeconds
        BY <2>1, Zenon DEF Next, Elapse, ReadSecondsFirst, ReadNanosecondsFirst
      <3>2. CASE AnswerAfterNanoseconds
        BY <2>1, <2>3, <3>2, TornReadHarmless, Zenon
        DEF IInv, AnswerAfterNanoseconds, Answer, AnswerFor
      <3>3. CASE AnswerAfterSeconds
        <4>1. now \div NSEC_PER_SEC \in Nat
          BY <2>1, Registers, Zenon DEF IInv
        <4>2. nsec = t % NSEC_PER_SEC
          BY <2>1, <2>3, <3>3, Zenon DEF IInv, AnswerAfterSeconds
        <4>3. TimeInCycle(now \div NSEC_PER_SEC, nsec) = t % CYCLE_NS
          BY <4>1, <4>2, TornReadHarmless, Zenon
        <4> QED
          BY <3>3, <4>3, Zenon DEF AnswerAfterSeconds, Answer, AnswerFor
      <3> QED
        BY <3>1, <3>2, <3>3, Zenon
    <2>5. f \in Fifos /\ ~TAS_IsGateOpen(f, t % CYCLE_NS)
      BY <2>1, <2>4, Zenon DEF AnswerFor
    <2> DEFINE p == t % CYCLE_NS
               q == (t + SLOT_MARGIN_NS) % CYCLE_NS
    <2>6. p \in Nat /\ p < CYCLE_NS /\ t + SLOT_MARGIN_NS \in Nat
      BY Registers, SMT DEF SLOT_MARGIN_NS
    <2>7. ~ \/ f = 0 /\ p < 900000
            \/ f = 1 /\ 1000000 <= p /\ p < 4900000
            \/ f = 2 /\ 5000000 <= p /\ p < 8900000
      BY <2>5, <2>6, OpenWindows, SMT
    <2>8. HwOpen(f, t)
      BY <2>1, <2>3, Zenon
    <2>9. \/ f = 0 /\ p < 1000000
          \/ f = 1 /\ 1000000 <= p /\ p < 5000000
          \/ f = 2 /\ 5000000 <= p /\ p < 9000000
      BY <2>5, <2>8, HwWindows, SMT
    <2>10. ~ \/ f = 0 /\ q < 1000000
             \/ f = 1 /\ 1000000 <= q /\ q < 5000000
             \/ f = 2 /\ 5000000 <= q /\ q < 9000000
      BY <2>6, <2>7, <2>9, SMT DEF SLOT_MARGIN_NS, CYCLE_NS
    <2>11. ~HwOpen(f, t + SLOT_MARGIN_NS)
      BY <2>5, <2>6, <2>10, HwWindows, SMT
    <2> QED
      BY <2>3, <2>11, Zenon
  <1>2. [][Refused]_vars => ClosedMeansClosing
    BY DEF ClosedMeansClosing
  <1> QED
    BY InvariantHolds, <1>1, <1>2, PTL DEF Spec
=============================================================================
