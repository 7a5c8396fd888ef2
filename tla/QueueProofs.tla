---------------------------- MODULE QueueProofs ----------------------------
(***************************************************************************)
(* The FreeRTOS queue loses no wake-up and is a bounded queue, for every   *)
(* number of tasks, every length and every choice of priorities.           *)
(***************************************************************************)
EXTENDS Queue, SequenceTheorems, FiniteSetTheorems, TLAPS

(***************************************************************************)
(* The inductive invariant, in parts.                                      *)
(***************************************************************************)
\* The position n behind position p of the ring, for p < Length, n <= Length.
Wrapped(n) == IF n < Length THEN n ELSE IF n < 2 * Length THEN n - Length ELSE n - 2 * Length

\* pcWriteTo stands behind the newest item, and what the ring holds was sent.
RingInv ==
    /\ writeTo = Wrapped(readFrom + 1 + waiting)
    /\ \A i \in 1..waiting : storage[Wrapped(readFrom + i)] \in Items

\* A send has an item.
CallInv == \A t \in Tasks : ~Receives(t) => call[t].item \in Items

\* The positions at which a task has the scheduler suspended, and those at which
\* each half of the queue is locked.
Suspending == {"look", "place", "unlockTx", "unlockRx", "resume"}
LockingTx == {"look", "place", "unlockTx"}
LockingRx == {"look", "place", "unlockTx", "unlockRx"}

LockInv ==
    /\ \A t \in Tasks : suspender = t <=> pc[t] \in Suspending
    /\ suspender = None => txLock = queueUNLOCKED /\ rxLock = queueUNLOCKED
    /\ \A t \in Tasks : suspender = t =>
           /\ txLock # queueUNLOCKED <=> pc[t] \in LockingTx
           /\ rxLock # queueUNLOCKED <=> pc[t] \in LockingRx

\* A task goes on an event list, or is on one, only in a call that waits.
WaitInv ==
    \A t \in Tasks :
        /\ pc[t] \in {"lock", "look", "place"} => call[t].wait # "none"
        /\ In(t, toReceive) \/ In(t, toSend) =>
               /\ pc[t] \in {"try", "unlockTx", "unlockRx", "resume"}
               /\ call[t].wait # "none"
        /\ In(t, toReceive) => Receives(t)
        /\ In(t, toSend) => ~Receives(t)

\* Between its last look and its place on the list a task misses nothing that
\* the lock does not count.
PlaceInv ==
    \A t \in Tasks : pc[t] = "place" =>
        IF Receives(t) THEN waiting <= txLock ELSE Length - waiting <= rxLock

\* Tasks that will look at the queue again before they wait or give up: unlike
\* ActiveReceivers and ActiveSenders these leave out the calls that may find
\* their time up.
Willing(t) ==
    \/ pc[t] = "try"
    \/ pc[t] \in {"unlockTx", "unlockRx", "resume"} /\ call[t].wait # "none"

WillingReceivers == {t \in Tasks : Receives(t) /\ Willing(t) /\ ~In(t, toReceive)}
WillingSenders == {t \in Tasks : ~Receives(t) /\ Willing(t) /\ ~In(t, toSend)}

\* The wake-ups prvUnlockQueue will make up for.
Pending(count) == IF count = queueUNLOCKED THEN 0 ELSE count

\* While tasks wait, what is there is covered by tasks that are awake and by
\* wake-ups the lock remembers.
Covered(list, available, awake, count) ==
    list # <<>> => available <= Cardinality(awake) + Pending(count)

WakeInv ==
    /\ Covered(toReceive, waiting, WillingReceivers, txLock)
    /\ Covered(toSend, Length - waiting, WillingSenders, rxLock)

IInv ==
    /\ TypeOK
    /\ RingInv
    /\ CallInv
    /\ LockInv
    /\ WaitInv
    /\ PlaceInv
    /\ WakeInv

-----------------------------------------------------------------------------
(***************************************************************************)
(* The ring's positions.                                                   *)
(***************************************************************************)
\* The C code wraps a pointer that leaves the storage; the positions are those
\* modulo the length.
LEMMA Positions ==
    /\ Length \in Nat \ {0}
    /\ \A p \in Slots, n \in 0..Length : (p + n) % Length = Wrapped(p + n)
    /\ \A p \in Slots : (p + Length - 1) % Length = IF p = 0 THEN Length - 1 ELSE p - 1
    /\ \A p \in Slots, n \in 0..Length + 1 : Wrapped(p + n) \in Slots
  <1>0. PICK L \in Nat \ {0} : L = Length
    BY QueueAssumption
  <1>1. ASSUME NEW x \in 0..(L - 1)
        PROVE  x % L = x /\ (x + L) % L = x
    BY SMT
  <1>2. ASSUME NEW p \in 0..(L - 1), NEW n \in 0..L
        PROVE  (p + n) % L = IF p + n < L THEN p + n ELSE p + n - L
    <2>1. CASE p + n < L
      BY <1>1, <2>1
    <2>2. CASE ~(p + n < L)
      <3>1. p + n - L \in 0..(L - 1) /\ p + n = (p + n - L) + L
        BY <2>2
      <3> QED
        BY <1>1, <2>2, <3>1
    <2> QED
      BY <2>1, <2>2
  <1>3. ASSUME NEW p \in 0..(L - 1)
        PROVE  (p + L - 1) % L = IF p = 0 THEN L - 1 ELSE p - 1
    <2>1. L - 1 \in 0..L /\ p + L - 1 = p + (L - 1)
      OBVIOUS
    <2>2. (p + L - 1) % L = IF p + (L - 1) < L THEN p + (L - 1) ELSE p + (L - 1) - L
      BY <1>2, <2>1
    <2> QED
      BY <2>2
  <1>4. \A p \in 0..(L - 1), n \in 0..L :
            (IF p + n < L THEN p + n ELSE p + n - L) = Wrapped(p + n)
    BY <1>0 DEF Wrapped
  <1>5. \A p \in 0..(L - 1), n \in 0..L + 1 : Wrapped(p + n) \in 0..(L - 1)
    BY <1>0 DEF Wrapped
  <1>6. \A p \in 0..(L - 1), n \in 0..L : (p + n) % L = Wrapped(p + n)
    BY <1>2, <1>4
  <1> QED
    BY <1>0, <1>3, <1>5, <1>6, Zenon DEF Slots

\* Going round the ring: positions at different distances differ, and a step
\* forward adds one to the distance.
LEMMA RoundTheRing ==
    /\ \A p \in Slots : \A m, n \in 1..Length :
           Wrapped(p + m) = Wrapped(p + n) => m = n
    /\ \A p \in Slots : \A n \in 0..Length :
           Wrapped(Wrapped(p + 1) + n) = Wrapped(p + 1 + n)
    /\ \A p \in Slots : \A n \in 0..(Length - 1) :
           Wrapped(p + 1 + (n + 1)) = IF Wrapped(p + 1 + n) + 1 >= Length THEN 0
                                                 ELSE Wrapped(p + 1 + n) + 1
    /\ \A p \in Slots : Wrapped((IF p = 0 THEN Length - 1 ELSE p - 1) + 1) = p
  <1>0. PICK L \in Nat \ {0} : L = Length
    BY QueueAssumption
  <1>1. \A p \in 0..(L - 1) : \A m, n \in 1..L : Wrapped(p + m) = Wrapped(p + n) => m = n
    BY <1>0 DEF Wrapped
  <1>2. \A p \in 0..(L - 1) : \A n \in 0..L :
            Wrapped(Wrapped(p + 1) + n) = Wrapped(p + 1 + n)
    BY <1>0 DEF Wrapped
  <1>3. \A p \in 0..(L - 1) : \A n \in 0..(L - 1) :
           Wrapped(p + 1 + (n + 1)) = IF Wrapped(p + 1 + n) + 1 >= L THEN 0
                                                 ELSE Wrapped(p + 1 + n) + 1
    BY <1>0 DEF Wrapped
  <1>4. \A p \in 0..(L - 1) : Wrapped((IF p = 0 THEN L - 1 ELSE p - 1) + 1) = p
    BY <1>0 DEF Wrapped
  <1> QED
    BY <1>0, <1>1, <1>2, <1>3, <1>4 DEF Slots

-----------------------------------------------------------------------------
(***************************************************************************)
(* The event lists.                                                        *)
(***************************************************************************)
\* A list of tasks, each once.
EventList(list) ==
    /\ list \in Seq(Tasks)
    /\ \A i, j \in DOMAIN list : list[i] = list[j] => i = j

\* The tasks taken off the list when n are woken.
Leaving(list, n) == {list[i] : i \in 1..(IF n < Len(list) THEN n ELSE Len(list))}

\* Waking takes tasks from the front of a list and keeps the others.
LEMMA WokenProperties ==
    ASSUME NEW list, EventList(list), NEW n \in Nat
    PROVE  /\ EventList(Woken(list, n))
           /\ \A t : In(t, Woken(list, n)) <=> In(t, list) /\ t \notin Leaving(list, n)
           /\ Leaving(list, n) \subseteq Tasks
           /\ \A t \in Leaving(list, n) : In(t, list)
           /\ Woken(list, n) # <<>> => list # <<>> /\ Cardinality(Leaving(list, n)) = n
  <1> DEFINE m == IF n < Len(list) THEN n ELSE Len(list)
             w == Woken(list, n)
  <1>1. /\ Len(list) \in Nat /\ DOMAIN list = 1..Len(list)
        /\ \A i \in 1..Len(list) : list[i] \in Tasks
    BY LenProperties, ElementOfSeq DEF EventList
  <1>2. m \in Nat /\ m <= Len(list)
    BY <1>1
  <1>3. /\ w \in Seq(Tasks)
        /\ Len(w) = Len(list) - m
        /\ \A i \in 1..Len(w) : w[i] = list[m + i]
    <2>1. \A i \in 1 + m .. Len(list) : list[i] \in Tasks
      BY <1>1, <1>2
    <2> HIDE DEF m
    <2>2. w = SubSeq(list, 1 + m, Len(list))
      BY DEF Woken, m
    <2>3. 1 + m \in Int /\ Len(list) \in Int
      BY <1>1, <1>2
    <2>4. /\ w \in Seq(Tasks)
          /\ Len(w) = IF 1 + m <= Len(list) THEN Len(list) - (1 + m) + 1 ELSE 0
          /\ \A i \in 1 .. Len(list) - (1 + m) + 1 : w[i] = list[(1 + m) + i - 1]
      BY <2>1, <2>2, <2>3, SubSeqProperties
    <2>5. Len(w) = Len(list) - m
      <3>1. \A a, b \in Nat : a <= b =>
                (IF 1 + a <= b THEN b - (1 + a) + 1 ELSE 0) = b - a
        BY SMT
      <3> QED
        BY <1>1, <1>2, <2>4, <3>1
    <2>6. ASSUME NEW i \in 1..Len(w) PROVE w[i] = list[m + i]
      <3>1. i \in 1 .. Len(list) - (1 + m) + 1 /\ (1 + m) + i - 1 = m + i
        BY <1>1, <1>2, <2>5
      <3> QED
        BY <2>4, <3>1
    <2> QED
      BY <2>4, <2>5, <2>6
  <1>4. DOMAIN w = 1..(Len(list) - m)
    BY <1>3, LenProperties
  <1> HIDE DEF m, w
  <1>5. EventList(w)
    <2> SUFFICES ASSUME NEW i \in DOMAIN w, NEW j \in DOMAIN w, w[i] = w[j]
                 PROVE  i = j
      BY <1>3 DEF EventList
    <2>1. m + i \in DOMAIN list /\ m + j \in DOMAIN list /\ list[m + i] = list[m + j]
      BY <1>1, <1>2, <1>3, <1>4
    <2> QED
      BY <1>2, <1>4, <2>1 DEF EventList
  <1>6. ASSUME NEW t
        PROVE  In(t, w) <=> In(t, list) /\ t \notin Leaving(list, n)
    <2>1. ASSUME NEW i \in DOMAIN w, w[i] = t
          PROVE  In(t, list) /\ t \notin Leaving(list, n)
      <3>1. m + i \in DOMAIN list /\ list[m + i] = t /\ m + i > m
        BY <1>1, <1>2, <1>3, <1>4, <2>1
      <3>2. ASSUME NEW j \in 1..m PROVE list[j] # t
        BY <1>1, <1>2, <3>1 DEF EventList
      <3> QED
        BY <3>1, <3>2 DEF In, Leaving, m
    <2>2. ASSUME NEW i \in DOMAIN list, list[i] = t, t \notin Leaving(list, n)
          PROVE  In(t, w)
      <3>1. i \notin 1..m
        BY <2>2 DEF Leaving, m
      <3>2. i - m \in DOMAIN w /\ w[i - m] = t
        BY <1>1, <1>2, <1>3, <1>4, <2>2, <3>1
      <3> QED
        BY <3>2 DEF In
    <2> QED
      BY <2>1, <2>2 DEF In
  <1>7. /\ Leaving(list, n) \subseteq Tasks
        /\ \A t \in Leaving(list, n) : In(t, list)
    BY <1>1, <1>2 DEF Leaving, In, m
  <1>8. ASSUME w # <<>>
        PROVE  list # <<>> /\ Cardinality(Leaving(list, n)) = n
    <2>1. Len(w) # 0
      BY <1>3, <1>8, EmptySeq, SeqEqual
    <2>2. m = n /\ Len(list) # 0
      <3>1. m < Len(list) /\ Len(list) # 0
        <4>1. \A a, b \in Nat : a <= b /\ b - a # 0 => a < b /\ b # 0
          BY SMT
        <4> QED
          BY <1>1, <1>2, <1>3, <2>1, <4>1
      <3>2. m = n \/ m = Len(list)
        BY DEF m
      <3> QED
        BY <1>1, <3>1, <3>2
    <2>3. list # <<>>
      BY <2>2, EmptySeq
    <2> DEFINE f == [i \in 1..n |-> list[i]]
    <2>4. f \in Bijection(1..n, Leaving(list, n))
      <3>1. f \in [1..n -> Leaving(list, n)]
        BY <2>2 DEF Leaving, m
      <3>2. \A i, j \in 1..n : f[i] = f[j] => i = j
        BY <1>1, <1>2, <2>2 DEF EventList
      <3>3. \A t \in Leaving(list, n) : \E i \in 1..n : f[i] = t
        BY <2>2 DEF Leaving, m
      <3> QED
        BY <3>1, <3>2, <3>3 DEF Bijection, Injection, IsInjective, Surjection
    <2>5. ExistsBijection(1..n, Leaving(list, n))
      BY <2>4 DEF ExistsBijection
    <2> QED
      BY <2>3, <2>5, FS_CountingElements
  <1> QED
    BY <1>5, <1>6, <1>7, <1>8 DEF w

\* vTaskPlaceOnEventList puts the task somewhere in the list.
LEMMA PlaceProperties ==
    ASSUME NEW list, EventList(list), NEW t \in Tasks, ~In(t, list)
    PROVE  /\ EventList(PlaceOnEventList(t, list))
           /\ \A u : In(u, PlaceOnEventList(t, list)) <=> u = t \/ In(u, list)
  <1> DEFINE ahead == Cardinality({i \in DOMAIN list : Priority[list[i]] >= Priority[t]})
             p == PlaceOnEventList(t, list)
  <1>1. /\ Len(list) \in Nat /\ DOMAIN list = 1..Len(list)
        /\ \A i \in 1..Len(list) : list[i] \in Tasks
    BY LenProperties, ElementOfSeq DEF EventList
  <1>2. ahead \in Nat /\ ahead <= Len(list)
    <2>1. IsFiniteSet(1..Len(list)) /\ Cardinality(1..Len(list)) = Len(list)
      BY <1>1, FS_Interval
    <2>2. {i \in DOMAIN list : Priority[list[i]] >= Priority[t]} \in SUBSET (1..Len(list))
      BY <1>1
    <2> QED
      BY <2>1, <2>2, FS_Subset, FS_CardinalityType, Zenon
  <1>3. p = [i \in 1..(Len(list) + 1) |-> IF i <= ahead THEN list[i]
                                        ELSE IF i = ahead + 1 THEN t
                                        ELSE list[i - 1]]
    BY Zenon DEF PlaceOnEventList
  <1> HIDE DEF ahead, p
  <1>4. /\ DOMAIN p = 1..(Len(list) + 1)
        /\ \A i \in 1..(Len(list) + 1) : i <= ahead => i \in 1..Len(list) /\ p[i] = list[i]
        /\ ahead + 1 \in 1..(Len(list) + 1) /\ p[ahead + 1] = t
        /\ \A i \in 1..(Len(list) + 1) :
               i > ahead + 1 => i - 1 \in 1..Len(list) /\ p[i] = list[i - 1]
    BY <1>1, <1>2, <1>3
  <1>5. p \in Seq(Tasks)
    <2>1. \A i \in 1..(Len(list) + 1) : p[i] \in Tasks
      BY <1>1, <1>2, <1>4
    <2>2. p = [i \in 1..(Len(list) + 1) |-> p[i]]
      BY <1>3, Zenon
    <2> QED
      BY <1>1, <2>1, <2>2, SMT
  <1>6. ASSUME NEW i \in DOMAIN p, NEW j \in DOMAIN p, p[i] = p[j]
        PROVE  i = j
    <2>1. i \in Nat /\ j \in Nat /\ i \in 1..(Len(list) + 1) /\ j \in 1..(Len(list) + 1)
      BY <1>1, <1>4
    <2>2. \A x \in 1..Len(list) : list[x] # t
      BY <1>1 DEF In
    <2>3. \A x, y \in 1..Len(list) : list[x] = list[y] => x = y
      BY <1>1 DEF EventList
    <2> DEFINE Old(x) == IF x <= ahead THEN x ELSE x - 1
    <2>4. \A x \in 1..(Len(list) + 1) :
              x # ahead + 1 => Old(x) \in 1..Len(list) /\ p[x] = list[Old(x)]
      BY <1>1, <1>2, <1>4
    <2>5. CASE i = ahead + 1 \/ j = ahead + 1
      <3>1. \A x \in 1..(Len(list) + 1) : x # ahead + 1 => p[x] # t
        BY <2>2, <2>4, Zenon
      <3>2. p[i] = t /\ p[j] = t
        BY <1>4, <1>6, <2>5, Zenon
      <3> QED
        BY <2>1, <3>1, <3>2, Zenon
    <2>6. CASE i # ahead + 1 /\ j # ahead + 1
      <3>1. Old(i) = Old(j)
        BY <1>6, <2>1, <2>3, <2>4, <2>6, Zenon
      <3> QED
        BY <1>2, <2>1, <2>6, <3>1
    <2> QED
      BY <2>5, <2>6
  <1>7. ASSUME NEW u
        PROVE  In(u, p) <=> u = t \/ In(u, list)
    <2>1. ASSUME In(u, p), u # t PROVE In(u, list)
      <3>1. PICK i \in 1..(Len(list) + 1) : p[i] = u
        BY <1>4, <2>1 DEF In
      <3>2. i <= ahead \/ i > ahead + 1
        BY <1>1, <1>2, <1>4, <2>1, <3>1
      <3>3. PICK j \in 1..Len(list) : list[j] = u
        BY <1>4, <3>1, <3>2
      <3> QED
        BY <1>1, <3>3 DEF In
    <2>2. u = t => In(u, p)
      BY <1>4 DEF In
    <2>3. ASSUME NEW i \in DOMAIN list, list[i] = u PROVE In(u, p)
      <3>1. CASE i <= ahead
        <4>1. i \in 1..(Len(list) + 1)
          BY <1>1
        <4> QED
          BY <1>4, <2>3, <3>1, <4>1 DEF In
      <3>2. CASE ~(i <= ahead)
        <4>1. i + 1 \in 1..(Len(list) + 1) /\ i + 1 > ahead + 1 /\ (i + 1) - 1 = i
          BY <1>1, <1>2, <3>2
        <4>2. p[i + 1] = u
          BY <1>4, <2>3, <4>1
        <4> QED
          BY <1>4, <4>1, <4>2 DEF In
      <3> QED
        BY <3>1, <3>2
    <2> QED
      BY <2>1, <2>2, <2>3 DEF In
  <1> QED
    BY <1>5, <1>6, <1>7, Zenon DEF EventList, p

\* uxListRemove takes the one task off the list.
LEMMA WithoutProperties ==
    ASSUME NEW list, EventList(list), NEW t
    PROVE  /\ EventList(Without(list, t))
           /\ \A u : In(u, Without(list, t)) <=> u # t /\ In(u, list)
           /\ Without(list, t) # <<>> => list # <<>>
  <1>1. CASE ~In(t, list)
    <2>1. Without(list, t) = list
      BY <1>1 DEF Without
    <2> QED
      BY <1>1, <2>1, Zenon DEF In
  <1>2. CASE In(t, list)
    <2> DEFINE place == CHOOSE i \in DOMAIN list : list[i] = t
               p == Without(list, t)
    <2>1. /\ Len(list) \in Nat /\ DOMAIN list = 1..Len(list)
          /\ \A i \in 1..Len(list) : list[i] \in Tasks
      BY LenProperties, ElementOfSeq DEF EventList
    <2>2. place \in 1..Len(list) /\ list[place] = t
      BY <1>2, <2>1 DEF In
    <2>3. p = [i \in 1..(Len(list) - 1) |-> list[IF i < place THEN i ELSE i + 1]]
      BY <1>2, Zenon DEF Without
    <2> HIDE DEF place, p
    <2>4. /\ DOMAIN p = 1..(Len(list) - 1)
          /\ \A i \in 1..(Len(list) - 1) : i < place => i \in 1..Len(list) /\ p[i] = list[i]
          /\ \A i \in 1..(Len(list) - 1) :
                 ~(i < place) => i + 1 \in 1..Len(list) /\ p[i] = list[i + 1]
      BY <2>1, <2>2, <2>3
    <2>5. p \in Seq(Tasks)
      <3>1. \A i \in 1..(Len(list) - 1) : p[i] \in Tasks
        BY <2>1, <2>2, <2>4
      <3>2. p = [i \in 1..(Len(list) - 1) |-> p[i]]
        BY <2>3, Zenon
      <3>3. Len(list) - 1 \in Nat
        BY <2>1, <2>2
      <3> QED
        BY <3>1, <3>2, <3>3, SMT
    <2>6. \A x, y \in 1..Len(list) : list[x] = list[y] => x = y
      BY <2>1 DEF EventList
    <2>7. ASSUME NEW i \in DOMAIN p, NEW j \in DOMAIN p, p[i] = p[j]
          PROVE  i = j
      BY <2>1, <2>2, <2>4, <2>6, <2>7
    <2>8. ASSUME NEW u, In(u, p)
          PROVE  u # t /\ In(u, list)
      <3>1. PICK i \in 1..(Len(list) - 1) : p[i] = u
        BY <2>4, <2>8 DEF In
      <3>2. PICK j \in 1..Len(list) : j # place /\ list[j] = u
        BY <2>1, <2>2, <2>4, <3>1
      <3> QED
        BY <2>1, <2>2, <2>6, <3>2 DEF In
    <2>9. ASSUME NEW u, u # t, NEW j \in DOMAIN list, list[j] = u
          PROVE  In(u, p)
      <3>1. CASE j < place
        <4>1. j \in 1..(Len(list) - 1)
          BY <2>1, <2>2, <3>1
        <4> QED
          BY <2>4, <2>9, <3>1, <4>1 DEF In
      <3>2. CASE ~(j < place)
        <4>1. j # place
          BY <2>2, <2>9
        <4>2. j - 1 \in 1..(Len(list) - 1) /\ ~(j - 1 < place) /\ (j - 1) + 1 = j
          BY <2>1, <2>2, <3>2, <4>1
        <4>3. p[j - 1] = u
          BY <2>4, <2>9, <4>2
        <4> QED
          BY <2>4, <4>2, <4>3 DEF In
      <3> QED
        BY <3>1, <3>2
    <2>10. list # <<>>
      BY <2>1, <2>2, EmptySeq
    <2> QED
      BY <2>5, <2>7, <2>8, <2>9, <2>10, Zenon DEF EventList, In, p
  <1> QED
    BY <1>1, <1>2

-----------------------------------------------------------------------------
(***************************************************************************)
(* Counting the tasks that are awake.                                      *)
(***************************************************************************)
\* Sets of tasks are finite.
LEMMA TaskSets ==
    /\ \A A \in SUBSET Tasks : IsFiniteSet(A) /\ Cardinality(A) \in Nat
    /\ \A A, B \in SUBSET Tasks : A \subseteq B => Cardinality(A) <= Cardinality(B)
  <1>1. \A A \in SUBSET Tasks : IsFiniteSet(A)
    BY QueueAssumption, FS_Subset
  <1>2. \A A \in SUBSET Tasks : Cardinality(A) \in Nat
    BY <1>1, FS_CardinalityType
  <1>3. \A A, B \in SUBSET Tasks : A \subseteq B => Cardinality(A) <= Cardinality(B)
    BY <1>1, FS_Subset
  <1> QED
    BY <1>1, <1>2, <1>3

\* More tasks awake, or no more to do than before: the cover holds.
LEMMA CoverKept ==
    ASSUME NEW list, NEW list2, NEW a \in Int, NEW a2 \in Int,
           NEW A \in SUBSET Tasks, NEW B \in SUBSET Tasks, NEW c \in Int, NEW c2 \in Int,
           Covered(list, a, A, c),
           list2 # <<>> => list # <<>>,
           A \subseteq B,
           a2 - Pending(c2) <= a - Pending(c)
    PROVE  Covered(list2, a2, B, c2)
  <1>1. Cardinality(A) \in Nat /\ Cardinality(B) \in Nat /\ Cardinality(A) <= Cardinality(B)
    BY TaskSets
  <1> QED
    BY <1>1 DEF Covered, Pending, queueUNLOCKED

\* The task that leaves takes one with it.
LEMMA CoverServed ==
    ASSUME NEW list, NEW a \in Int, NEW A \in SUBSET Tasks, NEW B \in SUBSET Tasks,
           NEW c \in Int, NEW t \in A,
           Covered(list, a, A, c),
           A \ {t} \subseteq B
    PROVE  Covered(list, a - 1, B, c)
  <1>1. A \ {t} \in SUBSET Tasks
    OBVIOUS
  <1>2. Cardinality(A \ {t}) = Cardinality(A) - 1
    BY TaskSets, FS_RemoveElement
  <1>3. Cardinality(A) \in Nat /\ Cardinality(B) \in Nat /\ Cardinality(A \ {t}) <= Cardinality(B)
    BY <1>1, TaskSets
  <1> QED
    BY <1>2, <1>3 DEF Covered, Pending, queueUNLOCKED

\* Tasks that are woken cover as many more; if there were fewer, nobody waits
\* any longer.
LEMMA CoverWoken ==
    ASSUME NEW list, EventList(list), NEW n \in Nat, NEW a \in Int, NEW a2 \in Int,
           NEW A \in SUBSET Tasks, NEW B \in SUBSET Tasks, NEW c \in Int, NEW c2 \in Int,
           Covered(list, a, A, c),
           \A t \in A : ~In(t, list),
           A \subseteq B,
           Leaving(list, n) \subseteq B,
           a2 - Pending(c2) <= a - Pending(c) + n
    PROVE  Covered(Woken(list, n), a2, B, c2)
  <1> SUFFICES ASSUME Woken(list, n) # <<>>
               PROVE  a2 <= Cardinality(B) + Pending(c2)
    BY DEF Covered
  <1> DEFINE W == Leaving(list, n)
  <1>1. list # <<>> /\ Cardinality(W) = n /\ W \in SUBSET Tasks /\ \A t \in W : In(t, list)
    BY WokenProperties
  <1>2. A \cap W = {}
    BY <1>1
  <1>3. Cardinality(A \cup W) = Cardinality(A) + n
    <2>1. IsFiniteSet(A) /\ IsFiniteSet(W) /\ Cardinality(A) \in Nat
      BY <1>1, TaskSets
    <2>2. Cardinality(A \cap W) = 0
      BY <1>2, FS_EmptySet
    <2>3. Cardinality(A \cup W) = Cardinality(A) + Cardinality(W) - Cardinality(A \cap W)
      BY <2>1, FS_Union
    <2> QED
      BY <1>1, <2>1, <2>2, <2>3
  <1>4. A \cup W \in SUBSET Tasks /\ A \cup W \subseteq B
    BY <1>1
  <1>5. Cardinality(A) \in Nat /\ Cardinality(B) \in Nat /\ Cardinality(A \cup W) <= Cardinality(B)
    BY <1>4, TaskSets
  <1>6. a <= Cardinality(A) + Pending(c)
    BY <1>1 DEF Covered
  <1>7. Pending(c) \in Int /\ Pending(c2) \in Int
    BY DEF Pending
  <1> QED
    BY <1>3, <1>5, <1>6, <1>7

-----------------------------------------------------------------------------
(***************************************************************************)
(* The types, by group of variables.                                       *)
(***************************************************************************)
RingTypes ==
    /\ storage \in [Slots -> 0..MaxItems]
    /\ writeTo \in Slots
    /\ readFrom \in Slots
    /\ waiting \in 0..Length
    /\ taken \in {<<>>} \cup {<<i>> : i \in Items}

LockTypes ==
    /\ txLock \in Int /\ txLock >= queueUNLOCKED
    /\ rxLock \in Int /\ rxLock >= queueUNLOCKED
    /\ suspender \in Tasks \cup {None}

ListTypes == EventList(toSend) /\ EventList(toReceive)

Calls == [op : {"receive", "back", "front"}, item : 0..MaxItems, wait : AllWaits,
          expired : BOOLEAN]

CallTypes ==
    /\ pc \in [Tasks -> Places]
    /\ call \in [Tasks -> Calls]
    /\ offered \in 0..MaxItems

\* The type invariant is these four together.
LEMMA TypeParts ==
    /\ TypeOK <=> RingTypes /\ LockTypes /\ ListTypes /\ CallTypes
    /\ TypeOK' <=> RingTypes' /\ LockTypes' /\ ListTypes' /\ CallTypes'
  <1>1. TypeOK <=> RingTypes /\ LockTypes /\ ListTypes /\ CallTypes
    BY Zenon DEF TypeOK, RingTypes, LockTypes, ListTypes, CallTypes, EventList, Calls
  <1>2. TypeOK' <=> RingTypes' /\ LockTypes' /\ ListTypes' /\ CallTypes'
    BY Zenon DEF TypeOK, RingTypes, LockTypes, ListTypes, CallTypes, EventList, Calls
  <1> QED
    BY <1>1, <1>2

-----------------------------------------------------------------------------
(***************************************************************************)
(* The ring is a queue.                                                    *)
(***************************************************************************)
\* The items in the ring, oldest first.
Content == [i \in 1..waiting |-> storage[(readFrom + i) % Length]]

\* They are a sequence of items that were sent.
LEMMA ContentType ==
    ASSUME RingTypes, RingInv
    PROVE  /\ waiting \in Nat /\ readFrom \in Slots
           /\ Content \in Seq(Items)
           /\ Len(Content) = waiting
           /\ \A i \in 1..waiting : Content[i] = storage[Wrapped(readFrom + i)]
  <1>1. waiting \in Nat /\ readFrom \in Slots /\ 1..waiting \subseteq 0..Length
    BY QueueAssumption DEF RingTypes
  <1>2. \A i \in 1..waiting : Content[i] = storage[Wrapped(readFrom + i)]
    BY <1>1, Positions, Zenon DEF Content
  <1>3. \A i \in 1..waiting : Content[i] \in Items
    BY <1>2, Zenon DEF RingInv
  <1>4. Content \in [1..waiting -> Items]
    <2>1. Content = [i \in 1..waiting |-> Content[i]]
      BY Zenon DEF Content
    <2> QED
      BY <1>3, <2>1, Zenon
  <1>5. Content \in Seq(Items)
    BY <1>1, <1>4, SMT
  <1>6. DOMAIN Content = 1..waiting
    BY <1>4, Zenon
  <1>7. Len(Content) = waiting
    BY <1>1, <1>5, <1>6, LenProperties, SMT
  <1> QED
    BY <1>1, <1>2, <1>5, <1>7

\* The same of the state after a step.
LEMMA ContentTypeNext ==
    RingTypes' /\ RingInv' =>
        /\ waiting' \in Nat /\ readFrom' \in Slots
        /\ Content' \in Seq(Items)
        /\ Len(Content') = waiting'
        /\ \A i \in 1..waiting' : Content'[i] = storage'[Wrapped(readFrom' + i)]
  <1>1. RingTypes /\ RingInv =>
            /\ waiting \in Nat /\ readFrom \in Slots
            /\ Content \in Seq(Items)
            /\ Len(Content) = waiting
            /\ \A i \in 1..waiting : Content[i] = storage[Wrapped(readFrom + i)]
    BY ContentType
  <1>2. (RingTypes /\ RingInv =>
            /\ waiting \in Nat /\ readFrom \in Slots
            /\ Content \in Seq(Items)
            /\ Len(Content) = waiting
            /\ \A i \in 1..waiting : Content[i] = storage[Wrapped(readFrom + i)])'
    BY <1>1, PTL
  <1> QED
    BY <1>2, Zenon DEF Wrapped

\* prvCopyDataToQueue adds the item behind the newest or before the oldest.
LEMMA CopyTo ==
    ASSUME RingTypes, RingInv, waiting < Length, NEW i \in Items, NEW position \in CopyPositions,
           CopyDataToQueue(i, position)
    PROVE  /\ RingTypes' /\ RingInv'
           /\ Content' \in {Append(Content, i), <<i>> \o Content}
           /\ UNCHANGED taken
  <1> USE DEF RingTypes
  <1>0. /\ Length \in Nat \ {0} /\ waiting \in Nat /\ i \in 0..MaxItems
        /\ waiting' = waiting + 1 /\ waiting' \in 0..Length /\ UNCHANGED taken
    BY QueueAssumption, SMT DEF CopyDataToQueue, Items
  <1>1. CASE position = "back"
    <2>1. /\ storage' = [storage EXCEPT ![writeTo] = i]
          /\ writeTo' = AfterWrite /\ readFrom' = readFrom
      BY <1>1, Zenon DEF CopyDataToQueue
    <2>2. writeTo = Wrapped(readFrom + 1 + waiting) /\ waiting \in 0..(Length - 1)
      BY <1>0, Zenon, SMT DEF RingInv
    <2>3. writeTo' = Wrapped(readFrom + 1 + (waiting + 1))
      BY <2>1, <2>2, RoundTheRing, Zenon DEF AfterWrite
    <2>4. writeTo' \in Slots
      BY <1>0, <2>1, SMT DEF AfterWrite, Slots
    <2>5. storage' \in [Slots -> 0..MaxItems]
      BY <1>0, <2>1, Zenon
    <2>6. ASSUME NEW j \in 1..waiting
          PROVE  storage'[Wrapped(readFrom + j)] = storage[Wrapped(readFrom + j)]
      <3>1. j \in 1..Length /\ 1 + waiting \in 1..Length /\ j # 1 + waiting /\ j \in 0..(Length + 1)
        BY <1>0, SMT
      <3>2. readFrom + 1 + waiting = readFrom + (1 + waiting)
        BY <1>0, SMT DEF Slots
      <3>3. Wrapped(readFrom + j) # writeTo
        BY <2>2, <3>1, <3>2, RoundTheRing
      <3>4. Wrapped(readFrom + j) \in Slots
        BY <3>1, Positions
      <3> QED
        BY <2>1, <3>3, <3>4
    <2>7. storage'[Wrapped(readFrom + (waiting + 1))] = i
      <3>1. readFrom + 1 + waiting = readFrom + (waiting + 1)
        BY <1>0, SMT DEF Slots
      <3> QED
        BY <2>1, <2>2, <3>1
    <2>8. RingTypes'
      BY <1>0, <2>1, <2>4, <2>5
    <2>9. \A j \in 1..waiting' : j \in 1..waiting \/ j = waiting + 1
      BY <1>0
    <2>10. RingInv'
      <3>1. \A j \in 1..waiting' : storage'[Wrapped(readFrom' + j)] \in Items
        BY <2>1, <2>6, <2>7, <2>9, Zenon DEF RingInv
      <3> QED
        BY <1>0, <2>1, <2>3, <3>1, Zenon DEF RingInv, Wrapped
    <2>11. Content' = Append(Content, i)
      <3>1. /\ Content' \in Seq(Items) /\ Len(Content') = waiting + 1
            /\ \A j \in 1..(waiting + 1) : Content'[j] = storage'[Wrapped(readFrom + j)]
        BY <1>0, <2>1, <2>8, <2>10, ContentTypeNext
      <3>2. /\ Append(Content, i) \in Seq(Items) /\ Len(Append(Content, i)) = waiting + 1
            /\ \A j \in 1..waiting : Append(Content, i)[j] = Content[j]
            /\ Append(Content, i)[waiting + 1] = i
        BY ContentType, AppendProperties
      <3>3. \A j \in 1..(waiting + 1) : Content'[j] = Append(Content, i)[j]
        BY <1>0, <2>6, <2>7, <2>9, <3>1, <3>2, ContentType
      <3> QED
        BY <3>1, <3>2, <3>3, SeqEqual
    <2> QED
      BY <1>0, <2>8, <2>10, <2>11
  <1>2. CASE position = "front"
    <2>1. /\ storage' = [storage EXCEPT ![readFrom] = i]
          /\ readFrom' = (readFrom + Length - 1) % Length /\ writeTo' = writeTo
      BY <1>2, Zenon DEF CopyDataToQueue
    <2>2. readFrom' = IF readFrom = 0 THEN Length - 1 ELSE readFrom - 1
      BY <2>1, Positions
    <2>3. readFrom' \in Slots
      BY <1>0, <2>2, SMT DEF Slots
    <2>4. Wrapped(readFrom' + 1) = readFrom
      BY <2>2, RoundTheRing, Zenon
    <2>5. \A j \in 0..Length : Wrapped(readFrom' + 1 + j) = Wrapped(readFrom + j)
      BY <2>3, <2>4, RoundTheRing
    <2>6. writeTo' = Wrapped(readFrom' + 1 + waiting')
      <3>1. waiting + 1 \in 0..Length /\ readFrom + 1 + waiting = readFrom + (waiting + 1)
        BY <1>0, SMT DEF Slots
      <3> QED
        BY <1>0, <2>1, <2>5, <3>1 DEF RingInv
    <2>7. storage' \in [Slots -> 0..MaxItems]
      BY <1>0, <2>1, Zenon
    <2>8. storage'[Wrapped(readFrom' + 1)] = i
      BY <2>1, <2>4
    <2>9. ASSUME NEW j \in 1..waiting
          PROVE  storage'[Wrapped(readFrom' + (j + 1))] = storage[Wrapped(readFrom + j)]
      <3>1. j \in 0..Length /\ j \in 1..Length /\ Length \in 1..Length /\ j # Length
        BY <1>0, SMT
      <3>2. Wrapped(readFrom' + (j + 1)) = Wrapped(readFrom + j)
        <4>1. readFrom' + (j + 1) = readFrom' + 1 + j
          BY <2>3, SMT DEF Slots
        <4> QED
          BY <2>5, <3>1, <4>1
      <3>3. Wrapped(readFrom + j) # readFrom /\ Wrapped(readFrom + j) \in Slots
        <4>1. Wrapped(readFrom + Length) = readFrom
          BY <1>0, SMT DEF Wrapped, Slots
        <4>2. j \in 0..(Length + 1)
          BY <3>1
        <4>3. Wrapped(readFrom + j) # Wrapped(readFrom + Length)
          BY <3>1, RoundTheRing, Zenon
        <4>4. Wrapped(readFrom + j) \in Slots
          BY <4>2, Positions, Zenon
        <4> QED
          BY <4>1, <4>3, <4>4
      <3> QED
        BY <2>1, <3>2, <3>3
    <2>10. RingTypes'
      BY <1>0, <2>1, <2>3, <2>7
    <2>11. \A j \in 1..waiting' : j = 1 \/ (j - 1 \in 1..waiting /\ j = (j - 1) + 1)
      BY <1>0
    <2>12. RingInv'
      <3>1. \A j \in 1..waiting' : storage'[Wrapped(readFrom' + j)] \in Items
        BY <2>8, <2>9, <2>11 DEF RingInv
      <3> QED
        BY <2>6, <3>1, Zenon DEF RingInv, Wrapped
    <2>13. Content' = <<i>> \o Content
      <3>1. /\ Content' \in Seq(Items) /\ Len(Content') = waiting + 1
            /\ \A j \in 1..(waiting + 1) : Content'[j] = storage'[Wrapped(readFrom' + j)]
        BY <1>0, <2>10, <2>12, ContentTypeNext
      <3>2. <<i>> \in Seq(Items) /\ Len(<<i>>) = 1 /\ <<i>>[1] = i
        OBVIOUS
      <3>3. /\ <<i>> \o Content \in Seq(Items) /\ Len(<<i>> \o Content) = waiting + 1
            /\ (<<i>> \o Content)[1] = i
            /\ \A j \in 1..waiting : (<<i>> \o Content)[j + 1] = Content[j]
        <4>1. Content \in Seq(Items) /\ Len(Content) = waiting
          BY ContentType
        <4>2. /\ <<i>> \o Content \in Seq(Items)
              /\ Len(<<i>> \o Content) = 1 + waiting
              /\ \A j \in 1..(1 + waiting) :
                    (<<i>> \o Content)[j] = IF j <= 1 THEN <<i>>[j] ELSE Content[j - 1]
          BY <3>2, <4>1, ConcatProperties
        <4>3. (<<i>> \o Content)[1] = i
          BY <1>0, <3>2, <4>2
        <4>4. ASSUME NEW j \in 1..waiting PROVE (<<i>> \o Content)[j + 1] = Content[j]
          <5>1. j + 1 \in 1..(1 + waiting) /\ ~(j + 1 <= 1) /\ (j + 1) - 1 = j
            BY <1>0
          <5> QED
            BY <4>2, <5>1
        <4> QED
          BY <1>0, <4>2, <4>3, <4>4
      <3>4. \A j \in 1..(waiting + 1) : Content'[j] = (<<i>> \o Content)[j]
        BY <1>0, <2>8, <2>9, <2>11, <3>1, <3>3, ContentType
      <3> QED
        BY <3>1, <3>3, <3>4, SeqEqual
    <2> QED
      BY <1>0, <2>10, <2>12, <2>13
  <1> QED
    BY <1>1, <1>2 DEF CopyPositions

\* prvCopyDataFromQueue takes the oldest item.
LEMMA CopyFrom ==
    ASSUME RingTypes, RingInv, waiting > 0, CopyDataFromQueue
    PROVE  /\ RingTypes' /\ RingInv'
           /\ Content # <<>> /\ Content' = Tail(Content) /\ taken' = <<Head(Content)>>
  <1> USE DEF RingTypes
  <1>0. /\ Length \in Nat \ {0} /\ waiting \in Nat /\ waiting <= Length
        /\ waiting' = waiting - 1 /\ waiting' \in 0..Length
        /\ UNCHANGED <<storage, writeTo>> /\ taken' = <<storage[readFrom']>>
    BY QueueAssumption, SMT DEF CopyDataFromQueue
  <1>1. readFrom' = Wrapped(readFrom + 1) /\ readFrom' \in Slots
    <2>1. 1 \in 0..Length /\ 1 \in 0..(Length + 1)
      BY <1>0
    <2>2. readFrom' = (readFrom + 1) % Length
      BY DEF CopyDataFromQueue
    <2>3. (readFrom + 1) % Length = Wrapped(readFrom + 1)
      BY <2>1, Positions, Zenon
    <2>4. Wrapped(readFrom + 1) \in Slots
      BY <2>1, Positions, Zenon
    <2> QED
      BY <2>2, <2>3, <2>4
  <1>2. \A n \in 0..Length : Wrapped(readFrom' + n) = Wrapped(readFrom + 1 + n)
    BY <1>1, RoundTheRing, Zenon
  <1>3. storage[readFrom'] \in Items
    <2>1. 1 \in 1..waiting
      BY <1>0
    <2> QED
      BY <1>1, <2>1, Zenon DEF RingInv
  <1>4. RingTypes'
    BY <1>0, <1>1, <1>3, Zenon
  <1>5. \A j \in 1..waiting' :
            /\ j + 1 \in 1..waiting
            /\ storage'[Wrapped(readFrom' + j)] = storage[Wrapped(readFrom + (j + 1))]
    <2> TAKE j \in 1..waiting'
    <2>1. j \in 0..Length /\ j + 1 \in 1..waiting /\ readFrom + 1 + j = readFrom + (j + 1)
      BY <1>0, SMT DEF Slots
    <2> QED
      BY <1>0, <1>2, <2>1, Zenon
  <1>6. RingInv'
    <2>1. writeTo' = Wrapped(readFrom' + 1 + waiting')
      <3>1. /\ waiting \in 0..Length /\ readFrom' + 1 + waiting' = readFrom' + waiting
        BY <1>0, <1>1, SMT DEF Slots
      <3> QED
        BY <1>0, <1>2, <3>1 DEF RingInv
    <2>2. \A j \in 1..waiting' : storage'[Wrapped(readFrom' + j)] \in Items
      BY <1>5, Zenon DEF RingInv
    <2> QED
      BY <2>1, <2>2, Zenon DEF RingInv, Wrapped
  <1>7. /\ Content \in Seq(Items) /\ Len(Content) = waiting
        /\ \A j \in 1..waiting : Content[j] = storage[Wrapped(readFrom + j)]
    BY ContentType
  <1>8. /\ Content' \in Seq(Items) /\ Len(Content') = waiting - 1
        /\ \A j \in 1..(waiting - 1) : Content'[j] = storage'[Wrapped(readFrom' + j)]
    BY <1>0, <1>4, <1>6, ContentTypeNext
  <1>9. Content # <<>>
    BY <1>0, <1>7, EmptySeq
  <1>10. Content' = Tail(Content)
    <2>1. /\ Tail(Content) \in Seq(Items) /\ Len(Tail(Content)) = waiting - 1
          /\ \A j \in 1..(waiting - 1) : Tail(Content)[j] = Content[j + 1]
      BY <1>7, <1>9, HeadTailProperties
    <2>2. \A j \in 1..(waiting - 1) : Content'[j] = Tail(Content)[j]
      BY <1>0, <1>5, <1>7, <1>8, <2>1
    <2> QED
      BY <1>8, <2>1, <2>2, SeqEqual
  <1>11. Head(Content) = storage[readFrom']
    <2>1. Head(Content) = Content[1] /\ 1 \in 1..waiting
      BY <1>0, <1>7, <1>9
    <2> QED
      BY <1>1, <1>7, <2>1
  <1> QED
    BY <1>0, <1>4, <1>6, <1>9, <1>10, <1>11

\* A send has an item, in the call or from the interrupt.
LEMMA ItemsOffered ==
    ASSUME CallTypes, offered < MaxItems
    PROVE  offered + 1 \in Items /\ offered + 1 \in 0..MaxItems /\ MaxItems \in Nat
  BY QueueAssumption DEF CallTypes, Items

\* Every critical section keeps the ring, and is a step of the bounded queue.
LEMMA RingStep ==
    ASSUME TypeOK, RingInv, CallInv, [Next]_vars
    PROVE  /\ RingTypes' /\ RingInv'
           /\ \/ UNCHANGED <<Content, taken>>
              \/ /\ Content # <<>> /\ Content' = Tail(Content)
                 /\ taken' = <<Head(Content)>>
              \/ /\ Len(Content) < Length /\ UNCHANGED taken
                 /\ \E i \in Items : Content' \in {Append(Content, i), <<i>> \o Content}
  <1>0. RingTypes /\ CallTypes
    BY TypeParts
  <1>1. CASE UNCHANGED ring
    BY <1>0, <1>1, Zenon DEF ring, RingTypes, RingInv, Content, Wrapped
  <1>2. ASSUME NEW t \in Tasks, TrySend(t)
        PROVE  \E i \in Items, position \in CopyPositions :
                   waiting < Length /\ CopyDataToQueue(i, position)
    <2>1. /\ call[t].item \in Items /\ call[t].op \in {"back", "front"} /\ waiting < Length
          /\ CopyDataToQueue(call[t].item, call[t].op)
      BY <1>0, <1>2 DEF TrySend, Receives, CallInv, CallTypes, Calls
    <2> QED
      BY <2>1, Zenon DEF CopyPositions
  <1>3. ASSUME NEW position \in CopyPositions, SendFromISR(position)
        PROVE  \E i \in Items, place \in CopyPositions :
                   waiting < Length /\ CopyDataToQueue(i, place)
    BY <1>0, <1>3, ItemsOffered, Zenon DEF SendFromISR
  <1>4. CASE \E i \in Items, position \in CopyPositions :
                 waiting < Length /\ CopyDataToQueue(i, position)
    <2>1. Len(Content) = waiting
      BY <1>0, ContentType
    <2>2. \E i \in Items : Content' \in {Append(Content, i), <<i>> \o Content}
      BY <1>0, <1>4, CopyTo, Zenon
    <2>3. RingTypes' /\ RingInv' /\ UNCHANGED taken
      BY <1>0, <1>4, CopyTo, Zenon
    <2> QED
      BY <1>4, <2>1, <2>2, <2>3, Zenon
  <1>5. CASE waiting > 0 /\ CopyDataFromQueue
    BY <1>0, <1>5, CopyFrom, Zenon
  <1>6. ASSUME NEW t \in Tasks, CallSend(t) \/ CallReceive(t) \/ TryFails(t) \/ LockQueue(t)
                  \/ Look(t) \/ Place(t) \/ UnlockTx(t) \/ UnlockRx(t) \/ ResumeAll(t)
                  \/ Recheck(t) \/ TimeOut(t)
        PROVE  UNCHANGED ring
    BY <1>6, Zenon DEF CallSend, CallReceive, TryFails, LockQueue, Look, Place, UnlockTx,
       UnlockRx, ResumeAll, Recheck, TimeOut
  <1>7. ASSUME NEW t \in Tasks, TryReceive(t)
        PROVE  waiting > 0 /\ CopyDataFromQueue
    BY <1>7, Zenon DEF TryReceive
  <1>8. ReceiveFromISR => waiting > 0 /\ CopyDataFromQueue
    BY Zenon DEF ReceiveFromISR
  <1>9. UNCHANGED vars => UNCHANGED ring
    BY Zenon DEF vars
  <1> QED
    BY <1>1, <1>2, <1>3, <1>4, <1>5, <1>6, <1>7, <1>8, <1>9, Zenon DEF Next, TaskStep

-----------------------------------------------------------------------------
(***************************************************************************)
(* What each step does to the positions and the calls.                     *)
(***************************************************************************)
\* Only t moves; to which place, with which call.
Moves(t, place) ==
    /\ CallTypes'
    /\ pc'[t] = place
    /\ \A u \in Tasks \ {t} : pc'[u] = pc[u] /\ call'[u] = call[u]

\* Going on to another place leaves the call as it is.
LEMMA GotoEffect ==
    ASSUME CallTypes, NEW t \in Tasks, NEW place \in Places, Goto(t, place)
    PROVE  Moves(t, place) /\ call' = call
  BY DEF Goto, calls, Moves, CallTypes

\* Returning ends the call.
LEMMA ReturnEffect ==
    ASSUME CallTypes, NEW t \in Tasks, Return(t)
    PROVE  Moves(t, "out") /\ call'[t] = NoCall
  <1>1. NoCall \in Calls
    BY QueueAssumption DEF NoCall, Calls, AllWaits
  <1> QED
    BY <1>1, Zenon DEF Return, Moves, CallTypes, Places

\* A send begins with its item.
LEMMA CallSendEffect ==
    ASSUME CallTypes, NEW t \in Tasks, CallSend(t)
    PROVE  /\ Moves(t, "try")
           /\ ~Receives(t)' /\ call'[t].item \in Items
  <1>1. PICK position \in CopyPositions, w \in Waits :
            call' = [call EXCEPT ![t] = [op |-> position, item |-> offered + 1,
                                         wait |-> w, expired |-> FALSE]]
    BY DEF CallSend
  <1> DEFINE c == [op |-> position, item |-> offered + 1, wait |-> w, expired |-> FALSE]
  <1>2. offered + 1 \in Items /\ offered + 1 \in 0..MaxItems /\ offered' = offered + 1
    BY ItemsOffered DEF CallSend
  <1>3. c \in Calls /\ c.op # "receive" /\ c.item = offered + 1
    BY <1>2, QueueAssumption DEF Calls, CopyPositions
  <1>4. call' \in [Tasks -> Calls] /\ call'[t] = c
    BY <1>1, <1>3, Zenon DEF CallTypes
  <1>5. CallTypes'
    BY <1>2, <1>4 DEF CallTypes, CallSend, Places
  <1>6. pc'[t] = "try" /\ \A u \in Tasks \ {t} : pc'[u] = pc[u] /\ call'[u] = call[u]
    BY <1>1, Zenon DEF CallTypes, CallSend
  <1> QED
    BY <1>2, <1>3, <1>4, <1>5, <1>6 DEF Moves, Receives

\* A receive begins.
LEMMA CallReceiveEffect ==
    ASSUME CallTypes, NEW t \in Tasks, CallReceive(t)
    PROVE  Moves(t, "try") /\ Receives(t)'
  <1>1. PICK w \in Waits : call' = [call EXCEPT ![t] = [NoCall EXCEPT !.wait = w]]
    BY DEF CallReceive
  <1> DEFINE c == [NoCall EXCEPT !.wait = w]
  <1>2. c \in Calls /\ c.op = "receive"
    <2>1. NoCall \in Calls /\ NoCall.op = "receive"
      BY QueueAssumption DEF NoCall, Calls, AllWaits
    <2>2. w \in AllWaits
      BY QueueAssumption
    <2> QED
      BY <2>1, <2>2 DEF Calls
  <1>3. call' \in [Tasks -> Calls] /\ call'[t] = c
    BY <1>1, <1>2, Zenon DEF CallTypes
  <1>4. CallTypes'
    BY <1>3 DEF CallTypes, CallReceive, Places
  <1>5. pc'[t] = "try" /\ \A u \in Tasks \ {t} : pc'[u] = pc[u] /\ call'[u] = call[u]
    BY <1>1, Zenon DEF CallTypes, CallReceive
  <1> QED
    BY <1>2, <1>3, <1>4, <1>5 DEF Moves, Receives

\* Locking the queue goes on to look, or ends the waiting of a call whose time
\* is up.
LEMMA LockQueueEffect ==
    ASSUME CallTypes, NEW t \in Tasks, LockQueue(t)
    PROVE  /\ \/ Moves(t, "look") /\ call'[t].wait = call[t].wait
              \/ Moves(t, "unlockTx") /\ call'[t].wait = "none"
           /\ call'[t].op = call[t].op /\ call'[t].item = call[t].item
  <1> DEFINE w == IF call[t].expired THEN "none" ELSE call[t].wait
             c == [call[t] EXCEPT !.wait = w]
             place == IF call[t].expired THEN "unlockTx" ELSE "look"
  <1>1. call[t] \in Calls
    BY DEF CallTypes
  <1>2. c \in Calls /\ c.op = call[t].op /\ c.item = call[t].item /\ c.wait = w
    <2>1. w \in AllWaits
      BY <1>1 DEF Calls, AllWaits
    <2> HIDE DEF w
    <2> QED
      BY <1>1, <2>1 DEF Calls
  <1>3. call' = [call EXCEPT ![t] = c] /\ pc' = [pc EXCEPT ![t] = place]
    BY DEF LockQueue, CallTypes
  <1> HIDE DEF c
  <1>4. call' \in [Tasks -> Calls] /\ call'[t] = c
    BY <1>2, <1>3, Zenon DEF CallTypes
  <1>5. place \in Places
    BY DEF Places
  <1> HIDE DEF place
  <1>6. CallTypes'
    BY <1>3, <1>4, <1>5 DEF CallTypes, LockQueue
  <1>7. pc'[t] = place /\ \A u \in Tasks \ {t} : pc'[u] = pc[u] /\ call'[u] = call[u]
    BY <1>3, Zenon DEF CallTypes
  <1>8. CASE call[t].expired
    BY <1>2, <1>4, <1>6, <1>7, <1>8, Zenon DEF Moves, place
  <1>9. CASE ~call[t].expired
    BY <1>2, <1>4, <1>6, <1>7, <1>9, Zenon DEF Moves, place
  <1> QED
    BY <1>8, <1>9

\* The tick moves no task and changes no call but to say that its time is up.
LEMMA TimeOutEffect ==
    ASSUME CallTypes, NEW t \in Tasks, TimeOut(t)
    PROVE  /\ Moves(t, pc[t])
           /\ call'[t].op = call[t].op /\ call'[t].item = call[t].item
           /\ call'[t].wait = call[t].wait
  <1> DEFINE c == [call[t] EXCEPT !.expired = TRUE]
  <1>1. call[t] \in Calls
    BY DEF CallTypes
  <1>2. /\ c \in Calls /\ c.op = call[t].op /\ c.item = call[t].item
        /\ c.wait = call[t].wait
    BY <1>1 DEF Calls
  <1>3. call' = [call EXCEPT ![t] = c] /\ pc' = pc /\ offered' = offered
    BY DEF TimeOut, CallTypes
  <1> HIDE DEF c
  <1>4. call' \in [Tasks -> Calls] /\ call'[t] = c
    BY <1>2, <1>3, Zenon DEF CallTypes
  <1>5. \A u \in Tasks \ {t} : call'[u] = call[u]
    BY <1>3, Zenon DEF CallTypes
  <1> QED
    BY <1>2, <1>3, <1>4, <1>5, Zenon DEF Moves, CallTypes

-----------------------------------------------------------------------------
(***************************************************************************)
(* Each step keeps what the tasks, the lock and the lists agree on.        *)
(***************************************************************************)
Agreement ==
    /\ LockTypes /\ ListTypes /\ CallTypes
    /\ CallInv
    /\ LockInv
    /\ WaitInv
    /\ PlaceInv
    /\ WakeInv

\* Outside the suspended part of a call a task runs only when nobody has the
\* scheduler suspended and it is on no list.
LEMMA FreeToRun ==
    ASSUME Agreement, NEW t \in Tasks, Runs(t), pc[t] \notin Suspending
    PROVE  /\ suspender = None
           /\ ~In(t, toSend) /\ ~In(t, toReceive)
           /\ txLock = queueUNLOCKED /\ rxLock = queueUNLOCKED
  <1>1. suspender # t
    BY DEF Agreement, LockInv
  <1>2. suspender = None
    BY <1>1 DEF Runs
  <1> QED
    BY <1>2 DEF Runs, Agreement, LockInv

\* In the suspended part of a call it is the task that suspended the scheduler.
LEMMA Alone ==
    ASSUME Agreement, NEW t \in Tasks, pc[t] \in Suspending
    PROVE  /\ suspender = t
           /\ \A u \in Tasks \ {t} : pc[u] \notin Suspending
           /\ txLock # queueUNLOCKED <=> pc[t] \in LockingTx
           /\ rxLock # queueUNLOCKED <=> pc[t] \in LockingRx
  BY DEF Agreement, LockInv

\* A task that moves outside the suspended part leaves the lock alone.
LEMMA LockKept ==
    ASSUME Agreement, NEW t \in Tasks, NEW place, pc[t] \notin Suspending,
           place \notin Suspending, Moves(t, place), UNCHANGED lock
    PROVE  LockTypes' /\ LockInv'
  <1>1. \A u \in Tasks : pc'[u] = pc[u] \/ (u = t /\ pc'[u] = place)
    BY DEF Moves
  <1>2. UNCHANGED <<txLock, rxLock, suspender>>
    BY DEF lock
  <1>3. LockTypes'
    BY <1>2 DEF Agreement, LockTypes, queueUNLOCKED
  <1>4. \A u \in Tasks : pc'[u] \in Suspending <=> pc[u] \in Suspending
    BY <1>1, Zenon
  <1>5. \A u \in Tasks : suspender = u => pc'[u] = pc[u]
    BY <1>1 DEF Agreement, LockInv
  <1> QED
    BY <1>2, <1>3, <1>4, <1>5, Zenon DEF Agreement, LockInv, queueUNLOCKED, Suspending,
       LockingTx, LockingRx

\* The counters are numbers, and so is what a lock records as pending.
LEMMA NumberTypes ==
    ASSUME TypeOK
    PROVE  /\ waiting \in Int /\ Length \in Int /\ Length - waiting \in Int
           /\ txLock \in Int /\ txLock >= -1 /\ Pending(txLock) \in Int
           /\ rxLock \in Int /\ rxLock >= -1 /\ Pending(rxLock) \in Int
           /\ Pending(txLock) >= 0 /\ Pending(rxLock) >= 0
  <1>1. /\ waiting \in 0..Length
        /\ txLock \in Int /\ txLock >= -1
        /\ rxLock \in Int /\ rxLock >= -1
    BY DEF TypeOK, queueUNLOCKED
  <1>2. Length \in Int /\ waiting \in Int /\ Length - waiting \in Int
    BY <1>1, QueueAssumption
  <1>3. Pending(txLock) \in Int /\ Pending(txLock) >= 0
    BY <1>1 DEF Pending, queueUNLOCKED
  <1>4. Pending(rxLock) \in Int /\ Pending(rxLock) >= 0
    BY <1>1 DEF Pending, queueUNLOCKED
  <1> QED
    BY <1>1, <1>2, <1>3, <1>4

\* The waiting tasks' cover with nothing changed but more tasks willing.
LEMMA CoverSame ==
    ASSUME TypeOK, Agreement, UNCHANGED <<toSend, toReceive, waiting>>,
           Pending(txLock') = Pending(txLock), Pending(rxLock') = Pending(rxLock),
           txLock' \in Int, rxLock' \in Int,
           WillingReceivers \subseteq WillingReceivers',
           WillingSenders \subseteq WillingSenders'
    PROVE  WakeInv'
  <1>1. /\ waiting \in Int /\ Length - waiting \in Int /\ txLock \in Int /\ rxLock \in Int
        /\ Pending(txLock) \in Int /\ Pending(rxLock) \in Int
    BY NumberTypes
  <1>2. /\ WillingReceivers \in SUBSET Tasks /\ WillingReceivers' \in SUBSET Tasks
        /\ WillingSenders \in SUBSET Tasks /\ WillingSenders' \in SUBSET Tasks
    BY DEF WillingReceivers, WillingSenders
  <1>3. Covered(toReceive', waiting', WillingReceivers', txLock')
    <2>1. Covered(toReceive, waiting, WillingReceivers, txLock)
      BY DEF Agreement, WakeInv
    <2>2. waiting - Pending(txLock') <= waiting - Pending(txLock)
      BY <1>1
    <2> QED
      BY <1>1, <1>2, <2>1, <2>2, CoverKept
  <1>4. Covered(toSend', Length - waiting', WillingSenders', rxLock')
    <2>1. Covered(toSend, Length - waiting, WillingSenders, rxLock)
      BY DEF Agreement, WakeInv
    <2>2. (Length - waiting) - Pending(rxLock') <= (Length - waiting) - Pending(rxLock)
      BY <1>1
    <2> QED
      BY <1>1, <1>2, <2>1, <2>2, CoverKept
  <1> QED
    BY <1>3, <1>4, Zenon DEF WakeInv, Covered, Pending, queueUNLOCKED

\* A call begins.
LEMMA CallStep ==
    ASSUME TypeOK, Agreement, NEW t \in Tasks, CallSend(t) \/ CallReceive(t)
    PROVE  Agreement'
  <1>1. /\ Moves(t, "try") /\ pc[t] = "out" /\ Runs(t)
        /\ UNCHANGED <<ring, lock, lists>>
        /\ Receives(t)' \/ call'[t].item \in Items
    BY CallSendEffect, CallReceiveEffect, Zenon DEF Agreement, CallSend, CallReceive
  <1>2. UNCHANGED <<toSend, toReceive, waiting, txLock, rxLock, suspender>>
    BY <1>1, Zenon DEF ring, lock, lists
  <1>3. ~In(t, toSend) /\ ~In(t, toReceive)
    BY <1>1, FreeToRun DEF Suspending
  <1>4. CallTypes' /\ LockTypes' /\ LockInv'
    BY <1>1, LockKept DEF Moves, Suspending
  <1>5. ListTypes'
    BY <1>2, Zenon DEF Agreement, ListTypes, EventList
  <1>6. \A u \in Tasks \ {t} : pc'[u] = pc[u] /\ call'[u] = call[u]
    BY <1>1 DEF Moves
  <1>7. CallInv'
    BY <1>1, <1>6, Zenon DEF Agreement, CallInv, Receives
  <1>8. WaitInv'
    BY <1>1, <1>2, <1>3, <1>6 DEF Agreement, WaitInv, Receives, In, Moves
  <1>9. PlaceInv'
    BY <1>1, <1>2, <1>6 DEF Agreement, PlaceInv, Receives, Moves
  <1>10. /\ WillingReceivers \subseteq WillingReceivers'
         /\ WillingSenders \subseteq WillingSenders'
    BY <1>1, <1>2, <1>6 DEF WillingReceivers, WillingSenders, Willing, Receives, In
  <1>11. WakeInv'
    BY <1>2, <1>10, CoverSame DEF TypeOK
  <1> QED
    BY <1>4, <1>5, <1>7, <1>8, <1>9, <1>11 DEF Agreement

\* Waking receivers for n items keeps the cover.
LEMMA WakeReceivers ==
    ASSUME TypeOK, Agreement, NEW n \in Nat, toReceive' = Woken(toReceive, n),
           waiting' \in Int, txLock' \in Int,
           waiting' - Pending(txLock') <= waiting - Pending(txLock) + n,
           \A u \in Tasks : In(u, toReceive) \/ u \in WillingReceivers =>
                                Receives(u)' /\ Willing(u)'
    PROVE  /\ EventList(toReceive')
           /\ \A u : In(u, toReceive') => In(u, toReceive)
           /\ Covered(toReceive', waiting', WillingReceivers', txLock')
  <1>1. /\ EventList(toReceive) /\ waiting \in Int /\ txLock \in Int
        /\ Covered(toReceive, waiting, WillingReceivers, txLock)
    BY QueueAssumption DEF TypeOK, Agreement, ListTypes, WakeInv
  <1>2. /\ EventList(toReceive')
        /\ \A u : In(u, toReceive') <=> In(u, toReceive) /\ u \notin Leaving(toReceive, n)
        /\ Leaving(toReceive, n) \subseteq Tasks
        /\ \A u \in Leaving(toReceive, n) : In(u, toReceive)
    BY <1>1, WokenProperties, Zenon
  <1>3. /\ WillingReceivers \in SUBSET Tasks /\ WillingReceivers' \in SUBSET Tasks
        /\ \A u \in WillingReceivers : ~In(u, toReceive)
    BY DEF WillingReceivers
  <1>4. WillingReceivers \subseteq WillingReceivers' /\ Leaving(toReceive, n) \subseteq WillingReceivers'
    BY <1>2, <1>3, Zenon DEF WillingReceivers
  <1>5. Covered(Woken(toReceive, n), waiting', WillingReceivers', txLock')
    BY <1>1, <1>3, <1>4, CoverWoken
  <1> QED
    BY <1>2, <1>5, Zenon

\* Waking senders for n free places keeps theirs.
LEMMA WakeSenders ==
    ASSUME TypeOK, Agreement, NEW n \in Nat, toSend' = Woken(toSend, n),
           waiting' \in Int, rxLock' \in Int,
           (Length - waiting') - Pending(rxLock') <= (Length - waiting) - Pending(rxLock) + n,
           \A u \in Tasks : In(u, toSend) \/ u \in WillingSenders =>
                                ~Receives(u)' /\ Willing(u)'
    PROVE  /\ EventList(toSend')
           /\ \A u : In(u, toSend') => In(u, toSend)
           /\ Covered(toSend', Length - waiting', WillingSenders', rxLock')
  <1>1. /\ EventList(toSend) /\ Length - waiting \in Int /\ Length - waiting' \in Int /\ rxLock \in Int
        /\ Covered(toSend, Length - waiting, WillingSenders, rxLock)
    BY QueueAssumption DEF TypeOK, Agreement, ListTypes, WakeInv
  <1>2. /\ EventList(toSend')
        /\ \A u : In(u, toSend') <=> In(u, toSend) /\ u \notin Leaving(toSend, n)
        /\ Leaving(toSend, n) \subseteq Tasks
        /\ \A u \in Leaving(toSend, n) : In(u, toSend)
    BY <1>1, WokenProperties, Zenon
  <1>3. /\ WillingSenders \in SUBSET Tasks /\ WillingSenders' \in SUBSET Tasks
        /\ \A u \in WillingSenders : ~In(u, toSend)
    BY DEF WillingSenders
  <1>4. WillingSenders \subseteq WillingSenders' /\ Leaving(toSend, n) \subseteq WillingSenders'
    BY <1>2, <1>3, Zenon DEF WillingSenders
  <1>5. Covered(Woken(toSend, n), Length - waiting', WillingSenders', rxLock')
    BY <1>1, <1>3, <1>4, CoverWoken
  <1> QED
    BY <1>2, <1>5, Zenon

\* A task on a list, or one that is willing, tries again when nothing happens to
\* its call.
LEMMA ListedAreWilling ==
    ASSUME Agreement, NEW u \in Tasks
    PROVE  /\ In(u, toReceive) \/ u \in WillingReceivers => Receives(u) /\ Willing(u)
           /\ In(u, toSend) \/ u \in WillingSenders => ~Receives(u) /\ Willing(u)
  BY DEF Agreement, WaitInv, WillingReceivers, WillingSenders, Willing

\* A task sends: it wakes one receiver and takes one free place from the senders.
LEMMA TrySendStep ==
    ASSUME TypeOK, Agreement, NEW t \in Tasks, TrySend(t)
    PROVE  Agreement'
  <1>1. /\ pc[t] = "try" /\ Runs(t) /\ ~Receives(t) /\ Moves(t, "out") /\ call'[t] = NoCall
        /\ toReceive' = Woken(toReceive, 1) /\ UNCHANGED <<lock, toSend>>
        /\ waiting' = waiting + 1
    BY ReturnEffect, Zenon DEF Agreement, TrySend, At, CopyDataToQueue
  <1>2. /\ suspender = None /\ ~In(t, toSend) /\ ~In(t, toReceive)
        /\ UNCHANGED <<txLock, rxLock, suspender>>
    BY <1>1, FreeToRun DEF Suspending, lock
  <1>3. /\ waiting \in Int /\ waiting' \in Int /\ Length \in Int /\ txLock \in Int /\ rxLock \in Int
        /\ Length - waiting' = (Length - waiting) - 1 /\ Length - waiting \in Int
        /\ Pending(txLock) \in Int
    BY <1>1, NumberTypes
  <1>4. CallTypes' /\ LockTypes' /\ LockInv'
    BY <1>1, LockKept DEF Moves, Suspending
  <1>5. \A u \in Tasks \ {t} : pc'[u] = pc[u] /\ call'[u] = call[u]
    BY <1>1 DEF Moves
  <1>6. \A u \in Tasks : In(u, toReceive) \/ u \in WillingReceivers =>
                             Receives(u)' /\ Willing(u)'
    BY <1>1, <1>2, <1>5, ListedAreWilling, Zenon DEF Receives, Willing
  <1>7. /\ EventList(toReceive')
        /\ \A u : In(u, toReceive') => In(u, toReceive)
        /\ Covered(toReceive', waiting', WillingReceivers', txLock')
    <2>1. waiting' - Pending(txLock') <= waiting - Pending(txLock) + 1
      BY <1>1, <1>2, <1>3
    <2> QED
      BY <1>1, <1>2, <1>3, <1>6, <2>1, WakeReceivers
  <1>8. Covered(toSend', Length - waiting', WillingSenders', rxLock')
    <2>1. t \in WillingSenders
      BY <1>1, <1>2 DEF WillingSenders, Willing
    <2>2. WillingSenders \ {t} \subseteq WillingSenders'
      BY <1>1, <1>5 DEF WillingSenders, Willing, Receives
    <2>3. Covered(toSend, Length - waiting, WillingSenders, rxLock)
      BY DEF Agreement, WakeInv
    <2>4. WillingSenders \in SUBSET Tasks /\ WillingSenders' \in SUBSET Tasks
      BY DEF WillingSenders
    <2>5. Covered(toSend, (Length - waiting) - 1, WillingSenders', rxLock)
      BY <1>3, <2>1, <2>2, <2>3, <2>4, CoverServed
    <2> QED
      BY <1>1, <1>2, <1>3, <2>5
  <1>9. CallInv'
    BY <1>1, <1>5 DEF Agreement, CallInv, Receives, NoCall
  <1>10. WaitInv'
    <2>1. \A u \in Tasks \ {t} : Receives(u)' = Receives(u)
      BY <1>5 DEF Receives
    <2>2. pc'[t] = "out"
      BY <1>1 DEF Moves
    <2> QED
      BY <1>1, <1>2, <1>5, <1>7, <2>1, <2>2 DEF Agreement, WaitInv
  <1>11. PlaceInv'
    BY <1>1, <1>2, <1>5, QueueAssumption DEF Agreement, PlaceInv, LockInv, Suspending, Moves
  <1>12. ListTypes'
    BY <1>1, <1>7, Zenon DEF Agreement, ListTypes, EventList
  <1>13. WakeInv'
    BY <1>7, <1>8, Zenon DEF WakeInv, Covered, Pending, queueUNLOCKED
  <1> QED
    BY <1>4, <1>9, <1>10, <1>11, <1>12, <1>13 DEF Agreement

\* A task receives: it wakes one sender and takes one item from the receivers.
LEMMA TryReceiveStep ==
    ASSUME TypeOK, Agreement, NEW t \in Tasks, TryReceive(t)
    PROVE  Agreement'
  <1>1. /\ pc[t] = "try" /\ Runs(t) /\ Receives(t) /\ Moves(t, "out") /\ call'[t] = NoCall
        /\ toSend' = Woken(toSend, 1) /\ UNCHANGED <<lock, toReceive>>
        /\ waiting' = waiting - 1
    BY ReturnEffect, Zenon DEF Agreement, TryReceive, At, CopyDataFromQueue
  <1>2. /\ suspender = None /\ ~In(t, toSend) /\ ~In(t, toReceive)
        /\ UNCHANGED <<txLock, rxLock, suspender>>
    BY <1>1, FreeToRun DEF Suspending, lock
  <1>3. /\ waiting \in Int /\ waiting' \in Int /\ Length \in Int /\ txLock \in Int /\ rxLock \in Int
        /\ Length - waiting' = (Length - waiting) + 1 /\ Length - waiting \in Int
        /\ Pending(rxLock) \in Int
    BY <1>1, NumberTypes
  <1>4. CallTypes' /\ LockTypes' /\ LockInv'
    BY <1>1, LockKept DEF Moves, Suspending
  <1>5. \A u \in Tasks \ {t} : pc'[u] = pc[u] /\ call'[u] = call[u]
    BY <1>1 DEF Moves
  <1>6. \A u \in Tasks : In(u, toSend) \/ u \in WillingSenders =>
                             ~Receives(u)' /\ Willing(u)'
    BY <1>1, <1>2, <1>5, ListedAreWilling, Zenon DEF Receives, Willing
  <1>7. /\ EventList(toSend')
        /\ \A u : In(u, toSend') => In(u, toSend)
        /\ Covered(toSend', Length - waiting', WillingSenders', rxLock')
    <2>1. (Length - waiting') - Pending(rxLock') <= (Length - waiting) - Pending(rxLock) + 1
      BY <1>1, <1>2, <1>3
    <2> QED
      BY <1>1, <1>2, <1>3, <1>6, <2>1, WakeSenders
  <1>8. Covered(toReceive', waiting', WillingReceivers', txLock')
    <2>1. t \in WillingReceivers
      BY <1>1, <1>2 DEF WillingReceivers, Willing
    <2>2. WillingReceivers \ {t} \subseteq WillingReceivers'
      BY <1>1, <1>5 DEF WillingReceivers, Willing, Receives
    <2>3. Covered(toReceive, waiting, WillingReceivers, txLock)
      BY DEF Agreement, WakeInv
    <2>4. WillingReceivers \in SUBSET Tasks /\ WillingReceivers' \in SUBSET Tasks
      BY DEF WillingReceivers
    <2>5. Covered(toReceive, waiting - 1, WillingReceivers', txLock)
      BY <1>3, <2>1, <2>2, <2>3, <2>4, CoverServed
    <2> QED
      BY <1>1, <1>2, <1>3, <2>5
  <1>9. CallInv'
    BY <1>1, <1>5 DEF Agreement, CallInv, Receives, NoCall
  <1>10. WaitInv'
    <2>1. \A u \in Tasks \ {t} : Receives(u)' = Receives(u)
      BY <1>5 DEF Receives
    <2>2. pc'[t] = "out"
      BY <1>1 DEF Moves
    <2> QED
      BY <1>1, <1>2, <1>5, <1>7, <2>1, <2>2 DEF Agreement, WaitInv
  <1>11. PlaceInv'
    BY <1>1, <1>2, <1>5, QueueAssumption DEF Agreement, PlaceInv, LockInv, Suspending, Moves
  <1>12. ListTypes'
    BY <1>1, <1>7, Zenon DEF Agreement, ListTypes, EventList
  <1>13. WakeInv'
    BY <1>7, <1>8, Zenon DEF WakeInv, Covered, Pending, queueUNLOCKED
  <1> QED
    BY <1>4, <1>9, <1>10, <1>11, <1>12, <1>13 DEF Agreement

\* A step of one task that leaves the ring and the lists alone.
LEMMA QuietStep ==
    ASSUME Agreement, NEW t \in Tasks, NEW place, Moves(t, place),
           UNCHANGED <<toSend, toReceive, waiting>>,
           LockTypes', LockInv', WakeInv',
           Receives(t)' \/ (call'[t].op = call[t].op /\ call'[t].item = call[t].item),
           place \in {"lock", "look", "place"} => call'[t].wait # "none",
           In(t, toReceive) \/ In(t, toSend) =>
               /\ place \in {"try", "unlockTx", "unlockRx", "resume"}
               /\ call'[t].wait # "none"
               /\ call'[t].op = call[t].op,
           \A u \in Tasks \ {t} : pc[u] # "place",
           place = "place" =>
               IF Receives(t)' THEN waiting' <= txLock' ELSE Length - waiting' <= rxLock'
    PROVE  Agreement'
  <1>1. /\ CallTypes' /\ pc'[t] = place
        /\ \A u \in Tasks \ {t} : pc'[u] = pc[u] /\ call'[u] = call[u]
    BY DEF Moves
  <1>2. \A u \in Tasks \ {t} : Receives(u)' = Receives(u)
    BY <1>1 DEF Receives
  <1>3. ListTypes'
    BY Zenon DEF Agreement, ListTypes, EventList
  <1>4. CallInv'
    BY <1>1, <1>2 DEF Agreement, CallInv, Receives
  <1>5. WaitInv'
    <2>1. \A u : /\ In(u, toReceive)' = In(u, toReceive)
                /\ In(u, toSend)' = In(u, toSend)
      BY DEF In
    <2>2. call'[t].op = call[t].op => Receives(t)' = Receives(t)
      BY DEF Receives
    <2> QED
      BY <1>1, <1>2, <2>1, <2>2 DEF Agreement, WaitInv
  <1>6. PlaceInv'
    BY <1>1 DEF PlaceInv
  <1> QED
    BY <1>1, <1>3, <1>4, <1>5, <1>6 DEF Agreement

\* Nothing there, nothing to cover.
LEMMA CoverNone ==
    ASSUME NEW list, NEW a \in Int, NEW A \in SUBSET Tasks, NEW c \in Int, c >= queueUNLOCKED,
           a <= Pending(c)
    PROVE  Covered(list, a, A, c)
  <1>1. Cardinality(A) \in Nat
    BY TaskSets
  <1> QED
    BY <1>1 DEF Covered, Pending, queueUNLOCKED

\* Full or empty.
LEMMA TryFailsStep ==
    ASSUME TypeOK, Agreement, NEW t \in Tasks, TryFails(t)
    PROVE  Agreement'
  <1>1. /\ pc[t] = "try" /\ Runs(t) /\ UNCHANGED <<ring, lock, lists>>
        /\ IF Receives(t) THEN waiting = 0 ELSE waiting = Length
    BY Zenon DEF TryFails, At
  <1>2. /\ suspender = None /\ ~In(t, toSend) /\ ~In(t, toReceive)
        /\ UNCHANGED <<txLock, rxLock, suspender, waiting, toSend, toReceive>>
    BY <1>1, FreeToRun DEF Suspending, lock, ring, lists
  <1>3. PICK place \in {"out", "lock"} :
            /\ Moves(t, place)
            /\ place = "out" => call'[t] = NoCall
            /\ place = "lock" => call' = call /\ call[t].wait # "none"
    BY GotoEffect, ReturnEffect DEF Agreement, TryFails, Places
  <1>4. LockTypes' /\ LockInv'
    BY <1>1, <1>3, LockKept DEF Suspending
  <1>5. \A u \in Tasks \ {t} : pc'[u] = pc[u] /\ call'[u] = call[u]
    BY <1>3 DEF Moves
  <1>6. /\ waiting \in Int /\ Length - waiting \in Int /\ txLock \in Int /\ rxLock \in Int
        /\ txLock >= queueUNLOCKED /\ rxLock >= queueUNLOCKED
        /\ Pending(txLock) >= 0 /\ Pending(rxLock) >= 0
        /\ Pending(txLock) \in Int /\ Pending(rxLock) \in Int
    BY NumberTypes DEF Pending, queueUNLOCKED
  <1>7. /\ WillingReceivers \in SUBSET Tasks /\ WillingReceivers' \in SUBSET Tasks
        /\ WillingSenders \in SUBSET Tasks /\ WillingSenders' \in SUBSET Tasks
    BY DEF WillingReceivers, WillingSenders
  <1>8. Covered(toReceive', waiting', WillingReceivers', txLock')
    <2>1. CASE Receives(t)
      BY <1>1, <1>2, <1>6, <1>7, <2>1, CoverNone
    <2>2. CASE ~Receives(t)
      <3>1. WillingReceivers \subseteq WillingReceivers'
        BY <1>2, <1>5, <2>2 DEF WillingReceivers, Willing, Receives
      <3> QED
        BY <1>2, <1>6, <1>7, <3>1, CoverKept DEF Agreement, WakeInv
    <2> QED
      BY <2>1, <2>2
  <1>9. Covered(toSend', Length - waiting', WillingSenders', rxLock')
    <2>1. CASE ~Receives(t)
      <3>1. Length - waiting = 0
        BY <1>1, <2>1, QueueAssumption
      <3> QED
        BY <1>2, <1>6, <1>7, <3>1, CoverNone
    <2>2. CASE Receives(t)
      <3>1. WillingSenders \subseteq WillingSenders'
        BY <1>2, <1>5, <2>2 DEF WillingSenders, Willing, Receives
      <3> QED
        BY <1>2, <1>6, <1>7, <3>1, CoverKept DEF Agreement, WakeInv
    <2> QED
      BY <2>1, <2>2
  <1>10. WakeInv'
    BY <1>8, <1>9, Zenon DEF WakeInv, Covered, Pending, queueUNLOCKED
  <1>11. \A u \in Tasks \ {t} : pc[u] # "place"
    BY <1>2, QueueAssumption DEF Agreement, LockInv, Suspending
  <1>12. Receives(t)' \/ (call'[t].op = call[t].op /\ call'[t].item = call[t].item)
    BY <1>3 DEF Receives, NoCall
  <1> QED
    BY <1>2, <1>3, <1>4, <1>10, <1>11, <1>12, QuietStep

\* The task suspends the scheduler and locks the queue.
LEMMA LockQueueStep ==
    ASSUME TypeOK, Agreement, NEW t \in Tasks, LockQueue(t)
    PROVE  Agreement'
  <1>1. /\ pc[t] = "lock" /\ Runs(t) /\ UNCHANGED <<ring, lists>> /\ suspender' = t
        /\ txLock' = IF txLock = queueUNLOCKED THEN queueLOCKED_UNMODIFIED ELSE txLock
        /\ rxLock' = IF rxLock = queueUNLOCKED THEN queueLOCKED_UNMODIFIED ELSE rxLock
    BY Zenon DEF LockQueue, At
  <1>2. /\ suspender = None /\ ~In(t, toSend) /\ ~In(t, toReceive)
        /\ txLock = queueUNLOCKED /\ rxLock = queueUNLOCKED
        /\ UNCHANGED <<waiting, toSend, toReceive>>
    BY <1>1, FreeToRun DEF Suspending, ring, lists
  <1>3. txLock' = 0 /\ rxLock' = 0
    BY <1>1, <1>2 DEF queueLOCKED_UNMODIFIED
  <1>4. PICK place \in {"look", "unlockTx"} :
            /\ Moves(t, place)
            /\ place = "look" => call'[t].wait = call[t].wait
            /\ place = "unlockTx" => call'[t].wait = "none"
            /\ call'[t].op = call[t].op /\ call'[t].item = call[t].item
    BY LockQueueEffect DEF Agreement
  <1>5. pc'[t] = place /\ \A u \in Tasks \ {t} : pc'[u] = pc[u] /\ call'[u] = call[u]
    BY <1>4 DEF Moves
  <1>6. \A u \in Tasks : pc[u] \notin Suspending
    BY <1>2, QueueAssumption DEF Agreement, LockInv
  <1>7. LockTypes' /\ LockInv'
    <2>1. LockTypes'
      BY <1>1, <1>3 DEF LockTypes, queueUNLOCKED
    <2>2. \A u \in Tasks : suspender' = u <=> pc'[u] \in Suspending
      BY <1>1, <1>5, <1>6 DEF Suspending
    <2>3. suspender' # None
      BY <1>1, QueueAssumption
    <2>4. /\ txLock' # queueUNLOCKED /\ rxLock' # queueUNLOCKED
          /\ pc'[t] \in LockingTx /\ pc'[t] \in LockingRx
      BY <1>3, <1>5 DEF queueUNLOCKED, LockingTx, LockingRx
    <2> QED
      BY <1>1, <2>1, <2>2, <2>3, <2>4, Zenon DEF LockInv, queueUNLOCKED, Suspending,
         LockingTx, LockingRx
  <1>8. WakeInv'
    <2>1. /\ WillingReceivers \subseteq WillingReceivers'
          /\ WillingSenders \subseteq WillingSenders'
      BY <1>1, <1>2, <1>5 DEF WillingReceivers, WillingSenders, Willing, Receives
    <2>2. Pending(txLock') = Pending(txLock) /\ Pending(rxLock') = Pending(rxLock)
      BY <1>2, <1>3 DEF Pending, queueUNLOCKED
    <2> QED
      BY <1>2, <1>3, <2>1, <2>2, CoverSame
  <1>9. call[t].wait # "none"
    BY <1>1 DEF Agreement, WaitInv
  <1>10. \A u \in Tasks \ {t} : pc[u] # "place"
    BY <1>6 DEF Suspending
  <1> QED
    BY <1>2, <1>4, <1>7, <1>8, <1>9, <1>10, QuietStep

\* The task looks at the queue once more before it waits.
LEMMA LookStep ==
    ASSUME TypeOK, Agreement, NEW t \in Tasks, Look(t)
    PROVE  Agreement'
  <1>1. /\ pc[t] = "look" /\ UNCHANGED <<ring, lock, lists>>
    BY Zenon DEF Look, At
  <1>2. /\ suspender = t /\ \A u \in Tasks \ {t} : pc[u] \notin Suspending
        /\ txLock # queueUNLOCKED /\ rxLock # queueUNLOCKED
        /\ UNCHANGED <<txLock, rxLock, suspender, waiting, toSend, toReceive>>
    BY <1>1, Alone DEF Suspending, LockingTx, LockingRx, ring, lock, lists
  <1>3. PICK place \in {"place", "unlockTx"} :
            /\ Moves(t, place)
            /\ call' = call
            /\ place = "place" => waiting = IF Receives(t) THEN 0 ELSE Length
    BY GotoEffect DEF Agreement, Look, Places
  <1>4. pc'[t] = place /\ \A u \in Tasks \ {t} : pc'[u] = pc[u] /\ call'[u] = call[u]
    BY <1>3 DEF Moves
  <1>5. txLock \in Int /\ rxLock \in Int /\ txLock >= 0 /\ rxLock >= 0
    BY <1>2 DEF TypeOK, queueUNLOCKED
  <1>6. LockTypes' /\ LockInv'
    <2>1. LockTypes'
      BY <1>2 DEF Agreement, LockTypes, queueUNLOCKED
    <2>2. \A u \in Tasks : suspender' = u <=> pc'[u] \in Suspending
      BY <1>2, <1>4 DEF Suspending
    <2>3. suspender' # None
      BY <1>2, QueueAssumption
    <2>4. pc'[t] \in LockingTx /\ pc'[t] \in LockingRx
      BY <1>4 DEF LockingTx, LockingRx
    <2> QED
      BY <1>2, <2>1, <2>2, <2>3, <2>4, Zenon DEF LockInv, queueUNLOCKED, Suspending,
         LockingTx, LockingRx
  <1>7. WakeInv'
    <2>1. /\ WillingReceivers \subseteq WillingReceivers'
          /\ WillingSenders \subseteq WillingSenders'
      BY <1>1, <1>2, <1>4 DEF WillingReceivers, WillingSenders, Willing, Receives
    <2> QED
      BY <1>2, <1>5, <2>1, CoverSame
  <1>8. call[t].wait # "none" /\ ~In(t, toReceive) /\ ~In(t, toSend)
    BY <1>1 DEF Agreement, WaitInv
  <1>9. \A u \in Tasks \ {t} : pc[u] # "place"
    BY <1>2 DEF Suspending
  <1>10. place = "place" =>
             IF Receives(t)' THEN waiting' <= txLock' ELSE Length - waiting' <= rxLock'
    BY <1>2, <1>3, <1>5, QueueAssumption DEF Receives
  <1> QED
    BY <1>2, <1>3, <1>6, <1>7, <1>8, <1>9, <1>10, QuietStep

\* The task goes on the event list of its call: what came meanwhile the lock has
\* counted.
LEMMA PlaceStep ==
    ASSUME TypeOK, Agreement, NEW t \in Tasks, Place(t)
    PROVE  Agreement'
  <1>1. /\ pc[t] = "place" /\ UNCHANGED <<ring, lock>> /\ Goto(t, "unlockTx")
        /\ IF Receives(t)
           THEN toReceive' = PlaceOnEventList(t, toReceive) /\ UNCHANGED toSend
           ELSE toSend' = PlaceOnEventList(t, toSend) /\ UNCHANGED toReceive
    BY Zenon DEF Place, At
  <1>2. /\ suspender = t /\ \A u \in Tasks \ {t} : pc[u] \notin Suspending
        /\ txLock # queueUNLOCKED /\ rxLock # queueUNLOCKED
        /\ UNCHANGED <<txLock, rxLock, suspender, waiting>>
    BY <1>1, Alone DEF Suspending, LockingTx, LockingRx, ring, lock
  <1>3. Moves(t, "unlockTx") /\ call' = call
    BY <1>1, GotoEffect DEF Agreement, Places
  <1>4. /\ CallTypes' /\ pc'[t] = "unlockTx"
        /\ \A u \in Tasks \ {t} : pc'[u] = pc[u] /\ call'[u] = call[u]
    BY <1>3 DEF Moves
  <1>5. /\ txLock \in Int /\ rxLock \in Int /\ txLock >= 0 /\ rxLock >= 0
        /\ waiting \in Int /\ Length - waiting \in Int
        /\ Pending(txLock) = txLock /\ Pending(rxLock) = rxLock
    BY <1>2, NumberTypes DEF Pending, queueUNLOCKED
  <1>6. call[t].wait # "none" /\ ~In(t, toReceive) /\ ~In(t, toSend)
    BY <1>1 DEF Agreement, WaitInv
  <1>7. /\ EventList(toReceive) /\ EventList(toSend)
        /\ IF Receives(t) THEN waiting <= txLock ELSE Length - waiting <= rxLock
    BY <1>1 DEF Agreement, ListTypes, PlaceInv
  <1>8. /\ EventList(toReceive') /\ EventList(toSend')
        /\ \A u : In(u, toReceive') <=> In(u, toReceive) \/ (u = t /\ Receives(t))
        /\ \A u : In(u, toSend') <=> In(u, toSend) \/ (u = t /\ ~Receives(t))
    <2>1. CASE Receives(t)
      <3>1. toReceive' = PlaceOnEventList(t, toReceive) /\ toSend' = toSend
        BY <1>1, <2>1, Zenon
      <3>2. /\ EventList(PlaceOnEventList(t, toReceive))
            /\ \A u : In(u, PlaceOnEventList(t, toReceive)) <=> u = t \/ In(u, toReceive)
        BY <1>6, <1>7, PlaceProperties
      <3> QED
        BY <1>7, <2>1, <3>1, <3>2, Zenon
    <2>2. CASE ~Receives(t)
      <3>1. toSend' = PlaceOnEventList(t, toSend) /\ toReceive' = toReceive
        BY <1>1, <2>2, Zenon
      <3>2. /\ EventList(PlaceOnEventList(t, toSend))
            /\ \A u : In(u, PlaceOnEventList(t, toSend)) <=> u = t \/ In(u, toSend)
        BY <1>6, <1>7, PlaceProperties
      <3> QED
        BY <1>7, <2>2, <3>1, <3>2, Zenon
    <2> QED
      BY <2>1, <2>2
  <1>9. LockTypes' /\ LockInv'
    <2>1. LockTypes'
      BY <1>2 DEF Agreement, LockTypes, queueUNLOCKED
    <2>2. \A u \in Tasks : suspender' = u <=> pc'[u] \in Suspending
      BY <1>2, <1>4 DEF Suspending
    <2>3. suspender' # None
      BY <1>2, QueueAssumption
    <2>4. pc'[t] \in LockingTx /\ pc'[t] \in LockingRx
      BY <1>4 DEF LockingTx, LockingRx
    <2> QED
      BY <1>2, <2>1, <2>2, <2>3, <2>4, Zenon DEF LockInv, queueUNLOCKED, Suspending,
         LockingTx, LockingRx
  <1>10. /\ WillingReceivers \in SUBSET Tasks /\ WillingReceivers' \in SUBSET Tasks
         /\ WillingSenders \in SUBSET Tasks /\ WillingSenders' \in SUBSET Tasks
    BY DEF WillingReceivers, WillingSenders
  <1>11. t \notin WillingReceivers /\ t \notin WillingSenders
    BY <1>1 DEF WillingReceivers, WillingSenders, Willing
  <1>12. /\ WillingReceivers \subseteq WillingReceivers'
         /\ WillingSenders \subseteq WillingSenders'
    BY <1>4, <1>8, <1>11, Zenon DEF WillingReceivers, WillingSenders, Willing, Receives
  <1>13. Covered(toReceive', waiting', WillingReceivers', txLock')
    <2>1. CASE Receives(t)
      BY <1>2, <1>5, <1>7, <1>10, <2>1, CoverNone DEF queueUNLOCKED
    <2>2. CASE ~Receives(t)
      <3>1. UNCHANGED toReceive
        BY <1>1, <2>2, Zenon
      <3> QED
        BY <1>2, <1>5, <1>10, <1>12, <3>1, CoverKept DEF Agreement, WakeInv
    <2> QED
      BY <2>1, <2>2
  <1>14. Covered(toSend', Length - waiting', WillingSenders', rxLock')
    <2>1. CASE ~Receives(t)
      BY <1>2, <1>5, <1>7, <1>10, <2>1, CoverNone DEF queueUNLOCKED
    <2>2. CASE Receives(t)
      <3>1. UNCHANGED toSend
        BY <1>1, <2>2, Zenon
      <3> QED
        BY <1>2, <1>5, <1>10, <1>12, <3>1, CoverKept DEF Agreement, WakeInv
    <2> QED
      BY <2>1, <2>2
  <1>15. WakeInv'
    BY <1>13, <1>14, Zenon DEF WakeInv, Covered, Pending, queueUNLOCKED
  <1>16. ListTypes'
    BY <1>8, Zenon DEF ListTypes, EventList
  <1>17. CallInv'
    BY <1>3, Zenon DEF Agreement, CallInv, Receives
  <1>18. WaitInv'
    <2>1. \A u \in Tasks : Receives(u)' = Receives(u) /\ call'[u].wait = call[u].wait
      BY <1>3 DEF Receives
    <2> QED
      BY <1>4, <1>6, <1>8, <2>1 DEF Agreement, WaitInv
  <1>19. PlaceInv'
    BY <1>2, <1>4 DEF PlaceInv, Suspending
  <1> QED
    BY <1>4, <1>9, <1>15, <1>16, <1>17, <1>18, <1>19 DEF Agreement

\* The first half of prvUnlockQueue makes up for the items that came.
LEMMA UnlockTxStep ==
    ASSUME TypeOK, Agreement, NEW t \in Tasks, UnlockTx(t)
    PROVE  Agreement'
  <1>1. /\ pc[t] = "unlockTx" /\ UNCHANGED <<ring, rxLock, suspender, toSend>>
        /\ Goto(t, "unlockRx") /\ toReceive' = Woken(toReceive, txLock)
        /\ txLock' = queueUNLOCKED
    BY Zenon DEF UnlockTx, At
  <1>2. /\ suspender = t /\ \A u \in Tasks \ {t} : pc[u] \notin Suspending
        /\ txLock # queueUNLOCKED /\ rxLock # queueUNLOCKED /\ UNCHANGED waiting
    BY <1>1, Alone DEF Suspending, LockingTx, LockingRx, ring
  <1>3. Moves(t, "unlockRx") /\ call' = call
    BY <1>1, GotoEffect DEF Agreement, Places
  <1>4. /\ CallTypes' /\ pc'[t] = "unlockRx"
        /\ \A u \in Tasks \ {t} : pc'[u] = pc[u] /\ call'[u] = call[u]
    BY <1>3 DEF Moves
  <1>5. /\ txLock \in Nat /\ rxLock \in Int /\ rxLock >= 0
        /\ waiting \in Int /\ Length - waiting \in Int
        /\ Pending(txLock) = txLock /\ Pending(rxLock) \in Int
        /\ txLock' \in Int /\ Pending(txLock') = 0
    BY <1>1, <1>2, NumberTypes DEF Pending, queueUNLOCKED
  <1>6. \A u \in Tasks : /\ Receives(u)' = Receives(u)
                         /\ Willing(u) => Willing(u)'
    BY <1>1, <1>3, <1>4 DEF Receives, Willing
  <1>7. /\ EventList(toReceive')
        /\ \A u : In(u, toReceive') => In(u, toReceive)
        /\ Covered(toReceive', waiting', WillingReceivers', txLock')
    <2>1. waiting' - Pending(txLock') <= waiting - Pending(txLock) + txLock
      BY <1>2, <1>5
    <2>2. \A u \in Tasks : In(u, toReceive) \/ u \in WillingReceivers =>
                               Receives(u)' /\ Willing(u)'
      BY <1>6, ListedAreWilling, Zenon
    <2> QED
      BY <1>1, <1>2, <1>5, <2>1, <2>2, WakeReceivers
  <1>8. Covered(toSend', Length - waiting', WillingSenders', rxLock')
    <2>1. WillingSenders \subseteq WillingSenders'
      BY <1>1, <1>6 DEF WillingSenders
    <2>2. WillingSenders \in SUBSET Tasks /\ WillingSenders' \in SUBSET Tasks
      BY DEF WillingSenders
    <2> QED
      BY <1>1, <1>2, <1>5, <2>1, <2>2, CoverKept DEF Agreement, WakeInv
  <1>9. LockTypes' /\ LockInv'
    <2>1. LockTypes'
      BY <1>1 DEF Agreement, LockTypes, queueUNLOCKED
    <2>2. \A u \in Tasks : suspender' = u <=> pc'[u] \in Suspending
      BY <1>1, <1>2, <1>4 DEF Suspending
    <2>3. suspender' # None
      BY <1>1, <1>2, QueueAssumption
    <2>4. pc'[t] \notin LockingTx /\ pc'[t] \in LockingRx
      BY <1>4 DEF LockingTx, LockingRx
    <2> QED
      BY <1>1, <1>2, <2>1, <2>2, <2>3, <2>4, Zenon DEF LockInv, queueUNLOCKED, Suspending,
         LockingTx, LockingRx
  <1>10. WakeInv'
    BY <1>7, <1>8, Zenon DEF WakeInv, Covered, Pending, queueUNLOCKED
  <1>11. ListTypes'
    BY <1>1, <1>7, Zenon DEF Agreement, ListTypes, EventList
  <1>12. CallInv'
    BY <1>3, Zenon DEF Agreement, CallInv, Receives
  <1>13. WaitInv'
    BY <1>1, <1>3, <1>4, <1>6, <1>7 DEF Agreement, WaitInv
  <1>14. PlaceInv'
    BY <1>2, <1>4 DEF PlaceInv, Suspending
  <1> QED
    BY <1>4, <1>9, <1>10, <1>11, <1>12, <1>13, <1>14 DEF Agreement

\* The second half makes up for the places that became free.
LEMMA UnlockRxStep ==
    ASSUME TypeOK, Agreement, NEW t \in Tasks, UnlockRx(t)
    PROVE  Agreement'
  <1>1. /\ pc[t] = "unlockRx" /\ UNCHANGED <<ring, txLock, suspender, toReceive>>
        /\ Goto(t, "resume") /\ toSend' = Woken(toSend, rxLock)
        /\ rxLock' = queueUNLOCKED
    BY Zenon DEF UnlockRx, At
  <1>2. /\ suspender = t /\ \A u \in Tasks \ {t} : pc[u] \notin Suspending
        /\ txLock = queueUNLOCKED /\ rxLock # queueUNLOCKED /\ UNCHANGED waiting
    BY <1>1, Alone DEF Suspending, LockingTx, LockingRx, ring
  <1>3. Moves(t, "resume") /\ call' = call
    BY <1>1, GotoEffect DEF Agreement, Places
  <1>4. /\ CallTypes' /\ pc'[t] = "resume"
        /\ \A u \in Tasks \ {t} : pc'[u] = pc[u] /\ call'[u] = call[u]
    BY <1>3 DEF Moves
  <1>5. /\ rxLock \in Nat /\ txLock \in Int
        /\ waiting \in Int /\ Length - waiting \in Int
        /\ Pending(rxLock) = rxLock /\ Pending(txLock) \in Int
        /\ rxLock' \in Int /\ Pending(rxLock') = 0
    BY <1>1, <1>2, NumberTypes DEF Pending, queueUNLOCKED
  <1>6. \A u \in Tasks : /\ Receives(u)' = Receives(u)
                         /\ Willing(u) => Willing(u)'
    BY <1>1, <1>3, <1>4 DEF Receives, Willing
  <1>7. /\ EventList(toSend')
        /\ \A u : In(u, toSend') => In(u, toSend)
        /\ Covered(toSend', Length - waiting', WillingSenders', rxLock')
    <2>1. (Length - waiting') - Pending(rxLock') <= (Length - waiting) - Pending(rxLock) + rxLock
      BY <1>2, <1>5
    <2>2. \A u \in Tasks : In(u, toSend) \/ u \in WillingSenders =>
                               ~Receives(u)' /\ Willing(u)'
      BY <1>6, ListedAreWilling, Zenon
    <2> QED
      BY <1>1, <1>2, <1>5, <2>1, <2>2, WakeSenders
  <1>8. Covered(toReceive', waiting', WillingReceivers', txLock')
    <2>1. WillingReceivers \subseteq WillingReceivers'
      BY <1>1, <1>6 DEF WillingReceivers
    <2>2. WillingReceivers \in SUBSET Tasks /\ WillingReceivers' \in SUBSET Tasks
      BY DEF WillingReceivers
    <2> QED
      BY <1>1, <1>2, <1>5, <2>1, <2>2, CoverKept DEF Agreement, WakeInv
  <1>9. LockTypes' /\ LockInv'
    <2>1. LockTypes'
      BY <1>1 DEF Agreement, LockTypes, queueUNLOCKED
    <2>2. \A u \in Tasks : suspender' = u <=> pc'[u] \in Suspending
      BY <1>1, <1>2, <1>4 DEF Suspending
    <2>3. suspender' # None
      BY <1>1, <1>2, QueueAssumption
    <2>4. pc'[t] \notin LockingTx /\ pc'[t] \notin LockingRx
      BY <1>4 DEF LockingTx, LockingRx
    <2> QED
      BY <1>1, <1>2, <2>1, <2>2, <2>3, <2>4, Zenon DEF LockInv, queueUNLOCKED, Suspending,
         LockingTx, LockingRx
  <1>10. WakeInv'
    BY <1>7, <1>8, Zenon DEF WakeInv, Covered, Pending, queueUNLOCKED
  <1>11. ListTypes'
    BY <1>1, <1>7, Zenon DEF Agreement, ListTypes, EventList
  <1>12. CallInv'
    BY <1>3, Zenon DEF Agreement, CallInv, Receives
  <1>13. WaitInv'
    BY <1>1, <1>3, <1>4, <1>6, <1>7 DEF Agreement, WaitInv
  <1>14. PlaceInv'
    BY <1>2, <1>4 DEF PlaceInv, Suspending
  <1> QED
    BY <1>4, <1>9, <1>10, <1>11, <1>12, <1>13, <1>14 DEF Agreement

\* The scheduler is resumed: a task on a list waits, others go on or give up.
LEMMA ResumeAllStep ==
    ASSUME TypeOK, Agreement, NEW t \in Tasks, ResumeAll(t)
    PROVE  Agreement'
  <1>1. /\ pc[t] = "resume" /\ UNCHANGED <<ring, txLock, rxLock, lists>> /\ suspender' = None
    BY Zenon DEF ResumeAll, At
  <1>2. /\ suspender = t /\ \A u \in Tasks \ {t} : pc[u] \notin Suspending
        /\ txLock = queueUNLOCKED /\ rxLock = queueUNLOCKED
        /\ UNCHANGED <<waiting, toSend, toReceive>>
    BY <1>1, Alone DEF Suspending, LockingTx, LockingRx, ring, lists
  <1>3. PICK place \in {"try", "recheck", "out"} :
            /\ Moves(t, place)
            /\ place # "out" => call' = call
            /\ place = "out" => call'[t] = NoCall
            /\ place = "try" <=> call[t].wait # "none"
    BY GotoEffect, ReturnEffect DEF Agreement, ResumeAll, Places
  <1>4. pc'[t] = place /\ \A u \in Tasks \ {t} : pc'[u] = pc[u] /\ call'[u] = call[u]
    BY <1>3 DEF Moves
  <1>5. LockTypes' /\ LockInv'
    <2>1. LockTypes'
      BY <1>1 DEF Agreement, LockTypes, queueUNLOCKED
    <2>2. \A u \in Tasks : pc'[u] \notin Suspending
      BY <1>2, <1>4 DEF Suspending
    <2>3. \A u \in Tasks : u # None
      BY QueueAssumption
    <2> QED
      BY <1>1, <1>2, <2>1, <2>2, <2>3, Zenon DEF LockInv, queueUNLOCKED, Suspending
  <1>6. In(t, toReceive) \/ In(t, toSend) => call[t].wait # "none"
    BY DEF Agreement, WaitInv
  <1>7. WakeInv'
    <2>1. \A u \in Tasks : Willing(u) => Willing(u)' /\ Receives(u)' = Receives(u)
      BY <1>1, <1>3, <1>4 DEF Willing, Receives
    <2>2. /\ WillingReceivers \subseteq WillingReceivers'
          /\ WillingSenders \subseteq WillingSenders'
      BY <1>2, <2>1 DEF WillingReceivers, WillingSenders
    <2> QED
      BY <1>1, <1>2, <2>2, CoverSame DEF TypeOK
  <1>8. \A u \in Tasks \ {t} : pc[u] # "place"
    BY <1>2 DEF Suspending
  <1>9. Receives(t)' \/ (call'[t].op = call[t].op /\ call'[t].item = call[t].item)
    BY <1>3 DEF Receives, NoCall
  <1> QED
    BY <1>2, <1>3, <1>5, <1>6, <1>7, <1>8, <1>9, QuietStep

\* xQueueReceive looks once more after its time-out.
LEMMA RecheckStep ==
    ASSUME TypeOK, Agreement, NEW t \in Tasks, Recheck(t)
    PROVE  Agreement'
  <1>1. pc[t] = "recheck" /\ Runs(t) /\ UNCHANGED <<ring, lock, lists>>
    BY Zenon DEF Recheck, At
  <1>2. /\ suspender = None /\ ~In(t, toSend) /\ ~In(t, toReceive)
        /\ UNCHANGED <<txLock, rxLock, suspender, waiting, toSend, toReceive>>
    BY <1>1, FreeToRun DEF Suspending, lock, ring, lists
  <1>3. PICK place \in {"out", "try"} :
            /\ Moves(t, place)
            /\ place = "out" => call'[t] = NoCall
            /\ place = "try" => call' = call
    BY GotoEffect, ReturnEffect DEF Agreement, Recheck, Places
  <1>4. LockTypes' /\ LockInv'
    BY <1>1, <1>3, LockKept DEF Suspending
  <1>5. pc'[t] = place /\ \A u \in Tasks \ {t} : pc'[u] = pc[u] /\ call'[u] = call[u]
    BY <1>3 DEF Moves
  <1>6. WakeInv'
    <2>1. /\ WillingReceivers \subseteq WillingReceivers'
          /\ WillingSenders \subseteq WillingSenders'
      BY <1>1, <1>2, <1>5 DEF WillingReceivers, WillingSenders, Willing, Receives
    <2> QED
      BY <1>2, <2>1, CoverSame DEF TypeOK
  <1>7. \A u \in Tasks \ {t} : pc[u] # "place"
    BY <1>2, QueueAssumption DEF Agreement, LockInv, Suspending
  <1>8. Receives(t)' \/ (call'[t].op = call[t].op /\ call'[t].item = call[t].item)
    BY <1>3 DEF Receives, NoCall
  <1> QED
    BY <1>2, <1>3, <1>4, <1>6, <1>7, <1>8, QuietStep

\* An interrupt changes no task: what is left to show about its step.
LEMMA InterruptStep ==
    ASSUME Agreement, UNCHANGED <<pc, call, suspender>>, CallTypes', LockTypes',
           EventList(toReceive'), EventList(toSend'),
           \A u : In(u, toReceive') => In(u, toReceive),
           \A u : In(u, toSend') => In(u, toSend),
           txLock' = queueUNLOCKED <=> txLock = queueUNLOCKED,
           rxLock' = queueUNLOCKED <=> rxLock = queueUNLOCKED,
           PlaceInv', WakeInv'
    PROVE  Agreement'
  <1>1. ListTypes'
    BY Zenon DEF ListTypes, EventList
  <1>2. CallInv'
    BY Zenon DEF Agreement, CallInv, Receives
  <1>3. LockInv'
    BY Zenon DEF Agreement, LockInv, Suspending, LockingTx, LockingRx, queueUNLOCKED
  <1>4. WaitInv'
    BY Zenon DEF Agreement, WaitInv, Receives
  <1> QED
    BY <1>1, <1>2, <1>3, <1>4 DEF Agreement

\* xQueueGenericSendFromISR wakes a receiver, or leaves that to the lock.
LEMMA SendFromISRStep ==
    ASSUME TypeOK, Agreement, NEW position \in CopyPositions, SendFromISR(position)
    PROVE  Agreement'
  <1>1. /\ waiting' = waiting + 1 /\ UNCHANGED <<rxLock, suspender, toSend, pc, call>>
        /\ offered' = offered + 1 /\ offered < MaxItems
        /\ IF txLock = queueUNLOCKED
           THEN toReceive' = Woken(toReceive, 1) /\ UNCHANGED txLock
           ELSE txLock' = txLock + 1 /\ UNCHANGED toReceive
    BY Zenon DEF SendFromISR, CopyDataToQueue
  <1>2. /\ waiting \in Int /\ waiting' \in Int /\ Length - waiting \in Int /\ Length \in Int
        /\ Length - waiting' \in Int /\ Length - waiting' <= Length - waiting
        /\ txLock \in Int /\ rxLock \in Int /\ txLock >= -1 /\ rxLock >= -1
        /\ txLock' \in Int /\ txLock' >= -1
        /\ Pending(txLock) \in Int /\ Pending(rxLock) \in Int
    BY <1>1, NumberTypes
  <1>3. CallTypes' /\ LockTypes'
    <2>1. offered' \in 0..MaxItems
      BY <1>1, ItemsOffered DEF Agreement
    <2>2. CallTypes'
      BY <1>1, <2>1, Zenon DEF Agreement, CallTypes
    <2> QED
      BY <1>1, <1>2, <2>2 DEF Agreement, LockTypes, queueUNLOCKED
  <1>4. \A u \in Tasks : /\ Receives(u)' = Receives(u)
                         /\ Willing(u)' = Willing(u)
    BY <1>1 DEF Receives, Willing
  <1>5. /\ WillingReceivers \in SUBSET Tasks /\ WillingReceivers' \in SUBSET Tasks
        /\ WillingSenders \in SUBSET Tasks /\ WillingSenders' \in SUBSET Tasks
    BY DEF WillingReceivers, WillingSenders
  <1>6. Covered(toSend', Length - waiting', WillingSenders', rxLock')
    <2>1. WillingSenders \subseteq WillingSenders'
      BY <1>1, <1>4 DEF WillingSenders
    <2>2. (Length - waiting') - Pending(rxLock) <= (Length - waiting) - Pending(rxLock)
      <3>1. \A x, y, z \in Int : x <= y => x - z <= y - z
        BY SMT
      <3> QED
        BY <1>2, <3>1, Zenon
    <2>3. Covered(toSend, Length - waiting, WillingSenders, rxLock)
      BY DEF Agreement, WakeInv
    <2>4. Covered(toSend, Length - waiting', WillingSenders', rxLock)
      BY <1>2, <1>5, <2>1, <2>2, <2>3, CoverKept
    <2> QED
      BY <1>1, <2>4
  <1>7. CASE txLock = queueUNLOCKED
    <2>1. UNCHANGED txLock /\ toReceive' = Woken(toReceive, 1)
      BY <1>1, <1>7, Zenon
    <2>2. /\ EventList(toReceive')
          /\ \A u : In(u, toReceive') => In(u, toReceive)
          /\ Covered(toReceive', waiting', WillingReceivers', txLock')
      <3>1. waiting' - Pending(txLock') <= waiting - Pending(txLock) + 1
        BY <1>1, <1>2, <2>1
      <3>2. \A u \in Tasks : In(u, toReceive) \/ u \in WillingReceivers =>
                                 Receives(u)' /\ Willing(u)'
        BY <1>4, ListedAreWilling, Zenon
      <3> QED
        BY <1>2, <2>1, <3>1, <3>2, WakeReceivers
    <2>3. WakeInv'
      BY <1>6, <2>2, Zenon DEF WakeInv, Covered, Pending, queueUNLOCKED
    <2>4. PlaceInv'
      <3>1. \A u \in Tasks : pc'[u] # "place"
        BY <1>1, <1>7 DEF Agreement, LockInv, Suspending, LockingTx
      <3> QED
        BY <3>1 DEF PlaceInv
    <2> QED
      BY <1>1, <1>3, <2>1, <2>2, <2>3, <2>4, InterruptStep DEF Agreement, ListTypes
  <1>8. CASE txLock # queueUNLOCKED
    <2>1. UNCHANGED toReceive /\ txLock' = txLock + 1 /\ txLock >= 0
      BY <1>1, <1>2, <1>8 DEF queueUNLOCKED
    <2>2. Covered(toReceive', waiting', WillingReceivers', txLock')
      <3>1. WillingReceivers \subseteq WillingReceivers'
        BY <1>4, <2>1 DEF WillingReceivers
      <3>2. waiting' - Pending(txLock') <= waiting - Pending(txLock)
        BY <1>1, <1>2, <2>1 DEF Pending, queueUNLOCKED
      <3>3. Covered(toReceive, waiting, WillingReceivers, txLock)
        BY DEF Agreement, WakeInv
      <3>4. Covered(toReceive, waiting', WillingReceivers', txLock')
        BY <1>2, <1>5, <3>1, <3>2, <3>3, CoverKept
      <3> QED
        BY <2>1, <3>4
    <2>3. WakeInv'
      BY <1>6, <2>2, Zenon DEF WakeInv, Covered, Pending, queueUNLOCKED
    <2>4. PlaceInv'
      BY <1>1, <1>2, <1>4, <2>1 DEF Agreement, PlaceInv
    <2>5. txLock' # queueUNLOCKED
      BY <1>2, <2>1 DEF queueUNLOCKED
    <2> QED
      BY <1>1, <1>3, <1>8, <2>1, <2>3, <2>4, <2>5, InterruptStep DEF Agreement, ListTypes
  <1> QED
    BY <1>7, <1>8

\* xQueueReceiveFromISR wakes a sender, or leaves that to the lock.
LEMMA ReceiveFromISRStep ==
    ASSUME TypeOK, Agreement, ReceiveFromISR
    PROVE  Agreement'
  <1>1. /\ waiting' = waiting - 1 /\ UNCHANGED <<txLock, suspender, toReceive, pc, calls>>
        /\ IF rxLock = queueUNLOCKED
           THEN toSend' = Woken(toSend, 1) /\ UNCHANGED rxLock
           ELSE rxLock' = rxLock + 1 /\ UNCHANGED toSend
    BY Zenon DEF ReceiveFromISR, CopyDataFromQueue
  <1>2. /\ waiting \in Int /\ waiting' \in Int /\ Length - waiting \in Int /\ Length \in Int
        /\ Length - waiting' \in Int /\ Length - waiting' = (Length - waiting) + 1
        /\ txLock \in Int /\ rxLock \in Int /\ txLock >= -1 /\ rxLock >= -1
        /\ rxLock' \in Int /\ rxLock' >= -1
        /\ Pending(txLock) \in Int /\ Pending(rxLock) \in Int
    BY <1>1, NumberTypes
  <1>3. CallTypes' /\ LockTypes' /\ UNCHANGED call
    <2>1. CallTypes' /\ UNCHANGED call
      BY <1>1, Zenon DEF Agreement, CallTypes, calls
    <2> QED
      BY <1>1, <1>2, <2>1 DEF Agreement, LockTypes, queueUNLOCKED
  <1>4. \A u \in Tasks : /\ Receives(u)' = Receives(u)
                         /\ Willing(u)' = Willing(u)
    BY <1>1, <1>3 DEF Receives, Willing
  <1>5. /\ WillingReceivers \in SUBSET Tasks /\ WillingReceivers' \in SUBSET Tasks
        /\ WillingSenders \in SUBSET Tasks /\ WillingSenders' \in SUBSET Tasks
    BY DEF WillingReceivers, WillingSenders
  <1>6. Covered(toReceive', waiting', WillingReceivers', txLock')
    <2>1. WillingReceivers \subseteq WillingReceivers'
      BY <1>1, <1>4 DEF WillingReceivers
    <2>2. waiting' - Pending(txLock) <= waiting - Pending(txLock)
      BY <1>1, <1>2
    <2>3. Covered(toReceive, waiting, WillingReceivers, txLock)
      BY DEF Agreement, WakeInv
    <2>4. Covered(toReceive, waiting', WillingReceivers', txLock)
      BY <1>2, <1>5, <2>1, <2>2, <2>3, CoverKept
    <2> QED
      BY <1>1, <2>4
  <1>7. CASE rxLock = queueUNLOCKED
    <2>1. UNCHANGED rxLock /\ toSend' = Woken(toSend, 1)
      BY <1>1, <1>7, Zenon
    <2>2. /\ EventList(toSend')
          /\ \A u : In(u, toSend') => In(u, toSend)
          /\ Covered(toSend', Length - waiting', WillingSenders', rxLock')
      <3>1. (Length - waiting') - Pending(rxLock') <= (Length - waiting) - Pending(rxLock) + 1
        <4>1. \A x, z \in Int : (x + 1) - z <= x - z + 1
          BY SMT
        <4>2. Length - waiting' = (Length - waiting) + 1 /\ Pending(rxLock') = Pending(rxLock)
          BY <1>2, <2>1
        <4> QED
          BY <1>2, <4>1, <4>2, Zenon
      <3>2. \A u \in Tasks : In(u, toSend) \/ u \in WillingSenders =>
                                 ~Receives(u)' /\ Willing(u)'
        BY <1>4, ListedAreWilling, Zenon
      <3> QED
        BY <1>2, <2>1, <3>1, <3>2, WakeSenders
    <2>3. WakeInv'
      BY <1>6, <2>2, Zenon DEF WakeInv, Covered, Pending, queueUNLOCKED
    <2>4. PlaceInv'
      <3>1. \A u \in Tasks : pc'[u] # "place"
        BY <1>1, <1>7 DEF Agreement, LockInv, Suspending, LockingRx
      <3> QED
        BY <3>1 DEF PlaceInv
    <2> QED
      BY <1>1, <1>3, <2>1, <2>2, <2>3, <2>4, InterruptStep DEF Agreement, ListTypes
  <1>8. CASE rxLock # queueUNLOCKED
    <2>1. UNCHANGED toSend /\ rxLock' = rxLock + 1 /\ rxLock >= 0
      BY <1>1, <1>2, <1>8 DEF queueUNLOCKED
    <2>2. Covered(toSend', Length - waiting', WillingSenders', rxLock')
      <3>1. WillingSenders \subseteq WillingSenders'
        BY <1>4, <2>1 DEF WillingSenders
      <3>2. (Length - waiting') - Pending(rxLock') <= (Length - waiting) - Pending(rxLock)
        <4>1. \A x, z \in Int : (x + 1) - (z + 1) <= x - z
          BY SMT
        <4>2. Length - waiting' = (Length - waiting) + 1
          BY <1>2
        <4>3. Pending(rxLock') = Pending(rxLock) + 1
          <5>1. \A c \in Int : c >= 0 => Pending(c) = c /\ Pending(c + 1) = c + 1
            BY SMT DEF Pending, queueUNLOCKED
          <5> QED
            BY <1>2, <2>1, <5>1, Zenon
        <4> QED
          BY <1>2, <4>1, <4>2, <4>3, Zenon
      <3>3. Covered(toSend, Length - waiting, WillingSenders, rxLock)
        BY DEF Agreement, WakeInv
      <3>4. Covered(toSend, Length - waiting', WillingSenders', rxLock')
        BY <1>2, <1>5, <3>1, <3>2, <3>3, CoverKept
      <3> QED
        BY <2>1, <3>4
    <2>3. WakeInv'
      BY <1>6, <2>2, Zenon DEF WakeInv, Covered, Pending, queueUNLOCKED
    <2>4. PlaceInv'
      BY <1>1, <1>2, <1>4, <2>1 DEF Agreement, PlaceInv
    <2>5. rxLock' # queueUNLOCKED
      BY <1>2, <2>1 DEF queueUNLOCKED
    <2> QED
      BY <1>1, <1>3, <1>8, <2>1, <2>3, <2>4, <2>5, InterruptStep DEF Agreement, ListTypes
  <1> QED
    BY <1>7, <1>8

\* The time of a call is up: the task is on no list any more and will try again.
LEMMA TimeOutStep ==
    ASSUME TypeOK, Agreement, NEW t \in Tasks, TimeOut(t)
    PROVE  Agreement'
  <1>1. /\ suspender = None /\ call[t].wait = "finite" /\ UNCHANGED <<ring, lock, pc>>
        /\ toSend' = Without(toSend, t) /\ toReceive' = Without(toReceive, t)
    BY Zenon DEF TimeOut
  <1>2. UNCHANGED <<txLock, rxLock, suspender, waiting, pc>>
    BY <1>1, Zenon DEF ring, lock
  <1>3. /\ Moves(t, pc[t])
        /\ call'[t].op = call[t].op /\ call'[t].item = call[t].item
        /\ call'[t].wait = call[t].wait
    BY TimeOutEffect DEF Agreement
  <1>4. /\ CallTypes'
        /\ \A u \in Tasks : call'[u].op = call[u].op /\ call'[u].item = call[u].item
                            /\ call'[u].wait = call[u].wait
    BY <1>3, Zenon DEF Moves
  <1>5. \A u \in Tasks : Receives(u)' = Receives(u) /\ Willing(u)' = Willing(u)
    BY <1>2, <1>4 DEF Receives, Willing
  <1>6. /\ EventList(toSend') /\ EventList(toReceive')
        /\ \A u : In(u, toSend') <=> u # t /\ In(u, toSend)
        /\ \A u : In(u, toReceive') <=> u # t /\ In(u, toReceive)
        /\ toSend' # <<>> => toSend # <<>>
        /\ toReceive' # <<>> => toReceive # <<>>
    BY <1>1, WithoutProperties, Zenon DEF Agreement, ListTypes
  <1>7. /\ waiting \in Int /\ Length - waiting \in Int /\ txLock \in Int /\ rxLock \in Int
        /\ Pending(txLock) \in Int /\ Pending(rxLock) \in Int
    BY NumberTypes
  <1>8. /\ WillingReceivers \in SUBSET Tasks /\ WillingReceivers' \in SUBSET Tasks
        /\ WillingSenders \in SUBSET Tasks /\ WillingSenders' \in SUBSET Tasks
        /\ WillingReceivers \subseteq WillingReceivers'
        /\ WillingSenders \subseteq WillingSenders'
    BY <1>5, <1>6, Zenon DEF WillingReceivers, WillingSenders
  <1>9. Covered(toReceive', waiting, WillingReceivers', txLock)
    <2>1. waiting - Pending(txLock) <= waiting - Pending(txLock)
      BY <1>7
    <2> QED
      BY <1>6, <1>7, <1>8, <2>1, CoverKept DEF Agreement, WakeInv
  <1>10. Covered(toSend', Length - waiting, WillingSenders', rxLock)
    <2>1. (Length - waiting) - Pending(rxLock) <= (Length - waiting) - Pending(rxLock)
      BY <1>7
    <2> QED
      BY <1>6, <1>7, <1>8, <2>1, CoverKept DEF Agreement, WakeInv
  <1>11. WakeInv'
    BY <1>2, <1>9, <1>10, Zenon DEF WakeInv, Covered, Pending, queueUNLOCKED
  <1>12. ListTypes'
    BY <1>6, Zenon DEF ListTypes, EventList
  <1>13. LockTypes' /\ LockInv'
    BY <1>2, Zenon DEF Agreement, LockTypes, LockInv, Suspending, LockingTx, LockingRx,
       queueUNLOCKED
  <1>14. CallInv' /\ PlaceInv'
    BY <1>2, <1>4, <1>5, Zenon DEF Agreement, CallInv, PlaceInv
  <1>15. WaitInv'
    BY <1>2, <1>4, <1>5, <1>6, Zenon DEF Agreement, WaitInv
  <1> QED
    BY <1>4, <1>11, <1>12, <1>13, <1>14, <1>15 DEF Agreement

-----------------------------------------------------------------------------
\* A new queue satisfies the invariant.
LEMMA InitIInv == Init => IInv
  <1> SUFFICES ASSUME Init PROVE IInv
    OBVIOUS
  <1>0. Length \in Nat \ {0} /\ MaxItems \in Nat
    BY QueueAssumption
  <1>1. RingTypes /\ LockTypes
    BY <1>0, SMT DEF Init, RingTypes, LockTypes, Slots, queueUNLOCKED
  <1>2. ListTypes
    <2>1. <<>> \in Seq(Tasks) /\ DOMAIN <<>> = {}
      BY EmptySeq
    <2> QED
      BY <2>1 DEF Init, ListTypes, EventList
  <1>3. CallTypes
    <2>1. NoCall \in Calls
      BY <1>0 DEF NoCall, Calls, AllWaits
    <2> QED
      BY <1>0, <2>1 DEF Init, CallTypes, Places
  <1>4. TypeOK
    BY <1>1, <1>2, <1>3, TypeParts
  <1>5. RingInv
    BY <1>0, SMT DEF Init, RingInv, Wrapped
  <1>6. CallInv
    BY DEF Init, CallInv, Receives, NoCall
  <1>7. LockInv /\ PlaceInv
    BY QueueAssumption DEF Init, LockInv, PlaceInv, Suspending
  <1>8. WaitInv
    <2>1. \A u : ~In(u, toReceive) /\ ~In(u, toSend)
      BY DEF Init, In
    <2> QED
      BY <2>1 DEF Init, WaitInv
  <1>9. WakeInv
    BY DEF Init, WakeInv, Covered
  <1> QED
    BY <1>4, <1>5, <1>6, <1>7, <1>8, <1>9 DEF IInv

\* The invariant is inductive.
LEMMA IInvStep ==
    ASSUME IInv, [Next]_vars
    PROVE  IInv'
  <1>1. TypeOK /\ RingInv /\ CallInv /\ Agreement
    BY TypeParts DEF IInv, Agreement
  <1>2. RingTypes' /\ RingInv'
    BY <1>1, RingStep
  <1>3. Agreement'
    <2>1. ASSUME NEW t \in Tasks, CallSend(t) \/ CallReceive(t) \/ TaskStep(t) \/ TimeOut(t)
          PROVE  Agreement'
      BY <1>1, <2>1, CallStep, TimeOutStep, TrySendStep, TryReceiveStep, TryFailsStep,
         LockQueueStep, LookStep, PlaceStep, UnlockTxStep, UnlockRxStep, ResumeAllStep,
         RecheckStep, Zenon DEF TaskStep
    <2>2. CASE UNCHANGED vars
      <3>1. UNCHANGED <<waiting, txLock, rxLock, suspender, toSend, toReceive, pc, call,
                        offered>>
        BY <2>2, Zenon DEF vars, ring, lock, lists, calls
      <3>2. LockTypes' /\ CallTypes'
        BY <1>1, <3>1 DEF Agreement, LockTypes, CallTypes
      <3>3. EventList(toReceive') /\ EventList(toSend')
        BY <1>1, <3>1, Zenon DEF Agreement, ListTypes
      <3>4. \A u : Receives(u)' = Receives(u) /\ Willing(u)' = Willing(u)
        BY <3>1, Zenon DEF Receives, Willing
      <3>5. PlaceInv'
        BY <1>1, <3>1, <3>4 DEF Agreement, PlaceInv
      <3>6. WillingReceivers' = WillingReceivers /\ WillingSenders' = WillingSenders
        BY <3>1, <3>4 DEF WillingReceivers, WillingSenders
      <3>7. WakeInv'
        BY <1>1, <3>1, <3>6, Zenon DEF Agreement, WakeInv, Covered, Pending, queueUNLOCKED
      <3> QED
        BY <1>1, <3>1, <3>2, <3>3, <3>5, <3>7, InterruptStep, Zenon
    <2> QED
      BY <1>1, <2>1, <2>2, SendFromISRStep, ReceiveFromISRStep, Zenon DEF Next
  <1> QED
    BY <1>2, <1>3, TypeParts DEF IInv, Agreement

\* Every reachable state satisfies the invariant.
LEMMA Invariance == Spec => []IInv
  BY InitIInv, IInvStep, PTL DEF Spec

\* Whatever interrupts send and take while a task is on its way to wait, with any
\* number of tasks, priorities and places: no wake-up is lost, and no lock or
\* list entry outlives its call.
THEOREM WakeUpsAreKept == Spec => []NoLostWakeUp
  <1>1. IInv => NoLostWakeUp
    <2> SUFFICES ASSUME IInv PROVE NoLostWakeUp
      OBVIOUS
    <2>1. TypeOK
      BY DEF IInv
    <2>2. LockDiscipline
      BY DEF IInv, LockInv, WaitInv, LockDiscipline
    <2>3. /\ WillingReceivers \subseteq ActiveReceivers /\ ActiveReceivers \in SUBSET Tasks
          /\ WillingSenders \subseteq ActiveSenders /\ ActiveSenders \in SUBSET Tasks
      BY DEF WillingReceivers, WillingSenders, Willing, ActiveReceivers, ActiveSenders
    <2>4. /\ Cardinality(WillingReceivers) \in Nat /\ Cardinality(ActiveReceivers) \in Nat
          /\ Cardinality(WillingSenders) \in Nat /\ Cardinality(ActiveSenders) \in Nat
          /\ Cardinality(WillingReceivers) <= Cardinality(ActiveReceivers)
          /\ Cardinality(WillingSenders) <= Cardinality(ActiveSenders)
      BY <2>3, TaskSets, Zenon
    <2>5. waiting \in Int /\ Length - waiting \in Int
      BY <2>1, QueueAssumption DEF TypeOK
    <2>6. ReceiversAreWoken
      BY <2>4, <2>5 DEF IInv, WakeInv, Covered, Pending, ReceiversAreWoken
    <2>7. SendersAreWoken
      BY <2>4, <2>5 DEF IInv, WakeInv, Covered, Pending, SendersAreWoken
    <2> QED
      BY <2>1, <2>2, <2>6, <2>7 DEF NoLostWakeUp
  <1> QED
    BY Invariance, <1>1, PTL

\* The ring with its wrapping pointers implements the bounded queue: items leave
\* from the front in the order the sends give them, none is lost, doubled or
\* overwritten.
THEOREM RingIsAQueue == Spec => IsBoundedQueue
  <1>1. Init => Bounded!Init
    <2> SUFFICES ASSUME Init PROVE Bounded!Init
      OBVIOUS
    <2>1. Content \in Seq(Items) /\ Len(Content) = 0
      BY InitIInv, TypeParts, ContentType DEF IInv, Init
    <2>2. Content = <<>>
      BY <2>1, EmptySeq, SeqEqual
    <2> QED
      BY <2>2 DEF Bounded!Init, Content, Init
  <1>2. IInv /\ [Next]_vars => [Bounded!Next]_(<<Content, taken>>)
    <2> SUFFICES ASSUME IInv, [Next]_vars
                 PROVE  [Bounded!Next]_(<<Content, taken>>)
      OBVIOUS
    <2>1. /\ \/ UNCHANGED <<Content, taken>>
             \/ /\ Content # <<>> /\ Content' = Tail(Content)
                /\ taken' = <<Head(Content)>>
             \/ /\ Len(Content) < Length /\ UNCHANGED taken
                /\ \E i \in Items : Content' \in {Append(Content, i), <<i>> \o Content}
      BY RingStep DEF IInv
    <2> QED
      BY <2>1, Zenon DEF Bounded!Next, Bounded!Take, Bounded!Put, Content
  <1>3. IsBoundedQueue <=> Bounded!Init /\ [][Bounded!Next]_(<<Content, taken>>)
    BY DEF IsBoundedQueue, Bounded!Spec, Content
  <1> QED
    BY <1>1, <1>2, <1>3, Invariance, PTL DEF Spec
=============================================================================
