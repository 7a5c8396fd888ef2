---------------------------- MODULE EthTxProofs ----------------------------
(***************************************************************************)
(* Proofs about the transmit path: whatever the interrupt preempts, the    *)
(* task never writes a buffer the DMA reads, a granted buffer is accepted, *)
(* the interrupt never looks up a cleared entry, no frame is confirmed     *)
(* twice or out of order, no completion is forgotten, and the wire carries *)
(* what was accepted, in order.                                            *)
(*                                                                         *)
(* The ring part says who restores Des0: a descriptor that lost its buffer *)
(* pointer to a time stamp still has it in Info0, or was reported early.   *)
(* The list part is the long one: the entries carry frame numbers          *)
(* (content), which grow along the list, so that a stale pNextBuffer or a  *)
(* request lost behind a dequeued entry can be told from a live one.       *)
(***************************************************************************)
EXTENDS EthTx, TLAPS

\* The task has been granted an entry and not yet put it into the list.
Entering == {"copy", "wild", "test_head", "set_head", "link_tail", "set_tail",
             "end_list"}

\* Entering, and the entry cannot be reached from the list yet.
Unlisted == {"copy", "wild", "test_head", "set_head", "link_tail"}

\* The frame has not been copied into the granted buffer.
Granted == {"copy", "wild"}

Settled(i) == bufData[i] # NULL /\ ~(i = bufIdx /\ pc \in Entering)

Linked(i) == Settled(i) /\ next[i] # NULL

\* Where the list ends, also between the two stores that append an entry.
ListTail == IF pc = "set_tail" THEN bufIdx ELSE qTail

RingInv ==
    /\ \A s \in Slots : /\ des0[s] \in {s, Stamp}
                        /\ own[s] => des0[s] = s
                        /\ own[s] \/ des0[s] = Stamp => s \in early \/ info0[s] = s
    /\ pc = "idle" => txCurrent = tail
    /\ pc # "idle" => tail = bufIdx /\ txCurrent = Successor(tail)
    /\ pc \in Entering \cup {"send", "give"} => ~own[bufIdx]
    /\ pc \in Granted => frameBuf = bufIdx \/ (frameBuf = Stamp /\ bufIdx \in early)
    /\ pc \notin {"idle"} \cup Granted => frameBuf = bufIdx
    /\ pc = "give" => /\ des0[bufIdx] = bufIdx
                      /\ bufIdx \in early \/ info0[bufIdx] = bufIdx

EntryInv ==
    /\ \A s \in Slots : /\ info0[s] \in {NULL, s}
                        /\ bufData[s] \in {NULL, s, Stamp}
                        /\ bufData[s] = Stamp => s = bufIdx /\ pc \in Granted
                        /\ locked[s] <=> bufData[s] # NULL
                        /\ info0[s] # NULL => bufData[s] # NULL
    /\ pc \in Entering \cup {"send"} => info0[bufIdx] = NULL /\ bufData[bufIdx] # NULL
    /\ pc \in Granted => frameBuf = bufData[bufIdx]

IrqInv == iter = IF inIrq THEN qHead ELSE NULL

NumberInv ==
    /\ \A b \in Slots : content[b] <= attempts
    /\ pc # "idle" => \A b \in Slots :
                         content[b] = attempts => b = bufIdx /\ pc \notin Granted
    /\ pc \notin {"idle"} \cup Granted => content[bufIdx] = attempts
    /\ \A i, j \in Slots : Settled(i) /\ Settled(j) /\ content[i] = content[j] => i = j

HeadInv ==
    /\ qHead # NULL => bufData[qHead] # NULL
    /\ pc \in Unlisted => qHead # bufIdx
    /\ pc = "set_head" => qHead = NULL

TailInv ==
    /\ qHead # NULL => /\ ListTail # NULL
                       /\ bufData[ListTail] # NULL
                       /\ content[qHead] <= content[ListTail]
    /\ pc \in Granted \cup {"test_head"} /\ qHead # NULL => qTail # bufIdx
    /\ pc = "link_tail" => /\ qTail # NULL
                           /\ qTail # bufIdx
                           /\ bufData[qTail] # NULL => qHead # NULL
    /\ pc = "end_list" => qTail = bufIdx
    /\ \A j \in Slots : Settled(j) => qTail # NULL /\ content[j] <= content[qTail]

LinkInv ==
    \A i \in Slots : Linked(i) =>
        /\ bufData[next[i]] # NULL
        /\ content[i] < content[next[i]]
        /\ content[next[i]] <= content[ListTail]
        /\ qHead # NULL
        /\ content[qHead] <= content[i]
        /\ next[i] = bufIdx => pc \notin Unlisted

ChainInv ==
    \A i \in Slots :
        (Settled(i) /\ qHead # NULL /\ content[qHead] <= content[i] /\ i # ListTail)
            => next[i] # NULL

GapInv ==
    \A i, j \in Slots : Linked(i) /\ Settled(j) =>
        content[j] <= content[i] \/ content[next[i]] <= content[j]

ConfirmInv ==
    /\ \A k \in DOMAIN confirmed : /\ confirmed[k] <= attempts
                                   /\ pc \in Entering => confirmed[k] < attempts
                                   /\ qHead # NULL => confirmed[k] < content[qHead]
    /\ ConfirmOnceInOrder

ListInv == HeadInv /\ TailInv /\ LinkInv /\ ChainInv /\ GapInv

IInv == TypeOK /\ RingInv /\ EntryInv /\ IrqInv /\ NumberInv /\ ListInv /\ ConfirmInv
-----------------------------------------------------------------------------
USE DEF Slots, Nullable, descriptors, requests, task, memory, Entering, Unlisted,
    Granted

\* Positions in the ring: neither NULL_PTR nor a time stamp is one of them, and the
\* successor of one is one.
LEMMA SlotFacts ==
    /\ NULL \notin Slots
    /\ Stamp \notin Slots
    /\ Stamp # NULL
    /\ 0 \in Slots
    /\ \A s \in Slots : Successor(s) \in Slots
BY RingAssumption DEF Successor

\* The zero-initialised ring and list satisfy the invariant.
LEMMA InitHolds == Init => IInv
<1> SUFFICES ASSUME Init PROVE IInv
  OBVIOUS
<1>1. TypeOK
  <2>1. accepted \in Seq(Nat) /\ wire \in Seq(Nat) /\ confirmed \in Seq(Nat)
    BY DEF Init
  <2> QED
    BY <2>1, SlotFacts DEF Init, TypeOK, TaskPositions
<1>2. RingInv /\ EntryInv /\ IrqInv /\ NumberInv
  BY SlotFacts DEF Init, RingInv, EntryInv, IrqInv, NumberInv, Settled
<1>3. ListInv
  BY SlotFacts DEF Init, ListInv, HeadInv, TailInv, LinkInv, ChainInv, GapInv,
     Settled, Linked, ListTail
<1>4. ConfirmInv
  BY DEF Init, ConfirmInv, ConfirmOnceInOrder
<1> QED
  BY <1>1, <1>2, <1>3, <1>4 DEF IInv

(***************************************************************************)
(* The steps of the task.                                                  *)
(***************************************************************************)
\* A refused request counts as an attempt and changes nothing else.
LEMMA ProvideBusyStep == ASSUME IInv, ProvideBusy PROVE IInv'
<1> USE DEF IInv, ListInv, ProvideBusy, TaskRuns
<1>1. TypeOK'
  <2>1. attempts' \in Nat
    BY DEF TypeOK
  <2> QED
    BY <2>1 DEF TypeOK
<1>2. RingInv' /\ EntryInv' /\ IrqInv'
  BY DEF RingInv, EntryInv, IrqInv
<1>3. NumberInv'
  <2>1. \A b \in Slots : content[b] \in Nat /\ content[b] <= attempts
    BY DEF TypeOK, NumberInv
  <2>2. attempts \in Nat /\ attempts' = attempts + 1 /\ pc = "idle"
    BY DEF TypeOK
  <2> QED
    BY <2>1, <2>2 DEF NumberInv, Settled
<1>4. ListInv'
  BY DEF HeadInv, TailInv, LinkInv, ChainInv, GapInv, Settled, Linked, ListTail
<1>5. ConfirmInv'
  BY DEF TypeOK, ConfirmInv, ConfirmOnceInOrder
<1> QED
  BY <1>1, <1>2, <1>3, <1>4, <1>5

\* A granted entry was not allocated, so no settled entry points to it and it is
\* neither the head nor a live tail of the list.
LEMMA ProvideTxBufferStep == ASSUME IInv, ProvideTxBuffer PROVE IInv'
<1> USE DEF IInv, ListInv, ProvideTxBuffer, TaskRuns, TxBufferBusy
<1>1. TypeOK'
  <2>1. /\ txCurrent \in Slots
        /\ des0[txCurrent] \in Slots \cup {Stamp}
        /\ Successor(txCurrent) \in Slots
    BY SlotFacts DEF TypeOK
  <2>2. /\ locked \in [Slots -> BOOLEAN]
        /\ bufData \in [Slots -> Nullable \cup {Stamp}]
        /\ attempts \in Nat
    BY DEF TypeOK
  <2>3. /\ locked' \in [Slots -> BOOLEAN]
        /\ bufData' \in [Slots -> Nullable \cup {Stamp}]
        /\ attempts' \in Nat
    BY <2>1, <2>2
  <2> QED
    BY <2>1, <2>3 DEF TypeOK, TaskPositions
<1>2. /\ txCurrent \in Slots
      /\ bufIdx' = txCurrent
      /\ pc' = "copy"
      /\ pc = "idle"
      /\ ~own[txCurrent]
      /\ bufData[txCurrent] = NULL
      /\ info0[txCurrent] = NULL
      /\ frameBuf' = des0[txCurrent]
      /\ bufData' = [bufData EXCEPT ![txCurrent] = des0[txCurrent]]
  BY SlotFacts DEF TypeOK, EntryInv
<1>21. \/ des0[txCurrent] = txCurrent
       \/ des0[txCurrent] = Stamp /\ txCurrent \in early
  BY <1>2, SlotFacts DEF RingInv
<1>22. des0[txCurrent] # NULL
  BY <1>2, <1>21, SlotFacts
<1>3. \A i \in Slots : Settled(i)' <=> Settled(i)
  <2>1. bufData \in [Slots -> Nullable \cup {Stamp}] /\ pc = "idle"
    BY DEF TypeOK
  <2> QED
    BY <1>2, <2>1 DEF Settled
<1>4. RingInv'
  BY <1>2, <1>21, SlotFacts DEF RingInv
<1>5. EntryInv' /\ IrqInv'
  <2>1. bufData \in [Slots -> Nullable \cup {Stamp}] /\ locked \in [Slots -> BOOLEAN]
    BY DEF TypeOK
  <2> QED
    <3>1. \A r \in Slots : r # txCurrent => bufData'[r] = bufData[r] /\ locked'[r] = locked[r]
      BY <1>2, <2>1
    <3>2. bufData'[txCurrent] = des0[txCurrent] /\ locked'[txCurrent]
      BY <1>2, <2>1
    <3>3. EntryInv'
      BY <1>2, <1>21, <1>22, <3>1, <3>2, SlotFacts DEF EntryInv
    <3> QED
      BY <3>3 DEF IrqInv
<1>6. NumberInv'
  <2>1. \A b \in Slots : content[b] <= attempts
    BY DEF NumberInv
  <2>2. /\ attempts \in Nat
        /\ attempts' = attempts + 1
        /\ \A b \in Slots : content[b] \in Nat
    BY DEF TypeOK
  <2> QED
    BY <1>2, <1>3, <2>1, <2>2 DEF NumberInv
<1>7. qHead # NULL => qHead # txCurrent /\ qTail # txCurrent
  BY <1>2 DEF HeadInv, TailInv, ListTail
<1>8. /\ ListTail' = qTail
      /\ ListTail = qTail
      /\ qHead \in Nullable
      /\ qTail \in Nullable
      /\ next \in [Slots -> Nullable]
      /\ \A i \in Slots : i # txCurrent => bufData'[i] = bufData[i]
  <2>1. bufData \in [Slots -> Nullable \cup {Stamp}]
    BY DEF TypeOK
  <2>2. \A i \in Slots : i # txCurrent => bufData'[i] = bufData[i]
    BY <1>2, <2>1
  <2> QED
    BY <1>2, <2>2 DEF TypeOK, ListTail
<1>9. HeadInv' /\ TailInv'
  <2>1. HeadInv'
    BY <1>2, <1>7, <1>8, SlotFacts DEF HeadInv
  <2>2. TailInv'
    BY <1>2, <1>3, <1>7, <1>8, SlotFacts DEF TailInv
  <2> QED
    BY <2>1, <2>2
<1>10. \A i \in Slots : Linked(i)' <=> Linked(i)
  BY <1>3 DEF Linked
<1>11. LinkInv'
  <2>1. \A i \in Slots : Linked(i) =>
            next[i] \in Slots /\ next[i] # txCurrent /\ bufData'[next[i]] # NULL
    BY <1>2, <1>8 DEF LinkInv, Linked
  <2> QED
    BY <1>2, <1>8, <1>10, <2>1 DEF LinkInv
<1>12. ChainInv' /\ GapInv'
  BY <1>3, <1>10 DEF ChainInv, GapInv, ListTail
<1>13. ConfirmInv'
  BY DEF TypeOK, ConfirmInv, ConfirmOnceInOrder
<1> QED
  BY <1>1, <1>4, <1>5, <1>6, <1>9, <1>11, <1>12, <1>13

\* The copy raises the frame number of an entry the list does not reach.
LEMMA CopyFrameStep == ASSUME NEW len \in FrameLens, IInv, CopyFrame(len) PROVE IInv'
<1> USE DEF IInv, ListInv, CopyFrame, TaskRuns
<1>1. TypeOK'
  BY RingAssumption DEF TypeOK, TaskPositions
<1>21. frameBuf = bufIdx /\ bufData[bufIdx] = bufIdx
  BY SlotFacts DEF RingInv, EntryInv
<1>2. RingInv' /\ EntryInv' /\ IrqInv'
  <2>1. RingInv'
    BY <1>21 DEF RingInv
  <2>2. EntryInv'
    BY <1>21, SlotFacts DEF EntryInv
  <2> QED
    BY <2>1, <2>2 DEF IrqInv
<1>3. /\ content' = [content EXCEPT ![bufIdx] = attempts]
      /\ content[bufIdx] <= attempts
      /\ bufIdx \in Slots
  BY <1>21 DEF TypeOK, NumberInv
<1>4. \A i \in Slots : /\ Settled(i)' <=> Settled(i)
                       /\ Linked(i)' <=> Linked(i)
                       /\ Settled(i) => i # bufIdx /\ content'[i] = content[i]
  BY <1>3 DEF TypeOK, Settled, Linked
<1>5. NumberInv'
  BY <1>3, <1>4 DEF TypeOK, NumberInv
<1>6. HeadInv'
  BY DEF HeadInv
<1>7. qHead # NULL => content'[qHead] = content[qHead]
  BY <1>3 DEF HeadInv, TypeOK
<1>8. \A b \in Slots : content[b] <= content'[b] /\ content[b] \in Nat /\ content'[b] \in Nat
  <2>1. content \in [Slots -> Nat] /\ attempts \in Nat
    BY DEF TypeOK
  <2> QED
    BY <1>3, <2>1
<1>9. TailInv'
  <2>1. qHead \in Nullable /\ qTail \in Nullable
    BY DEF TypeOK
  <2>2. ListTail' = qTail /\ ListTail = qTail
    BY DEF ListTail
  <2>3. qHead # NULL => content'[qHead] <= content'[qTail]
    BY <1>7, <1>8, <2>1, <2>2 DEF TailInv
  <2>4. \A j \in Slots : Settled(j) => qTail # NULL /\ content'[j] <= content'[qTail]
    BY <1>4, <1>8, <2>1 DEF TailInv
  <2> QED
    BY <1>4, <2>2, <2>3, <2>4 DEF TailInv
<1>10. LinkInv' /\ ChainInv' /\ GapInv'
  <2>1. \A i \in Slots : Linked(i) =>
            /\ next[i] \in Slots
            /\ content'[next[i]] = content[next[i]]
            /\ content'[i] = content[i]
    BY <1>3, <1>4 DEF TypeOK, LinkInv, Linked
  <2>2. \A i \in Slots : Linked(i) => content[next[i]] <= content'[qTail]
    <3>1. qTail \in Nullable
      BY DEF TypeOK
    <3>2. \A i \in Slots : Linked(i) => qTail # NULL /\ content[next[i]] <= content[qTail]
      BY DEF LinkInv, ListTail, TailInv, Linked
    <3> QED
      BY <1>8, <2>1, <3>1, <3>2
  <2>3. LinkInv'
    BY <1>4, <1>7, <2>1, <2>2 DEF LinkInv, ListTail, Linked
  <2>4. ChainInv' /\ GapInv'
    BY <1>4, <1>7, <2>1 DEF ChainInv, GapInv, ListTail, Linked
  <2> QED
    BY <2>3, <2>4
<1>11. ConfirmInv'
  BY <1>7 DEF ConfirmInv, ConfirmOnceInOrder
<1> QED
  BY <1>1, <1>2, <1>5, <1>6, <1>9, <1>10, <1>11

\* A copy to a time stamp changes nothing that the model follows.
LEMMA CopyOutsideRingStep == ASSUME IInv, CopyOutsideRing PROVE IInv'
<1> USE DEF IInv, ListInv, CopyOutsideRing, TaskRuns
<1>1. TypeOK'
  BY DEF TypeOK, TaskPositions
<1>2. RingInv' /\ EntryInv' /\ IrqInv'
  BY DEF RingInv, EntryInv, IrqInv
<1>3. \A i \in Slots : (Settled(i)' <=> Settled(i)) /\ (Linked(i)' <=> Linked(i))
  BY DEF Settled, Linked
<1>4. ListTail' = ListTail
  BY DEF ListTail
<1>5. NumberInv'
  BY <1>3 DEF NumberInv
<1>6. HeadInv' /\ TailInv'
  BY <1>3, <1>4 DEF HeadInv, TailInv
<1>7. LinkInv' /\ ChainInv' /\ GapInv'
  BY <1>3, <1>4 DEF LinkInv, ChainInv, GapInv
<1>8. ConfirmInv'
  BY DEF ConfirmInv, ConfirmOnceInOrder
<1> QED
  BY <1>1, <1>2, <1>5, <1>6, <1>7, <1>8

\* The test of pQueueHead never finds the entry cleared, and only reads the list.
LEMMA TestHeadStep == ASSUME IInv, TestHead PROVE IInv'
<1> USE DEF IInv, ListInv, TestHead, TaskRuns
<1>1. /\ bufData[bufIdx] = bufIdx
      /\ pc' = IF qHead = NULL THEN "set_head" ELSE "link_tail"
      /\ frameBuf' = bufIdx
  BY SlotFacts DEF TypeOK, EntryInv
<1>2. TypeOK'
  BY <1>1 DEF TypeOK, TaskPositions
<1>3. RingInv' /\ EntryInv' /\ IrqInv'
  BY <1>1 DEF RingInv, EntryInv, IrqInv
<1>4. \A i \in Slots : (Settled(i)' <=> Settled(i)) /\ (Linked(i)' <=> Linked(i))
  BY <1>1 DEF Settled, Linked
<1>5. NumberInv'
  BY <1>1, <1>4 DEF NumberInv
<1>6. HeadInv' /\ TailInv'
  BY <1>1, <1>4 DEF HeadInv, TailInv, ListTail
<1>7. LinkInv' /\ ChainInv' /\ GapInv'
  BY <1>1, <1>4 DEF LinkInv, ChainInv, GapInv, ListTail
<1>8. ConfirmInv'
  BY <1>1 DEF ConfirmInv, ConfirmOnceInOrder
<1> QED
  BY <1>2, <1>3, <1>5, <1>6, <1>7, <1>8

\* The new head carries the highest frame number; the list was empty before.
LEMMA SetHeadStep == ASSUME IInv, SetHead PROVE IInv'
<1> USE DEF IInv, ListInv, SetHead, TaskRuns
<1>1. TypeOK'
  BY DEF TypeOK, TaskPositions
<1>2. RingInv' /\ EntryInv'
  BY DEF RingInv, EntryInv
<1>3. IrqInv'
  BY DEF IrqInv
<1>4. \A i \in Slots : (Settled(i)' <=> Settled(i)) /\ ~Linked(i)
  BY DEF Settled, LinkInv, HeadInv
<1>5. NumberInv'
  BY <1>4 DEF NumberInv
<1>6. HeadInv' /\ TailInv'
  <2>1. bufIdx \in Slots /\ content[bufIdx] \in Nat /\ bufData[bufIdx] # NULL
    BY DEF TypeOK, EntryInv
  <2>2. HeadInv'
    BY <2>1 DEF HeadInv
  <2>3. ListTail' = bufIdx
    BY DEF ListTail
  <2>4. \A j \in Slots : Settled(j)' => qTail # NULL /\ content[j] <= content[qTail]
    BY <1>4 DEF TailInv
  <2>5. TailInv'
    BY <2>1, <2>3, <2>4, SlotFacts DEF TailInv
  <2> QED
    BY <2>2, <2>5
<1>7. \A i \in Slots : ~Linked(i)'
  BY <1>4 DEF Linked
<1>8. ChainInv'
  <2>1. /\ bufIdx \in Slots
        /\ attempts \in Nat
        /\ content[bufIdx] = attempts
        /\ \A b \in Slots : content[b] \in Nat
    BY DEF TypeOK, NumberInv
  <2>2. \A i \in Slots : Settled(i) => content[i] < attempts
    BY <2>1 DEF NumberInv, Settled
  <2> QED
    BY <1>4, <2>1, <2>2 DEF ChainInv
<1>9. LinkInv' /\ GapInv'
  BY <1>7 DEF LinkInv, GapInv
<1>10. ConfirmInv'
  BY DEF ConfirmInv, ConfirmOnceInOrder, NumberInv
<1> QED
  BY <1>1, <1>2, <1>3, <1>5, <1>6, <1>8, <1>9, <1>10

\* The entry is linked behind the last one, or behind a dequeued one when the
\* interrupt has emptied the list since the test: then it is lost, and nothing
\* in the list changes.
LEMMA LinkTailStep == ASSUME IInv, LinkTail PROVE IInv'
<1> USE DEF IInv, ListInv, LinkTail, TaskRuns
<1>1. TypeOK'
  BY DEF TypeOK, TaskPositions, TailInv
<1>2. RingInv' /\ EntryInv' /\ IrqInv'
  BY DEF RingInv, EntryInv, IrqInv
<1>3. /\ qTail \in Slots
      /\ qTail # bufIdx
      /\ bufIdx \in Slots
      /\ next \in [Slots -> Nullable]
      /\ qHead \in Nullable
  BY DEF TypeOK, TailInv
<1>4. \A i \in Slots : /\ Settled(i)' <=> Settled(i)
                       /\ i # qTail => next'[i] = next[i]
                       /\ i # qTail => (Linked(i)' <=> Linked(i))
  BY <1>3 DEF Settled, Linked
<1>5. next'[qTail] = bufIdx
  BY <1>3
<1>6. /\ attempts \in Nat
      /\ content[bufIdx] = attempts
      /\ \A b \in Slots : content[b] \in Nat /\ content[b] <= attempts
      /\ \A b \in Slots : b # bufIdx => content[b] < attempts
  <2>1. attempts \in Nat /\ \A b \in Slots : content[b] \in Nat
    BY DEF TypeOK
  <2>2. /\ content[bufIdx] = attempts
        /\ \A b \in Slots : content[b] <= attempts
        /\ \A b \in Slots : b # bufIdx => content[b] # attempts
    BY DEF NumberInv
  <2> QED
    BY <2>1, <2>2
<1>7. NumberInv'
  BY <1>4 DEF NumberInv
<1>8. HeadInv'
  BY DEF HeadInv
<1>9. bufData[bufIdx] # NULL
  BY DEF EntryInv
<1>10. TailInv'
  BY <1>3, <1>4, <1>6, <1>9, SlotFacts DEF TailInv, ListTail, HeadInv
<1>11. LinkInv'
  <2> SUFFICES ASSUME NEW i \in Slots, Linked(i)'
               PROVE  /\ bufData[next'[i]] # NULL
                      /\ content[i] < content[next'[i]]
                      /\ content[next'[i]] <= content[bufIdx]
                      /\ qHead # NULL
                      /\ content[qHead] <= content[i]
    BY DEF LinkInv, ListTail
  <2>1. CASE i = qTail
    <3>1. bufData[qTail] # NULL
      BY <2>1 DEF Linked, Settled
    <3>2. qHead # NULL /\ content[qHead] <= content[qTail]
      BY <3>1 DEF TailInv, ListTail
    <3> QED
      BY <2>1, <3>2, <1>3, <1>5, <1>6, <1>9
  <2>2. CASE i # qTail
    <3>1. Linked(i) /\ next'[i] = next[i] /\ next[i] \in Slots
      BY <1>3, <1>4, <2>2 DEF Linked
    <3> QED
      BY <3>1, <1>6 DEF LinkInv
  <2> QED
    BY <2>1, <2>2
<1>12. ChainInv'
  BY <1>3, <1>4, <1>5, SlotFacts DEF ChainInv, ListTail
<1>13. GapInv'
  <2> SUFFICES ASSUME NEW i \in Slots, NEW j \in Slots, Linked(i)', Settled(j)
               PROVE  content[j] <= content[i] \/ content[next'[i]] <= content[j]
    BY <1>4 DEF GapInv
  <2>1. CASE i = qTail
    BY <2>1, <1>3, <1>6 DEF TailInv
  <2>2. CASE i # qTail
    BY <2>2, <1>4 DEF GapInv
  <2> QED
    BY <2>1, <2>2
<1>14. ConfirmInv'
  BY DEF ConfirmInv, ConfirmOnceInOrder
<1> QED
  BY <1>1, <1>2, <1>7, <1>8, <1>10, <1>11, <1>12, <1>13, <1>14

\* The tail moves to the entry with the highest frame number.
LEMMA SetTailStep == ASSUME IInv, SetTail PROVE IInv'
<1> USE DEF IInv, ListInv, SetTail, TaskRuns
<1>1. TypeOK'
  BY DEF TypeOK, TaskPositions
<1>2. RingInv' /\ EntryInv' /\ IrqInv'
  BY DEF RingInv, EntryInv, IrqInv
<1>3. \A i \in Slots : (Settled(i)' <=> Settled(i)) /\ (Linked(i)' <=> Linked(i))
  BY DEF Settled, Linked
<1>4. /\ bufIdx \in Slots
      /\ content[bufIdx] = attempts
      /\ \A b \in Slots : content[b] <= attempts
  BY DEF TypeOK, NumberInv
<1>5. ListTail' = ListTail
  BY DEF ListTail
<1>6. NumberInv'
  BY <1>3 DEF NumberInv
<1>7. HeadInv'
  BY DEF HeadInv
<1>8. TailInv'
  BY <1>3, <1>4, <1>5, SlotFacts DEF TailInv
<1>9. LinkInv' /\ ChainInv' /\ GapInv'
  BY <1>3, <1>5 DEF LinkInv, ChainInv, GapInv
<1>10. ConfirmInv'
  BY DEF ConfirmInv, ConfirmOnceInOrder
<1> QED
  BY <1>1, <1>2, <1>6, <1>7, <1>8, <1>9, <1>10

\* The stale pNextBuffer of the entry is cleared, and the entry is settled: it has
\* the highest frame number, so it closes the list or lies beyond it.
LEMMA EndListStep == ASSUME IInv, EndList PROVE IInv'
<1> USE DEF IInv, ListInv, EndList, TaskRuns
<1>1. /\ bufIdx \in Slots
      /\ qTail = bufIdx
      /\ bufData[bufIdx] # NULL
      /\ next \in [Slots -> Nullable]
      /\ attempts \in Nat
      /\ \A b \in Slots : content[b] \in Nat
  BY DEF TypeOK, TailInv, EntryInv
<1>2. /\ content[bufIdx] = attempts
      /\ \A b \in Slots : content[b] <= attempts
      /\ \A b \in Slots : content[b] = attempts => b = bufIdx
  BY DEF NumberInv
<1>3. TypeOK'
  BY <1>1 DEF TypeOK, TaskPositions
<1>4. RingInv' /\ EntryInv' /\ IrqInv'
  BY DEF RingInv, EntryInv, IrqInv
<1>5. \A i \in Slots : /\ Settled(i)' <=> Settled(i) \/ i = bufIdx
                       /\ i # bufIdx => next'[i] = next[i]
  BY <1>1 DEF Settled
<1>6. next'[bufIdx] = NULL
  BY <1>1
<1>7. \A i \in Slots : Linked(i)' <=> (Linked(i) /\ i # bufIdx)
  BY <1>5, <1>6 DEF Linked
<1>8. NumberInv'
  <2>1. \A i, j \in Slots : Settled(i)' /\ Settled(j)' /\ content[i] = content[j] => i = j
    <3> SUFFICES ASSUME NEW i \in Slots, NEW j \in Slots,
                        Settled(i)', Settled(j)', content[i] = content[j]
                 PROVE  i = j
      OBVIOUS
    <3>1. CASE i = bufIdx \/ j = bufIdx
      BY <3>1, <1>2
    <3>2. CASE i # bufIdx /\ j # bufIdx
      BY <3>2, <1>5 DEF NumberInv
    <3> QED
      BY <3>1, <3>2
  <2> QED
    BY <2>1, <1>2 DEF NumberInv
<1>9. HeadInv'
  BY DEF HeadInv
<1>10. ListTail' = bufIdx /\ ListTail = bufIdx
  BY <1>1 DEF ListTail
<1>11. TailInv'
  BY <1>1, <1>2, <1>10, SlotFacts DEF TailInv
<1>12. LinkInv'
  BY <1>5, <1>7, <1>10 DEF LinkInv
<1>13. ChainInv'
  BY <1>5, <1>10 DEF ChainInv
<1>14. GapInv'
  <2> SUFFICES ASSUME NEW i \in Slots, NEW j \in Slots, Linked(i)', Settled(j)'
               PROVE  content[j] <= content[i] \/ content[next'[i]] <= content[j]
    BY DEF GapInv
  <2>1. Linked(i) /\ next'[i] = next[i] /\ next[i] \in Slots
    BY <1>1, <1>5, <1>7 DEF Linked
  <2>2. CASE j = bufIdx
    BY <2>1, <2>2, <1>2
  <2>3. CASE j # bufIdx
    BY <2>1, <2>3, <1>5 DEF GapInv
  <2> QED
    BY <2>2, <2>3
<1>15. ConfirmInv'
  BY DEF ConfirmInv, ConfirmOnceInOrder
<1> QED
  BY <1>3, <1>4, <1>8, <1>9, <1>11, <1>12, <1>13, <1>14, <1>15

\* The granted descriptor is the tail descriptor and is free: Gmac_Ip_SendFrame
\* accepts it, and its Des0 already holds the buffer.
LEMMA SendFrameStep == ASSUME IInv, SendFrame PROVE IInv'
<1> USE DEF IInv, ListInv, SendFrame, TaskRuns
<1>1. /\ bufIdx \in Slots
      /\ tail = bufIdx
      /\ frameBuf = bufIdx
      /\ ~own[tail]
      /\ bufData[bufIdx] # NULL
  BY DEF TypeOK, RingInv, EntryInv
<1>2. /\ des0' = [des0 EXCEPT ![bufIdx] = bufIdx]
      /\ info0' = [info0 EXCEPT ![bufIdx] = bufIdx]
      /\ pc' = "give"
  BY <1>1
<1>3. des0' \in [Slots -> Slots \cup {Stamp}] /\ info0' \in [Slots -> Nullable]
  BY <1>1, <1>2 DEF TypeOK
<1>4. TypeOK'
  BY <1>2, <1>3 DEF TypeOK, TaskPositions
<1>5. RingInv'
  <2>1. des0'[bufIdx] = bufIdx /\ info0'[bufIdx] = bufIdx
    BY <1>1, <1>2 DEF TypeOK
  <2>2. \A s \in Slots : s # bufIdx => des0'[s] = des0[s] /\ info0'[s] = info0[s]
    BY <1>1, <1>2 DEF TypeOK
  <2> QED
    BY <1>1, <1>2, <2>1, <2>2 DEF RingInv
<1>6. EntryInv'
  <2>1. \A s \in Slots : s # bufIdx => info0'[s] = info0[s]
    BY <1>1, <1>2 DEF TypeOK
  <2>2. info0'[bufIdx] = bufIdx
    BY <1>1, <1>2 DEF TypeOK
  <2> QED
    BY <1>1, <1>2, <2>1, <2>2 DEF EntryInv
<1>7. IrqInv'
  BY DEF IrqInv
<1>8. \A i \in Slots : (Settled(i)' <=> Settled(i)) /\ (Linked(i)' <=> Linked(i))
  BY <1>2 DEF Settled, Linked
<1>9. ListTail' = ListTail
  BY <1>2 DEF ListTail
<1>10. NumberInv'
  BY <1>2, <1>8 DEF NumberInv
<1>11. HeadInv' /\ TailInv'
  BY <1>2, <1>8, <1>9 DEF HeadInv, TailInv
<1>12. LinkInv' /\ ChainInv' /\ GapInv'
  BY <1>2, <1>8, <1>9 DEF LinkInv, ChainInv, GapInv
<1>13. ConfirmInv'
  BY <1>2 DEF ConfirmInv, ConfirmOnceInOrder
<1> QED
  BY <1>4, <1>5, <1>6, <1>7, <1>10, <1>11, <1>12, <1>13

\* The descriptor goes to the DMA; the list does not change.
LEMMA GiveToDmaStep == ASSUME IInv, GiveToDma PROVE IInv'
<1> USE DEF IInv, ListInv, GiveToDma, TaskRuns
<1>1. TypeOK'
  <2>1. content[des0[tail]] \in Nat /\ accepted \in Seq(Nat)
    BY DEF TypeOK, RingInv
  <2>2. accepted' \in Seq(Nat)
    BY <2>1
  <2>3. own' \in [Slots -> BOOLEAN]
    BY DEF TypeOK
  <2> QED
    BY <2>2, <2>3 DEF TypeOK, TaskPositions
<1>2. RingInv' /\ EntryInv' /\ IrqInv'
  BY DEF RingInv, EntryInv, IrqInv
<1>3. \A i \in Slots : (Settled(i)' <=> Settled(i)) /\ (Linked(i)' <=> Linked(i))
  BY DEF Settled, Linked
<1>4. ListTail' = ListTail
  BY DEF ListTail
<1>5. NumberInv'
  BY <1>3 DEF NumberInv
<1>6. HeadInv' /\ TailInv'
  BY <1>3, <1>4 DEF HeadInv, TailInv
<1>7. LinkInv' /\ ChainInv' /\ GapInv'
  BY <1>3, <1>4 DEF LinkInv, ChainInv, GapInv
<1>8. ConfirmInv'
  BY DEF ConfirmInv, ConfirmOnceInOrder
<1> QED
  BY <1>1, <1>2, <1>5, <1>6, <1>7, <1>8

\* The two ring pointers meet again.
LEMMA AdvanceTailStep == ASSUME IInv, AdvanceTail PROVE IInv'
<1> USE DEF IInv, ListInv, AdvanceTail, TaskRuns
<1>1. TypeOK'
  BY SlotFacts DEF TypeOK, TaskPositions
<1>2. RingInv' /\ EntryInv' /\ IrqInv'
  BY DEF RingInv, EntryInv, IrqInv
<1>3. \A i \in Slots : (Settled(i)' <=> Settled(i)) /\ (Linked(i)' <=> Linked(i))
  BY DEF Settled, Linked
<1>4. ListTail' = ListTail
  BY DEF ListTail
<1>5. NumberInv'
  BY <1>3 DEF NumberInv
<1>6. HeadInv' /\ TailInv'
  BY <1>3, <1>4 DEF HeadInv, TailInv
<1>7. LinkInv' /\ ChainInv' /\ GapInv'
  BY <1>3, <1>4 DEF LinkInv, ChainInv, GapInv
<1>8. ConfirmInv'
  BY DEF ConfirmInv, ConfirmOnceInOrder
<1> QED
  BY <1>1, <1>2, <1>5, <1>6, <1>7, <1>8

(***************************************************************************)
(* The DMA and the Tx interrupt.                                           *)
(***************************************************************************)
\* What the request list's invariants depend on.
listState == <<bufData, next, qHead, qTail, pc, bufIdx, content, attempts, confirmed>>

\* A step that touches neither the list nor the frame numbers keeps its invariants.
LEMMA ListUntouched ==
    ASSUME NumberInv, ListInv, ConfirmInv, UNCHANGED listState
    PROVE  NumberInv' /\ ListInv' /\ ConfirmInv'
<1> USE DEF ListInv, listState
<1>1. \A i \in Slots : (Settled(i)' <=> Settled(i)) /\ (Linked(i)' <=> Linked(i))
  BY DEF Settled, Linked
<1>2. ListTail' = ListTail
  BY DEF ListTail
<1>3. NumberInv'
  BY <1>1 DEF NumberInv
<1>4. HeadInv' /\ TailInv'
  BY <1>1, <1>2 DEF HeadInv, TailInv
<1>5. LinkInv' /\ ChainInv' /\ GapInv'
  BY <1>1, <1>2 DEF LinkInv, ChainInv, GapInv
<1>6. ConfirmInv'
  BY DEF ConfirmInv, ConfirmOnceInOrder
<1> QED
  BY <1>3, <1>4, <1>5, <1>6

\* The DMA hands a descriptor back.
LEMMA DmaSendStep == ASSUME IInv, DmaSend PROVE IInv'
<1> USE DEF IInv, DmaSend
<1>1. TypeOK'
  <2>1. content[des0[dma]] \in Nat /\ wire \in Seq(Nat)
    BY DEF TypeOK, RingInv
  <2>2. wire' \in Seq(Nat)
    BY <2>1
  <2>3. /\ own' \in [Slots -> BOOLEAN]
        /\ des0' \in [Slots -> Slots \cup {Stamp}]
        /\ dma' \in Slots
    BY SlotFacts DEF TypeOK
  <2> QED
    BY <2>2, <2>3 DEF TypeOK
<1>2. EntryInv' /\ IrqInv'
  BY DEF EntryInv, IrqInv
<1>3. RingInv'
  <2>1. /\ dma \in Slots
        /\ own[dma]
        /\ ~own'[dma]
        /\ des0'[dma] = Stamp
    BY DEF TypeOK
  <2>2. \A s \in Slots : s # dma => own'[s] = own[s] /\ des0'[s] = des0[s]
    BY DEF TypeOK
  <2>3. pc = "give" => bufIdx # dma
    BY <2>1 DEF RingInv
  <2> QED
    BY <2>1, <2>2, <2>3 DEF RingInv, TypeOK
<1>4. NumberInv' /\ ListInv' /\ ConfirmInv'
  BY ListUntouched DEF listState
<1> QED
  BY <1>1, <1>2, <1>3, <1>4

\* The interrupt starts at the head of the list.
LEMMA TxIrqEnterStep == ASSUME IInv, TxIrqEnter PROVE IInv'
<1> USE DEF IInv, TxIrqEnter
<1>1. TypeOK'
  BY DEF TypeOK
<1>2. RingInv' /\ EntryInv' /\ IrqInv'
  BY DEF RingInv, EntryInv, IrqInv
<1>3. NumberInv' /\ ListInv' /\ ConfirmInv'
  BY ListUntouched DEF listState
<1> QED
  BY <1>1, <1>2, <1>3

\* The interrupt returns.
LEMMA TxIrqExitStep == ASSUME IInv, TxIrqExit PROVE IInv'
<1> USE DEF IInv, TxIrqExit
<1>1. TypeOK'
  BY DEF TypeOK
<1>2. RingInv' /\ EntryInv' /\ IrqInv'
  BY DEF RingInv, EntryInv, IrqInv
<1>3. NumberInv' /\ ListInv' /\ ConfirmInv'
  BY ListUntouched DEF listState
<1> QED
  BY <1>1, <1>2, <1>3

\* The head of the list is reported and dequeued: it is settled, its frame number
\* is above every confirmed one and below that of its successor, and when it has no
\* successor no other listed entry is left.
LEMMA ReportEntryStep == ASSUME NEW s \in Slots, IInv, ReportEntry(s) PROVE IInv'
<1> USE DEF IInv, ListInv
<1>1. /\ inIrq
      /\ iter = qHead
      /\ qHead # NULL
      /\ qHead \in Slots
      /\ bufData[qHead] = qHead
  <2>1. inIrq /\ iter = qHead /\ qHead # NULL /\ qHead \in Slots
    BY DEF TypeOK, ReportEntry, IrqInv
  <2>2. bufData[qHead] # NULL /\ (pc \in Granted => qHead # bufIdx)
    BY <2>1 DEF HeadInv
  <2> QED
    BY <2>1, <2>2 DEF EntryInv
<1>2. s = qHead /\ info0[qHead] = qHead /\ ~own[qHead]
  <2>1. info0[s] = qHead /\ ~own[s]
    BY <1>1 DEF ReportEntry, Carries
  <2>2. info0[s] \in {NULL, s}
    BY DEF EntryInv
  <2> QED
    BY <1>1, <2>1, <2>2
<1>3. /\ confirmed' = Append(confirmed, content[qHead])
      /\ des0' = [des0 EXCEPT ![qHead] = qHead]
      /\ info0' = [info0 EXCEPT ![qHead] = NULL]
      /\ locked' = [locked EXCEPT ![qHead] = FALSE]
      /\ bufData' = [bufData EXCEPT ![qHead] = NULL]
      /\ qHead' = next[qHead]
      /\ iter' = next[qHead]
      /\ UNCHANGED <<own, txCurrent, tail, dma, ti, next, qTail, task, inIrq,
                     memory, accepted, wire>>
  BY <1>1, <1>2 DEF ReportEntry
<1>4. /\ bufIdx \in Slots
      /\ qTail \in Nullable
      /\ next \in [Slots -> Nullable]
      /\ bufData \in [Slots -> Nullable \cup {Stamp}]
      /\ attempts \in Nat
      /\ confirmed \in Seq(Nat)
      /\ \A b \in Slots : content[b] \in Nat
  BY DEF TypeOK
<1>41. /\ early' = IF pc = "give" /\ qHead = tail THEN early \cup {qHead} ELSE early
       /\ early' \subseteq Slots
  BY <1>1, <1>2 DEF ReportEntry, TypeOK
<1>5. TypeOK'
  <2>1. confirmed' \in Seq(Nat) /\ next[qHead] \in Nullable
    BY <1>1, <1>3, <1>4
  <2>2. /\ des0' \in [Slots -> Slots \cup {Stamp}]
        /\ info0' \in [Slots -> Nullable]
        /\ locked' \in [Slots -> BOOLEAN]
        /\ bufData' \in [Slots -> Nullable \cup {Stamp}]
    BY <1>1, <1>3 DEF TypeOK
  <2> QED
    BY <1>3, <1>41, <2>1, <2>2 DEF TypeOK
<1>6. RingInv' /\ IrqInv'
  <2>1. /\ des0'[qHead] = qHead
        /\ ~own'[qHead]
        /\ \A r \in Slots : r # qHead => /\ des0'[r] = des0[r]
                                        /\ info0'[r] = info0[r]
                                        /\ own'[r] = own[r]
    BY <1>1, <1>2, <1>3 DEF TypeOK
  <2>2. early \subseteq early'
    BY <1>41
  <2>3. \A r \in Slots : /\ des0'[r] \in {r, Stamp}
                         /\ own'[r] => des0'[r] = r
                         /\ own'[r] \/ des0'[r] = Stamp => r \in early' \/ info0'[r] = r
    BY <1>1, <2>1, <2>2, SlotFacts DEF RingInv
  <2>4. pc = "give" => /\ des0'[bufIdx] = bufIdx
                       /\ bufIdx \in early' \/ info0'[bufIdx] = bufIdx
    <3>1. CASE bufIdx = qHead
      BY <1>41, <2>1, <3>1 DEF RingInv
    <3>2. CASE bufIdx # qHead
      BY <1>4, <2>1, <2>2, <3>2 DEF RingInv
    <3> QED
      BY <3>1, <3>2
  <2>5. RingInv'
    BY <1>3, <2>2, <2>3, <2>4 DEF RingInv
  <2> QED
    BY <1>1, <1>3, <2>5 DEF IrqInv
<1>7. EntryInv'
  <2>1. \A r \in Slots : r # qHead => /\ info0'[r] = info0[r]
                                      /\ bufData'[r] = bufData[r]
                                      /\ locked'[r] = locked[r]
    BY <1>3 DEF TypeOK
  <2>2. info0'[qHead] = NULL /\ bufData'[qHead] = NULL /\ ~locked'[qHead]
    BY <1>1, <1>3 DEF TypeOK
  <2>3. pc \in Entering \cup {"send"} => bufIdx # qHead
    BY <1>1, <1>2, SlotFacts DEF EntryInv
  <2>4. UNCHANGED <<pc, bufIdx, frameBuf>>
    BY <1>3
  <2>5. \A r \in Slots : /\ info0'[r] \in {NULL, r}
                         /\ bufData'[r] \in {NULL, r, Stamp}
                         /\ bufData'[r] = Stamp => r = bufIdx /\ pc \in Granted
                         /\ locked'[r] <=> bufData'[r] # NULL
                         /\ info0'[r] # NULL => bufData'[r] # NULL
    BY <2>1, <2>2, SlotFacts DEF EntryInv
  <2> QED
    BY <1>4, <2>1, <2>3, <2>4, <2>5 DEF EntryInv
<1>8. Settled(qHead)
  BY <1>1, <1>2 DEF Settled, EntryInv
<1>9. \A i \in Slots : /\ bufData'[i] # NULL <=> bufData[i] # NULL /\ i # qHead
                       /\ Settled(i)' <=> Settled(i) /\ i # qHead
                       /\ Linked(i)' <=> Linked(i) /\ i # qHead
  BY <1>1, <1>3, <1>4 DEF Settled, Linked
<1>10. /\ ListTail' = ListTail
       /\ ListTail \in Slots
       /\ bufData[ListTail] # NULL
       /\ pc # "set_head"
  BY <1>1, <1>3, <1>4 DEF ListTail, TailInv, HeadInv
<1>11. NumberInv'
  BY <1>3, <1>9 DEF NumberInv
<1>12. \A i \in Slots : Linked(i) /\ i # qHead =>
           /\ next[i] \in Slots
           /\ content[qHead] < content[i]
           /\ next[i] # qHead
  <2> SUFFICES ASSUME NEW i \in Slots, Linked(i), i # qHead
               PROVE  next[i] \in Slots /\ content[qHead] < content[i] /\ next[i] # qHead
    OBVIOUS
  <2>1. next[i] \in Slots /\ Settled(i)
    BY <1>4 DEF Linked
  <2>2. content[qHead] <= content[i] /\ content[i] < content[next[i]]
    BY DEF LinkInv
  <2>3. content[qHead] # content[i]
    BY <1>1, <1>8, <2>1 DEF NumberInv
  <2> QED
    BY <1>1, <1>4, <2>1, <2>2, <2>3
<1>13. /\ \A k \in DOMAIN confirmed : confirmed[k] < content[qHead]
       /\ content[qHead] <= attempts
       /\ pc \in Entering => content[qHead] < attempts
  <2>1. content[qHead] <= attempts /\ (pc \in Entering => content[qHead] # attempts)
    BY <1>1, <1>8 DEF NumberInv, Settled
  <2> QED
    BY <1>1, <1>4, <2>1 DEF ConfirmInv
<1>14. /\ DOMAIN confirmed' = 1 .. Len(confirmed) + 1
       /\ DOMAIN confirmed = 1 .. Len(confirmed)
       /\ Len(confirmed) \in Nat
       /\ \A k \in DOMAIN confirmed : confirmed'[k] = confirmed[k] /\ confirmed[k] \in Nat
       /\ confirmed'[Len(confirmed) + 1] = content[qHead]
  BY <1>1, <1>3, <1>4
<1>15. ConfirmOnceInOrder'
  <2> SUFFICES ASSUME NEW i \in DOMAIN confirmed', NEW j \in DOMAIN confirmed', i < j
               PROVE  confirmed'[i] < confirmed'[j]
    BY DEF ConfirmOnceInOrder
  <2>1. i \in DOMAIN confirmed /\ confirmed'[i] = confirmed[i]
    BY <1>14
  <2>2. CASE j = Len(confirmed) + 1
    BY <1>13, <1>14, <2>1, <2>2
  <2>3. CASE j # Len(confirmed) + 1
    <3>1. j \in DOMAIN confirmed /\ confirmed'[j] = confirmed[j]
      BY <1>14, <2>3
    <3> QED
      BY <2>1, <3>1 DEF ConfirmInv, ConfirmOnceInOrder
  <2> QED
    BY <2>2, <2>3
<1>16. \A k \in DOMAIN confirmed' : /\ confirmed'[k] <= attempts
                                    /\ pc \in Entering => confirmed'[k] < attempts
                                    /\ confirmed'[k] <= content[qHead]
                                    /\ confirmed'[k] \in Nat
  <2> SUFFICES ASSUME NEW k \in DOMAIN confirmed'
               PROVE  /\ confirmed'[k] <= attempts
                      /\ pc \in Entering => confirmed'[k] < attempts
                      /\ confirmed'[k] <= content[qHead]
                      /\ confirmed'[k] \in Nat
    OBVIOUS
  <2>1. content[qHead] \in Nat
    BY <1>1, <1>4
  <2>2. CASE k = Len(confirmed) + 1
    BY <1>13, <1>14, <2>1, <2>2
  <2>3. CASE k # Len(confirmed) + 1
    <3>1. k \in DOMAIN confirmed /\ confirmed'[k] = confirmed[k] /\ confirmed[k] \in Nat
      BY <1>14, <2>3
    <3>2. confirmed[k] < content[qHead]
      BY <1>13, <3>1
    <3>3. confirmed[k] <= attempts /\ (pc \in Entering => confirmed[k] < attempts)
      BY <3>1 DEF ConfirmInv
    <3> QED
      BY <2>1, <3>1, <3>2, <3>3
  <2> QED
    BY <2>2, <2>3
<1>17. GapInv'
  BY <1>3, <1>9 DEF GapInv
<1>18. CASE next[qHead] # NULL
  <2>1. next[qHead] \in Slots /\ Linked(qHead)
    BY <1>1, <1>4, <1>8, <1>18 DEF Linked
  <2>2. /\ bufData[next[qHead]] # NULL
        /\ content[qHead] < content[next[qHead]]
        /\ content[next[qHead]] <= content[ListTail]
        /\ next[qHead] = bufIdx => pc \notin Unlisted
    BY <1>1, <2>1 DEF LinkInv
  <2>3. ListTail # qHead /\ next[qHead] # qHead
    BY <1>1, <1>4, <1>10, <2>1, <2>2
  <2>4. HeadInv'
    BY <1>3, <1>9, <1>10, <2>1, <2>2, <2>3 DEF HeadInv
  <2>5. TailInv'
    BY <1>1, <1>3, <1>9, <1>10, <1>18, <2>2, <2>3 DEF TailInv
  <2>6. \A i \in Slots : Linked(i) /\ i # qHead => content[next[qHead]] <= content[i]
    <3> SUFFICES ASSUME NEW i \in Slots, Linked(i), i # qHead
                 PROVE  content[next[qHead]] <= content[i]
      OBVIOUS
    <3>1. content[i] <= content[qHead] \/ content[next[qHead]] <= content[i]
      BY <1>1, <2>1 DEF GapInv, Linked
    <3> QED
      BY <3>1, <1>1, <1>4, <1>12
  <2>7. LinkInv'
    BY <1>3, <1>9, <1>10, <1>12, <1>18, <2>6 DEF LinkInv
  <2>8. ChainInv'
    <3>1. \A i \in Slots : content[next[qHead]] <= content[i] => content[qHead] <= content[i]
      BY <1>1, <1>4, <2>1, <2>2
    <3> QED
      BY <1>1, <1>3, <1>9, <1>10, <3>1 DEF ChainInv
  <2>9. ConfirmInv'
    <3>1. content[qHead] \in Nat /\ content[next[qHead]] \in Nat
      BY <1>1, <1>4, <2>1
    <3>2. \A k \in DOMAIN confirmed' : confirmed'[k] < content[next[qHead]]
      BY <1>16, <2>2, <3>1
    <3> QED
      BY <1>3, <1>15, <1>16, <3>2 DEF ConfirmInv
  <2> QED
    BY <1>5, <1>6, <1>7, <1>11, <1>17, <2>4, <2>5, <2>7, <2>8, <2>9
<1>19. CASE next[qHead] = NULL
  <2>1. ListTail = qHead
    BY <1>1, <1>4, <1>8, <1>19 DEF ChainInv
  <2>2. HeadInv'
    BY <1>3, <1>4, <1>10, <1>19, SlotFacts DEF HeadInv
  <2>3. pc = "link_tail" => bufData'[qTail] = NULL
    BY <1>1, <1>9, <2>1 DEF ListTail
  <2>4. TailInv'
    BY <1>1, <1>3, <1>9, <1>19, <2>3 DEF TailInv
  <2>5. \A i \in Slots : ~Linked(i)'
    <3>1. \A i \in Slots : Linked(i) /\ i # qHead => FALSE
      <4> SUFFICES ASSUME NEW i \in Slots, Linked(i), i # qHead PROVE FALSE
        OBVIOUS
      <4>1. next[i] \in Slots /\ content[qHead] < content[i]
        BY <1>12
      <4>2. content[i] < content[next[i]] /\ content[next[i]] <= content[qHead]
        BY <2>1 DEF LinkInv
      <4> QED
        BY <1>1, <1>4, <4>1, <4>2
    <3> QED
      BY <1>9, <3>1
  <2>6. LinkInv' /\ ChainInv'
    BY <1>3, <1>19, <2>5 DEF LinkInv, ChainInv
  <2>7. ConfirmInv'
    BY <1>3, <1>15, <1>16, <1>19 DEF ConfirmInv
  <2> QED
    BY <1>5, <1>6, <1>7, <1>11, <1>17, <2>2, <2>4, <2>6, <2>7
<1> QED
  BY <1>18, <1>19

-----------------------------------------------------------------------------
\* Every step keeps the invariant.
LEMMA NextStep == ASSUME IInv, [Next]_vars PROVE IInv'
<1>1. CASE TaskStep
  BY <1>1, ProvideBusyStep, ProvideTxBufferStep, CopyFrameStep, CopyOutsideRingStep,
     TestHeadStep, SetHeadStep, LinkTailStep, SetTailStep, EndListStep, SendFrameStep,
     GiveToDmaStep, AdvanceTailStep DEF TaskStep
<1>2. CASE IrqStep
  BY <1>2, TxIrqEnterStep, ReportEntryStep, TxIrqExitStep DEF IrqStep
<1>3. CASE DmaSend
  BY <1>3, DmaSendStep
<1>4. CASE UNCHANGED vars
  <2>1. TypeOK'
    BY <1>4 DEF IInv, TypeOK, vars
  <2>2. RingInv' /\ EntryInv' /\ IrqInv'
    BY <1>4 DEF IInv, RingInv, EntryInv, IrqInv, vars
  <2>3. NumberInv' /\ ListInv' /\ ConfirmInv'
    BY <1>4, ListUntouched DEF IInv, vars, listState
  <2> QED
    BY <2>1, <2>2, <2>3 DEF IInv
<1> QED
  BY <1>1, <1>2, <1>3, <1>4 DEF Next

\* The invariant of the transmit path, for every ring size and number of frames.
THEOREM Invariance == Spec => []IInv
BY InitHolds, NextStep, PTL DEF Spec

\* No buffer index, list entry or ring pointer of Eth.c and Gmac_Ip.c leaves the ring,
\* and no time stamp gets into Info0, the copy from which a Des0 that a write-back has
\* destroyed is restored.
THEOREM TypeCorrect == Spec => []TypeOK
<1>1. IInv => TypeOK
  BY DEF IInv
<1> QED
  BY <1>1, Invariance, PTL

\* The memcpy of the task goes to the granted descriptor's own buffer, which no
\* descriptor of the DMA points to, for any ring size and any preemption by the Tx
\* interrupt, although every write-back destroys a Des0; the exception is a descriptor
\* whose last frame was reported between the stores of Info0 and OWN.
THEOREM BuffersAreSafe == Spec => []NoWriteUnderDma
<1>1. IInv => NoWriteUnderDma
  <2> SUFFICES ASSUME IInv, pc = "copy", frameBuf # Stamp
               PROVE  frameBuf = bufIdx /\ \A s \in Slots : own[s] => des0[s] # frameBuf
    BY DEF IInv, RingInv, NoWriteUnderDma
  <2>1. frameBuf = bufIdx /\ ~own[bufIdx]
    BY DEF IInv, RingInv
  <2>2. \A s \in Slots : own[s] => des0[s] = s
    BY DEF IInv, RingInv
  <2> QED
    BY <2>1, <2>2
<1> QED
  BY <1>1, Invariance, PTL

\* A buffer granted by Gmac_Ip_GetTxBuff is accepted by Gmac_Ip_SendFrame, although
\* the two walk the ring with pointers of their own.
THEOREM GrantIsSendable == Spec => []GrantedBufferIsSendable
<1>1. IInv => GrantedBufferIsSendable
  BY DEF IInv, RingInv, GrantedBufferIsSendable
<1> QED
  BY <1>1, Invariance, PTL

\* Eth_ReportTransmission never asks for the status of an entry whose buffer pointer
\* is cleared, so an unused descriptor is never unlocked by mistake.
THEOREM LookupsAreValid == Spec => []NoNullLookup
<1>1. IInv => NoNullLookup
  BY DEF IInv, ListInv, HeadInv, IrqInv, NoNullLookup
<1> QED
  BY <1>1, Invariance, PTL

\* EthIf_TxConfirmation is called at most once for a frame and in transmission order,
\* also when a request was lost behind a dequeued entry.
THEOREM ConfirmationsAreOrdered == Spec => []ConfirmOnceInOrder
<1>1. IInv => ConfirmOnceInOrder
  BY DEF IInv, ConfirmInv
<1> QED
  BY <1>1, Invariance, PTL

\* Gmac_Ip_GetTransmitStatus finds the head of the list done when the descriptor of its
\* own buffer says so.
LEMMA HeadDone ==
    IInv => (TransmissionDone(qHead)
                <=> qHead # NULL /\ info0[qHead] = qHead /\ ~own[qHead])
<1> SUFFICES ASSUME IInv, qHead # NULL
             PROVE  TransmissionDone(qHead) <=> info0[qHead] = qHead /\ ~own[qHead]
  BY DEF TransmissionDone
<1>1. qHead \in Slots /\ bufData[qHead] = qHead
  <2>1. qHead \in Slots /\ bufData[qHead] # NULL /\ (pc \in Granted => qHead # bufIdx)
    BY DEF IInv, TypeOK, ListInv, HeadInv
  <2> QED
    BY <2>1 DEF IInv, EntryInv
<1>2. \A s \in Slots : info0[s] = qHead => s = qHead
  BY <1>1, SlotFacts DEF IInv, EntryInv
<1>3. \A s \in Slots : Carries(s, qHead) <=> s = qHead /\ info0[qHead] = qHead
  <2>1. \A r \in Slots : r < qHead => r # qHead
    BY <1>1, RingAssumption
  <2> QED
    BY <1>1, <1>2, <2>1 DEF Carries
<1> QED
  BY <1>1, <1>3 DEF TransmissionDone

\* Only a step of the DMA finishes a frame, and it raises TI; the interrupt gives up only
\* at a head that is not finished, and the task lists none that looks finished.
LEMMA SeenStep ==
    ASSUME IInv, IInv', CompletionsAreSeen, [Next]_vars PROVE CompletionsAreSeen'
<1> DEFINE Done == qHead # NULL /\ info0[qHead] = qHead /\ ~own[qHead]
<1>1. (TransmissionDone(qHead) <=> Done) /\ (TransmissionDone(qHead)' <=> Done')
  <2>1. TransmissionDone(qHead) <=> Done
    BY HeadDone
  <2>2. (IInv => (TransmissionDone(qHead) <=> Done))'
    BY HeadDone, PTL
  <2> QED
    BY <2>1, <2>2
<1> HIDE DEF Done
<1> SUFFICES ASSUME ~inIrq', ~ti', Done' PROVE pc' = "give" /\ qHead' = bufIdx'
  BY <1>1 DEF CompletionsAreSeen
<1>2. ~inIrq /\ ~ti /\ Done => pc = "give" /\ qHead = bufIdx
  BY <1>1 DEF CompletionsAreSeen
<1>3. CASE SetHead
  <2>1. qHead' = bufIdx /\ info0'[bufIdx] = NULL /\ bufIdx \in Slots
    BY <1>3 DEF SetHead, TaskRuns, IInv, EntryInv, TypeOK
  <2> QED
    BY <2>1, SlotFacts DEF Done
<1>4. CASE SendFrame
  <2>1. /\ ~own[tail]
        /\ tail = bufIdx
    BY <1>4 DEF SendFrame, TaskRuns, IInv, RingInv
  <2>2. /\ pc = "send" /\ pc' = "give"
        /\ info0' = [info0 EXCEPT ![bufIdx] = frameBuf]
        /\ UNCHANGED <<own, qHead, bufIdx, inIrq, ti>>
    BY <1>4, <2>1 DEF SendFrame, TaskRuns
  <2>3. qHead # bufIdx /\ Done' => Done
    BY <2>2 DEF Done, IInv, TypeOK
  <2> QED
    BY <1>2, <2>2, <2>3
<1>5. CASE GiveToDma
  <2>1. /\ pc = "give"
        /\ tail = bufIdx
        /\ own' = [own EXCEPT ![bufIdx] = TRUE]
        /\ UNCHANGED <<info0, qHead, bufIdx, inIrq, ti>>
    BY <1>5 DEF GiveToDma, TaskRuns, IInv, RingInv
  <2>2. qHead # bufIdx /\ Done
    BY <2>1 DEF Done, IInv, TypeOK
  <2> QED
    BY <1>2, <2>1, <2>2
<1>6. CASE TaskStep /\ ~SetHead /\ ~SendFrame /\ ~GiveToDma
  <2>1. UNCHANGED <<own, info0, qHead, inIrq, ti>> /\ pc # "give"
    BY <1>6 DEF TaskStep, TaskRuns, ProvideBusy, ProvideTxBuffer, CopyFrame,
       CopyOutsideRing, TestHead, LinkTail, SetTail, EndList, AdvanceTail
  <2> QED
    BY <1>2, <2>1 DEF Done
<1>7. CASE TxIrqExit
  <2>1. /\ inIrq
        /\ ~TransmissionDone(iter)
        /\ UNCHANGED <<own, info0, qHead>>
    BY <1>7 DEF TxIrqExit
  <2>2. iter = qHead
    BY <2>1 DEF IInv, IrqInv
  <2> QED
    BY <1>1, <2>1, <2>2 DEF Done
<1>8. CASE TxIrqEnter \/ (\E s \in Slots : ReportEntry(s)) \/ DmaSend
  BY <1>8 DEF TxIrqEnter, ReportEntry, DmaSend
<1>9. CASE UNCHANGED vars
  BY <1>2, <1>9 DEF vars, Done
<1> QED
  BY <1>3, <1>4, <1>5, <1>6, <1>7, <1>8, <1>9 DEF Next, IrqStep

\* No completion is forgotten: whenever the Tx interrupt is neither pending nor running,
\* the oldest listed request is unfinished, for any ring size and number of frames,
\* although TI is cleared before the list is walked and one TI may stand for several
\* frames.
THEOREM CompletionsAreNotMissed == Spec => []CompletionsAreSeen
<1>1. Init => CompletionsAreSeen
  BY DEF Init, CompletionsAreSeen, TransmissionDone
<1>2. IInv /\ IInv' /\ CompletionsAreSeen /\ [Next]_vars => CompletionsAreSeen'
  BY SeenStep
<1> QED
  BY <1>1, <1>2, Invariance, PTL DEF Spec
-----------------------------------------------------------------------------
(***************************************************************************)
(* The wire.  The frames between Eth_Transmit and the wire lie in the      *)
(* descriptors from the DMA's position up to the tail pointer; the tail    *)
(* pointer is one behind between the store of OWN and its own move.        *)
(***************************************************************************)
TailIsBehind ==
    IF pc = "advance" THEN Successor(tail) = (dma + InFlight) % RingSize
                      ELSE tail = (dma + InFlight) % RingSize

WireInv == WireOrder /\ TailIsBehind

\* Positions at most one turn ahead of a slot.
LEMMA Turning ==
    \A d \in Slots, k \in 0..RingSize :
        (d + k) % RingSize = IF d + k < RingSize THEN d + k ELSE d + k - RingSize
<1>1. RingSize \in Nat \ {0}
  BY RingAssumption
<1> QED
  BY <1>1, Z3

\* A prefix grows by the element that follows it.
LEMMA PrefixGrows ==
    ASSUME NEW s \in Seq(Nat), NEW n \in Nat, n + 1 <= Len(s)
    PROVE  SubSeq(s, 1, n + 1) = Append(SubSeq(s, 1, n), s[n + 1])
OBVIOUS

\* No step and a whole turn lead back; every number of steps leads to a slot.
LEMMA TurningBack ==
    \A d \in Slots : /\ (d + 0) % RingSize = d
                     /\ (d + RingSize) % RingSize = d
                     /\ \A k \in 0..RingSize : (d + k) % RingSize \in Slots
<1>1. RingSize \in Nat \ {0}
  BY RingAssumption
<1>2. \A n \in Nat \ {0} : \A d \in 0 .. n - 1 : (d + 0) % n = d /\ (d + n) % n = d
  BY SMT
<1>3. \A d \in Slots, k \in 0..RingSize : (d + k) % RingSize \in Slots
  BY <1>1, Turning
<1> QED
  BY <1>1, <1>2, <1>3

\* Distinct distances from a slot lead to distinct slots.
LEMMA TurningApart ==
    \A d \in Slots, j, k \in 0 .. RingSize - 1 :
        (d + j) % RingSize = (d + k) % RingSize => j = k
<1> SUFFICES ASSUME NEW d \in Slots, NEW j \in 0 .. RingSize - 1, NEW k \in 0 .. RingSize - 1,
                    (d + j) % RingSize = (d + k) % RingSize
             PROVE  j = k
  OBVIOUS
<1>1. /\ (d + j) % RingSize = IF d + j < RingSize THEN d + j ELSE d + j - RingSize
      /\ (d + k) % RingSize = IF d + k < RingSize THEN d + k ELSE d + k - RingSize
  BY Turning, RingAssumption
<1> QED
  BY <1>1, RingAssumption

\* One more step from a slot, taken before or after the others.
LEMMA TurningOn ==
    \A d \in Slots, k \in 0 .. RingSize - 1 :
        /\ (Successor(d) + k) % RingSize = (d + (k + 1)) % RingSize
        /\ Successor((d + k) % RingSize) = (d + (k + 1)) % RingSize
<1> SUFFICES ASSUME NEW d \in Slots, NEW k \in 0 .. RingSize - 1
             PROVE  /\ (Successor(d) + k) % RingSize = (d + (k + 1)) % RingSize
                    /\ Successor((d + k) % RingSize) = (d + (k + 1)) % RingSize
  OBVIOUS
<1>1. RingSize \in Nat \ {0} /\ k \in 0..RingSize /\ k + 1 \in 0..RingSize /\ 1 \in 0..RingSize
  BY RingAssumption
<1>2. Successor(d) \in Slots /\ (d + k) % RingSize \in Slots
  BY <1>1, SlotFacts
<1>3. /\ Successor(d) = IF d + 1 < RingSize THEN d + 1 ELSE d + 1 - RingSize
      /\ (d + (k + 1)) % RingSize = IF d + (k + 1) < RingSize THEN d + (k + 1)
                                    ELSE d + (k + 1) - RingSize
      /\ (d + k) % RingSize = IF d + k < RingSize THEN d + k ELSE d + k - RingSize
  BY <1>1, Turning DEF Successor
<1>4. (Successor(d) + k) % RingSize = IF Successor(d) + k < RingSize THEN Successor(d) + k
                                      ELSE Successor(d) + k - RingSize
  BY <1>1, <1>2, Turning
<1>5. DEFINE e == (d + k) % RingSize
<1>6. Successor(e) = IF e + 1 < RingSize THEN e + 1 ELSE e + 1 - RingSize
  BY <1>1, <1>2, Turning DEF Successor
<1> QED
  BY <1>1, <1>3, <1>4, <1>6

\* A step that hands nothing to the DMA and takes nothing from it moves no frame, as
\* every descriptor of the DMA points to its own buffer and the task writes none of the DMA's.
LEMMA NoFrameMoves ==
    ASSUME IInv, IInv', WireInv, UNCHANGED <<own, tail, dma, accepted, wire>>,
           (pc' = "advance") <=> (pc = "advance"),
           \A s \in Slots : own[s] => content'[s] = content[s]
    PROVE  WireInv'
<1>1. \A s \in Slots : own[s] => des0[s] = s /\ des0'[s] = s
  BY DEF IInv, RingInv
<1>2. InFlight' = InFlight
  BY DEF InFlight
<1>3. \A k \in 0 .. RingSize - 1 : (dma + k) % RingSize \in Slots
  <2>1. dma \in Slots /\ RingSize \in Nat
    BY RingAssumption DEF IInv, TypeOK
  <2> QED
    BY <2>1, TurningBack
<1>4. WireOrder'
  BY <1>1, <1>2, <1>3 DEF WireInv, WireOrder
<1>5. TailIsBehind'
  BY <1>2 DEF WireInv, TailIsBehind
<1> QED
  BY <1>4, <1>5 DEF WireInv

\* The store of OWN puts the frame behind those in flight: the ring is not full, or the
\* DMA would own the tail descriptor.
LEMMA GiveToDmaWire == ASSUME IInv, IInv', WireInv, GiveToDma PROVE WireInv'
<1> DEFINE At(k) == (dma + k) % RingSize
<1>1. /\ RingSize \in Nat \ {0}
      /\ dma \in Slots
      /\ tail \in Slots
      /\ own \in [Slots -> BOOLEAN]
      /\ accepted \in Seq(Nat)
      /\ wire \in Seq(Nat)
      /\ content[tail] \in Nat
  BY RingAssumption DEF IInv, TypeOK
<1>2. /\ \A s \in Slots : own[s] \/ s = tail => des0[s] = s /\ des0'[s] = s
      /\ pc = "give" /\ pc' = "advance"
      /\ ~own[tail]
      /\ own' = [own EXCEPT ![tail] = TRUE]
      /\ accepted' = Append(accepted, content[tail])
      /\ UNCHANGED <<dma, tail, wire, content>>
  <2>1. /\ pc = "give" /\ pc' = "advance"
        /\ own' = [own EXCEPT ![tail] = TRUE]
        /\ accepted' = Append(accepted, content[des0[tail]])
        /\ UNCHANGED <<dma, tail, wire, content>>
    BY DEF GiveToDma, TaskRuns
  <2>2. \A s \in Slots : own[s] \/ s = tail => des0[s] = s /\ des0'[s] = s
    BY <2>1 DEF IInv, RingInv, GiveToDma
  <2>3. ~own[tail]
    BY <2>1 DEF IInv, RingInv
  <2> QED
    BY <1>1, <2>1, <2>2, <2>3
<1>3. /\ InFlight \in 0..RingSize
      /\ InFlight = Len(accepted) - Len(wire)
      /\ Len(accepted) \in Nat
      /\ Len(wire) \in Nat
  BY <1>1 DEF WireInv, WireOrder, InFlight
<1>4. tail = At(InFlight)
  BY <1>2 DEF WireInv, TailIsBehind
<1>5. InFlight # RingSize
  <2> SUFFICES ASSUME InFlight = RingSize PROVE FALSE
    OBVIOUS
  <2>1. At(RingSize) = dma /\ At(0) = dma
    BY <1>1, TurningBack
  <2>2. 0 \in 0 .. RingSize - 1 /\ 0 < InFlight
    BY <1>1
  <2>3. own[At(0)]
    BY <2>2 DEF WireInv, WireOrder
  <2> QED
    BY <1>2, <1>4, <2>1, <2>3
<1>6. /\ Len(accepted') = Len(accepted) + 1
      /\ InFlight' = InFlight + 1
      /\ accepted'[Len(accepted) + 1] = content[tail]
      /\ \A i \in 1..Len(accepted) : accepted'[i] = accepted[i]
  BY <1>1, <1>2 DEF InFlight
<1>7. InFlight \in 0 .. RingSize - 1
  <2>1. \A n \in Nat \ {0} : \A i \in 0..n : i # n => i \in 0 .. n - 1
    BY SMT
  <2> QED
    BY <1>1, <1>3, <1>5, <2>1
<1>8. wire' = SubSeq(accepted', 1, Len(wire'))
  <2>1. wire = SubSeq(accepted, 1, Len(wire)) /\ Len(wire) <= Len(accepted)
    BY <1>3 DEF WireInv, WireOrder
  <2> QED
    BY <1>1, <1>2, <2>1
<1>9. ASSUME NEW k \in 0 .. RingSize - 1
      PROVE  /\ own'[At(k)] <=> k < InFlight'
             /\ own'[At(k)] => /\ des0'[At(k)] \in Slots
                               /\ content'[des0'[At(k)]] = accepted'[Len(wire') + k + 1]
  <2>1. At(k) \in Slots
    BY <1>1
  <2>2. CASE k = InFlight
    <3>1. Len(wire) + k + 1 = Len(accepted) + 1
      BY <1>3, <2>2
    <3>2. /\ own'[tail]
          /\ des0'[tail] = tail
          /\ content'[tail] = content[tail]
          /\ Len(wire') = Len(wire)
      BY <1>1, <1>2
    <3>3. k < InFlight'
      BY <1>3, <1>6, <2>2
    <3> QED
      BY <1>1, <1>4, <1>6, <2>2, <3>1, <3>2, <3>3
  <2>3. CASE k # InFlight
    <3>1. At(k) # tail
      BY <1>1, <1>4, <1>7, <2>3, TurningApart
    <3>2. own'[At(k)] = own[At(k)]
      BY <1>1, <1>2, <2>1, <3>1
    <3>3. own[At(k)] <=> k < InFlight
      BY DEF WireInv, WireOrder
    <3>4. own[At(k)] => content[At(k)] = accepted[Len(wire) + k + 1]
      BY <1>2, <2>1 DEF WireInv, WireOrder
    <3>5. k < InFlight' <=> k < InFlight
      BY <1>3, <1>6, <2>3
    <3>6. k < InFlight => Len(wire) + k + 1 \in 1..Len(accepted)
      BY <1>3
    <3> QED
      BY <1>2, <1>6, <2>1, <3>2, <3>3, <3>4, <3>5, <3>6
  <2> QED
    BY <2>2, <2>3
<1>10. WireOrder'
  <2>1. InFlight' \in 0..RingSize
    BY <1>1, <1>6, <1>7
  <2>2. dma' = dma
    BY <1>2
  <2> QED
    BY <1>8, <1>9, <2>1, <2>2 DEF WireOrder
<1>11. TailIsBehind'
  <2>1. Successor(tail) = At(InFlight + 1)
    BY <1>1, <1>4, <1>7, TurningOn
  <2> QED
    BY <1>2, <1>6, <2>1 DEF TailIsBehind, Successor
<1> QED
  BY <1>10, <1>11 DEF WireInv

\* The DMA sends the oldest frame in flight, which lies where it stands.
LEMMA DmaSendWire == ASSUME IInv, IInv', WireInv, DmaSend PROVE WireInv'
<1> DEFINE At(k) == (dma + k) % RingSize
<1>1. /\ RingSize \in Nat \ {0}
      /\ dma \in Slots
      /\ tail \in Slots
      /\ own \in [Slots -> BOOLEAN]
      /\ accepted \in Seq(Nat)
      /\ wire \in Seq(Nat)
      /\ content[dma] \in Nat
  BY RingAssumption DEF IInv, TypeOK
<1>2. /\ \A s \in Slots : /\ own[s] => des0[s] = s
                          /\ own'[s] => des0'[s] = s
      /\ own[dma]
      /\ own' = [own EXCEPT ![dma] = FALSE]
      /\ wire' = Append(wire, content[dma])
      /\ dma' = Successor(dma)
      /\ UNCHANGED <<pc, tail, accepted, content>>
  <2>1. \A s \in Slots : (own[s] => des0[s] = s) /\ (own'[s] => des0'[s] = s)
    BY DEF IInv, RingInv
  <2> QED
    BY <1>1, <2>1 DEF DmaSend
<1>3. /\ InFlight \in 0..RingSize
      /\ InFlight = Len(accepted) - Len(wire)
      /\ Len(accepted) \in Nat
      /\ Len(wire) \in Nat
  BY <1>1 DEF WireInv, WireOrder, InFlight
<1>4. At(0) = dma /\ 0 \in 0 .. RingSize - 1
  <2>1. At(0) = dma
    BY <1>1, TurningBack
  <2>2. 0 \in 0 .. RingSize - 1
    BY <1>1
  <2> QED
    BY <2>1, <2>2
<1>5. 0 < InFlight /\ content[dma] = accepted[Len(wire) + 1]
  <2>1. /\ own[At(0)] <=> 0 < InFlight
        /\ own[At(0)] => content[des0[At(0)]] = accepted[Len(wire) + 0 + 1]
    BY <1>4 DEF WireInv, WireOrder
  <2>2. des0[dma] = dma
    BY <1>1, <1>2
  <2>3. Len(wire) + 0 + 1 = Len(wire) + 1
    BY <1>3
  <2> HIDE DEF At
  <2> QED
    BY <1>2, <1>4, <2>1, <2>2, <2>3
<1>6. Len(wire') = Len(wire) + 1 /\ InFlight' = InFlight - 1
  BY <1>1, <1>2 DEF InFlight
<1>7. wire' = SubSeq(accepted', 1, Len(wire'))
  <2>1. wire = SubSeq(accepted, 1, Len(wire)) /\ Len(wire) + 1 <= Len(accepted)
    BY <1>3, <1>5 DEF WireInv, WireOrder
  <2>2. SubSeq(accepted, 1, Len(wire) + 1)
            = Append(SubSeq(accepted, 1, Len(wire)), accepted[Len(wire) + 1])
    BY <1>1, <1>3, <2>1, PrefixGrows
  <2> QED
    BY <1>2, <1>5, <1>6, <2>1, <2>2
<1>8. ASSUME NEW k \in 0 .. RingSize - 1
      PROVE  LET s == (dma' + k) % RingSize
             IN  /\ own'[s] <=> k < InFlight'
                 /\ own'[s] => /\ des0'[s] \in Slots
                               /\ content'[des0'[s]] = accepted'[Len(wire') + k + 1]
  <2>1. (dma' + k) % RingSize = At(k + 1)
    BY <1>1, <1>2, TurningOn
  <2>2. At(k + 1) \in Slots
    BY <1>1
  <2>3. CASE k = RingSize - 1
    <3>1. At(k + 1) = dma
      BY <1>1, <2>3, Turning
    <3>2. ~own'[dma] /\ ~(k < InFlight')
      BY <1>1, <1>2, <1>3, <1>6, <2>3
    <3> QED
      BY <2>1, <3>1, <3>2
  <2>4. CASE k # RingSize - 1
    <3>1. k + 1 \in 0 .. RingSize - 1
      BY <1>1, <2>4
    <3>2. At(k + 1) # dma
      <4>1. k + 1 # 0
        BY SMT
      <4>2. At(k + 1) # At(0)
        BY <1>1, <1>4, <3>1, <4>1, TurningApart
      <4> QED
        BY <1>4, <4>2
    <3>3. own'[At(k + 1)] = own[At(k + 1)]
      BY <1>1, <1>2, <2>2, <3>2
    <3>4. own[At(k + 1)] <=> k + 1 < InFlight
      BY <3>1 DEF WireInv, WireOrder
    <3>5. own[At(k + 1)] => content[At(k + 1)] = accepted[Len(wire) + (k + 1) + 1]
      BY <1>2, <2>2, <3>1 DEF WireInv, WireOrder
    <3>6. (k < InFlight' <=> k + 1 < InFlight) /\ Len(wire') + k + 1 = Len(wire) + (k + 1) + 1
      BY <1>3, <1>6
    <3> QED
      BY <1>2, <2>1, <2>2, <3>3, <3>4, <3>5, <3>6
  <2> QED
    BY <2>3, <2>4
<1>9. WireOrder'
  <2>1. InFlight' \in 0..RingSize
    BY <1>1, <1>3, <1>5, <1>6
  <2> QED
    BY <1>7, <1>8, <2>1 DEF WireOrder
<1>10. TailIsBehind'
  <2>1. InFlight - 1 \in 0 .. RingSize - 1 /\ (InFlight - 1) + 1 = InFlight
    BY <1>1, <1>3, <1>5
  <2>2. (Successor(dma) + (InFlight - 1)) % RingSize = (dma + ((InFlight - 1) + 1)) % RingSize
    BY <1>1, <2>1, TurningOn
  <2>3. (dma' + InFlight') % RingSize = (dma + InFlight) % RingSize
    BY <1>2, <1>6, <2>1, <2>2
  <2> QED
    BY <1>2, <2>3 DEF WireInv, TailIsBehind, Successor
<1> QED
  BY <1>9, <1>10 DEF WireInv

\* No other step of the task or of the interrupt moves a frame.
LEMMA WireStep == ASSUME IInv, IInv', WireInv, [Next]_vars PROVE WireInv'
<1>1. CASE \E len \in FrameLens : CopyFrame(len)
  <2>1. PICK len \in FrameLens : CopyFrame(len)
    BY <1>1
  <2>2. /\ content' = [content EXCEPT ![bufIdx] = attempts]
        /\ ~own[bufIdx]
        /\ content \in [Slots -> Nat]
    <3>1. frameBuf = bufIdx /\ ~own[bufIdx]
      BY <2>1, SlotFacts DEF CopyFrame, TaskRuns, IInv, RingInv
    <3> QED
      BY <2>1, <3>1 DEF CopyFrame, IInv, TypeOK
  <2>3. \A s \in Slots : own[s] => content'[s] = content[s]
    BY <2>2
  <2>4. /\ UNCHANGED <<own, tail, dma, accepted, wire>>
        /\ pc # "advance" /\ pc' # "advance"
    BY <2>1 DEF CopyFrame, TaskRuns
  <2> QED
    BY <2>3, <2>4, NoFrameMoves
<1>2. CASE AdvanceTail
  <2>1. /\ pc = "advance" /\ pc' = "idle"
        /\ tail' = Successor(tail)
        /\ UNCHANGED <<own, des0, content, dma, accepted, wire>>
    BY <1>2 DEF AdvanceTail, TaskRuns
  <2>2. InFlight' = InFlight
    BY <2>1 DEF InFlight
  <2>3. WireOrder'
    BY <2>1, <2>2 DEF WireInv, WireOrder
  <2>4. TailIsBehind'
    BY <2>1, <2>2 DEF WireInv, TailIsBehind
  <2> QED
    BY <2>3, <2>4 DEF WireInv
<1>3. CASE TaskStep /\ ~(\E len \in FrameLens : CopyFrame(len)) /\ ~AdvanceTail /\ ~GiveToDma
  <2>1. /\ UNCHANGED <<own, tail, dma, accepted, wire, content>>
        /\ pc # "advance" /\ pc' # "advance"
    BY <1>3 DEF TaskStep, TaskRuns, ProvideBusy, ProvideTxBuffer, CopyOutsideRing,
       TestHead, SetHead, LinkTail, SetTail, EndList, SendFrame
  <2> QED
    BY <2>1, NoFrameMoves
<1>4. CASE IrqStep \/ UNCHANGED vars
  <2>1. UNCHANGED <<own, tail, dma, accepted, wire, content, pc>>
    BY <1>4 DEF IrqStep, TxIrqEnter, ReportEntry, TxIrqExit, vars
  <2> QED
    BY <2>1, NoFrameMoves
<1>5. CASE GiveToDma
  BY <1>5, GiveToDmaWire
<1>6. CASE DmaSend
  BY <1>6, DmaSendWire
<1> QED
  BY <1>1, <1>2, <1>3, <1>4, <1>5, <1>6 DEF Next

\* The frames the DMA puts on the wire are those Eth_Transmit accepted, once each and
\* in that order, and what is still in the ring lies in order from the DMA's position,
\* for any ring size and any preemption between the stores of Gmac_Ip_SendFrame.
THEOREM WireKeepsOrder == Spec => []WireOrder
<1>1. Init => WireInv
  <2> SUFFICES ASSUME Init PROVE WireInv
    OBVIOUS
  <2>1. InFlight = 0 /\ RingSize \in Nat \ {0}
    BY RingAssumption DEF Init, InFlight
  <2>2. \A k \in 0 .. RingSize - 1 : (0 + k) % RingSize \in Slots
    BY <2>1
  <2>3. WireOrder
    <3>1. \A k \in 0 .. RingSize - 1 : ~own[(dma + k) % RingSize] /\ ~(k < InFlight)
      <4>1. \A s \in Slots : ~own[s]
        BY DEF Init
      <4>2. dma = 0
        BY DEF Init
      <4> QED
        BY <2>1, <2>2, <4>1, <4>2
    <3>2. InFlight \in 0..RingSize
      BY <2>1
    <3>3. wire = SubSeq(accepted, 1, Len(wire))
      BY DEF Init
    <3> QED
      BY <3>1, <3>2, <3>3 DEF WireOrder
  <2>4. TailIsBehind
    BY <2>1 DEF Init, TailIsBehind
  <2> QED
    BY <2>3, <2>4 DEF WireInv
<1>2. IInv /\ IInv' /\ WireInv /\ [Next]_vars => WireInv'
  BY WireStep
<1>3. WireInv => WireOrder
  BY DEF WireInv
<1> QED
  BY <1>1, <1>2, <1>3, Invariance, PTL DEF Spec
=============================================================================
