-------------------------- MODULE EthTxModeProofs --------------------------
(***************************************************************************)
(* Proofs about mode changes of the transmit path.  Between the store that *)
(* empties the request list and the return of Eth_SetControllerMode the    *)
(* interrupt may run at any time; it finds no head to start from and so    *)
(* cannot bring back an entry it had been walking.                         *)
(***************************************************************************)
EXTENDS EthTxMode, TLAPS

\* The mode change has emptied the request list and not yet returned.
Emptied == mpc \in {"stop", "drain"}

\* The list stays empty, and an interrupt that runs has nothing to walk.
EmptyInv == Emptied => qHead = NULL /\ (inIrq => iter = NULL)

USE DEF mode, vars, descriptors, requests, task, memory

\* The interrupt keeps the list empty: its walk starts from pQueueHead.
LEMMA IrqKeepsEmpty == ASSUME EmptyInv, IrqStep, UNCHANGED mode PROVE EmptyInv'
<1>1. CASE TxIrqEnter
  BY <1>1 DEF TxIrqEnter, EmptyInv, Emptied
<1>2. CASE \E s \in Slots : ReportEntry(s)
  BY <1>2 DEF ReportEntry, EmptyInv, Emptied
<1>3. CASE TxIrqExit
  BY <1>3 DEF TxIrqExit, EmptyInv, Emptied
<1> QED
  BY <1>1, <1>2, <1>3 DEF IrqStep

\* A step of Eth_SetControllerMode empties the list before it stops the DMA, and none
\* of its later steps touches the list or runs inside the interrupt.
LEMMA ChangeKeepsEmpty == ASSUME EmptyInv, SetControllerMode PROVE EmptyInv'
<1>1. CASE SetModeDown \/ ClearRequest
  BY <1>1 DEF SetModeDown, ClearRequest, ModeChange, EmptyInv, Emptied
<1>2. CASE EmptyList
  BY <1>2 DEF EmptyList, ModeChange, EmptyInv, Emptied
<1>3. CASE StopTxDma
  BY <1>3 DEF StopTxDma, ModeChange, EmptyInv, Emptied
<1>4. CASE TxDrainTimeout \/ RxDrainTimeout \/ RestoreTxDescr \/ EnableController
  BY <1>4 DEF TxDrainTimeout, RxDrainTimeout, RestoreTxDescr, EnableController,
     EmptyInv, Emptied
<1> QED
  BY <1>1, <1>2, <1>3, <1>4 DEF SetControllerMode

\* No transmit call runs while a mode change does.
LEMMA CallsKeepEmpty == ASSUME EmptyInv, TransmitCall, UNCHANGED mode PROVE EmptyInv'
<1>1. ~Emptied
  BY DEF TransmitCall, TransmitRefused, Emptied
<1> QED
  BY <1>1 DEF EmptyInv, Emptied

LEMMA EmptyStep == ASSUME EmptyInv, [ModeNext]_modeVars PROVE EmptyInv'
<1>1. CASE running /\ DmaSend /\ UNCHANGED mode
  BY <1>1 DEF DmaSend, EmptyInv, Emptied
<1>2. CASE UNCHANGED modeVars
  BY <1>2 DEF modeVars, EmptyInv, Emptied
<1> QED
  BY <1>1, <1>2, ChangeKeepsEmpty, CallsKeepEmpty, IrqKeepsEmpty DEF ModeNext

\* When Eth_SetControllerMode(ETH_MODE_DOWN) succeeds, no request is listed, the DMA
\* owns no descriptor and every descriptor is unlocked, for any ring size, whatever was
\* granted, listed or lost before and however often the Tx interrupt ran meanwhile.
THEOREM DownIsComplete == ModeSpec => DownReleasesAll
<1> DEFINE Released == mpc = "drain" /\ mpc' = "down" /\ clean' =>
               /\ qHead' = NULL
               /\ \A s \in Slots : ~own'[s] /\ ~locked'[s] /\ info0'[s] = NULL
<1>1. ModeInit => EmptyInv
  BY DEF ModeInit, EmptyInv, Emptied
<1>2. EmptyInv /\ [ModeNext]_modeVars => EmptyInv'
  BY EmptyStep
<1>3. EmptyInv /\ [ModeNext]_modeVars => [Released]_modeVars
  <2> SUFFICES ASSUME EmptyInv, ModeNext, mpc = "drain", mpc' = "down", clean'
               PROVE  /\ qHead' = NULL
                      /\ \A s \in Slots : ~own'[s] /\ ~locked'[s] /\ info0'[s] = NULL
    OBVIOUS
  <2>1. RestoreTxDescr
    <3>1. SetControllerMode
      BY DEF ModeNext
    <3> QED
      BY <3>1 DEF SetControllerMode, SetModeDown, ClearRequest, EmptyList, StopTxDma,
         TxDrainTimeout, RxDrainTimeout, EnableController, ModeChange
  <2>2. qHead' = NULL
    BY <2>1 DEF RestoreTxDescr, EmptyInv, Emptied
  <2>3. \A s \in Slots : ~own'[s] /\ ~locked'[s] /\ info0'[s] = NULL
    BY <2>1 DEF RestoreTxDescr
  <2> QED
    BY <2>2, <2>3
<1> QED
  BY <1>1, <1>2, <1>3, PTL DEF ModeSpec, DownReleasesAll
=============================================================================
