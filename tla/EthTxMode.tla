----------------------------- MODULE EthTxMode -----------------------------
(***************************************************************************)
(* The transmit path across controller mode changes.  The task of EthTx    *)
(* also calls Eth_SetControllerMode (RTD/src/Eth.c): for ETH_MODE_DOWN it  *)
(* walks the request list and clears it, then Gmac_Ip_DisableController    *)
(* stops the DMA, waits for the queues and restores the descriptors.       *)
(* Nothing masks the Tx interrupt meanwhile, and Eth_ReportTransmission    *)
(* does not look at the mode.  Eth_ProvideTxBuffer works in either mode,   *)
(* Eth_Transmit refuses when the controller is not active.                 *)
(***************************************************************************)
EXTENDS EthTx

CONSTANT MaxDowns \* bound: number of calls that ask for ETH_MODE_DOWN

ASSUME MaxDownsAssumption == MaxDowns \in Nat

VARIABLES
    mpc,     \* position of the mode change, "up" or "down" when none is running
    mIter,   \* Iter of Eth_SetControllerMode
    running, \* DMA_TX_CONTROL.ST
    downs,   \* number of calls that asked for ETH_MODE_DOWN
    clean,   \* no call for ETH_MODE_DOWN has returned E_NOT_OK so far
    since    \* history: number of frames tried when the controller last started

mode == <<mpc, mIter, running, downs, clean, since>>
modeVars == <<vars, mode>>

ModeInit ==
    /\ Init
    /\ mpc = "up"
    /\ mIter = NULL
    /\ running = TRUE
    /\ downs = 0
    /\ clean = TRUE
    /\ since = 0

\* The task is between two calls of the transmit path.
ModeChange(at) == ~inIrq /\ pc = "idle" /\ mpc = at
-----------------------------------------------------------------------------
SetModeDown ==
    /\ ModeChange("up")
    /\ downs < MaxDowns
    /\ downs' = downs + 1
    /\ mIter' = qHead
    /\ mpc' = "clear"
    /\ UNCHANGED <<vars, running, clean, since>>

\* Slip: the loop looks at the head of the list again.
Mut_ClearRequest ==
    /\ ModeChange("clear")
    /\ mIter # NULL
    /\ bufData' = [bufData EXCEPT ![mIter] = NULL]
    /\ mIter' = qHead
    /\ UNCHANGED <<descriptors, txCurrent, tail, dma, ti, next, qHead, qTail, task,
                   inIrq, iter, memory, accepted, wire, confirmed, early,
                   mpc, running, downs, clean, since>>

\* Iter->pu8BufferData = NULL_PTR, one entry of the list.
ClearRequest ==
    /\ ModeChange("clear")
    /\ mIter # NULL
    /\ bufData' = [bufData EXCEPT ![mIter] = NULL]
    /\ mIter' = next[mIter]
    /\ UNCHANGED <<descriptors, txCurrent, tail, dma, ti, next, qHead, qTail, task,
                   inIrq, iter, memory, accepted, wire, confirmed, early,
                   mpc, running, downs, clean, since>>

\* pQueueHead = NULL_PTR
EmptyList ==
    /\ ModeChange("clear")
    /\ mIter = NULL
    /\ qHead' = NULL
    /\ mpc' = "stop"
    /\ UNCHANGED <<descriptors, txCurrent, tail, dma, ti, bufData, next, qTail,
                   task, inIrq, iter, memory, accepted, wire, confirmed, early,
                   mIter, running, downs, clean, since>>

StopTxDma ==
    /\ ModeChange("stop")
    /\ running' = FALSE
    /\ mpc' = "drain"
    /\ UNCHANGED <<vars, mIter, downs, clean, since>>

\* Gmac_Ip_CheckMTLEmpty times out on the transmit queues: the call returns
\* E_NOT_OK with the MAC still enabled, the DMA stopped and the list cleared.
TxDrainTimeout ==
    /\ ModeChange("drain")
    /\ clean' = FALSE
    /\ mpc' = "up"
    /\ UNCHANGED <<vars, mIter, running, downs, since>>

\* The MAC is disabled, then the receive queues time out.
RxDrainTimeout ==
    /\ ModeChange("drain")
    /\ clean' = FALSE
    /\ mpc' = "down"
    /\ UNCHANGED <<vars, mIter, running, downs, since>>

\* Slips: descriptors without a request are skipped; OWN is left set.
Mut_RestoreListed ==
    /\ ModeChange("drain")
    /\ des0' = [s \in Slots |-> IF info0[s] # NULL THEN info0[s] ELSE des0[s]]
    /\ info0' = [s \in Slots |-> NULL]
    /\ own' = [s \in Slots |-> own[s] /\ info0[s] = NULL]
    /\ locked' = [s \in Slots |-> locked[s] /\ info0[s] = NULL]
    /\ mpc' = "down"
    /\ UNCHANGED <<txCurrent, tail, dma, ti, requests, task, inIrq, iter, memory,
                   accepted, wire, confirmed, early, mIter, running, downs, clean,
                   since>>

Mut_RestoreKeepsOwn ==
    /\ ModeChange("drain")
    /\ des0' = [s \in Slots |-> IF info0[s] # NULL THEN info0[s] ELSE des0[s]]
    /\ info0' = [s \in Slots |-> NULL]
    /\ locked' = [s \in Slots |-> FALSE]
    /\ mpc' = "down"
    /\ UNCHANGED <<own, txCurrent, tail, dma, ti, requests, task, inIrq, iter,
                   memory, accepted, wire, confirmed, early, mIter, running, downs,
                   clean, since>>

\* Gmac_Ip_RestoreTxDescr.  TxCurrentDesc, the tail pointer and the position of
\* the DMA stay where they are.
RestoreTxDescr ==
    /\ ModeChange("drain")
    /\ des0' = [s \in Slots |-> IF info0[s] # NULL THEN info0[s] ELSE des0[s]]
    /\ info0' = [s \in Slots |-> NULL]
    /\ own' = [s \in Slots |-> FALSE]
    /\ locked' = [s \in Slots |-> FALSE]
    /\ mpc' = "down"
    /\ UNCHANGED <<txCurrent, tail, dma, ti, requests, task, inIrq, iter, memory,
                   accepted, wire, confirmed, early, mIter, running, downs, clean,
                   since>>

\* Eth_SetControllerMode(ETH_MODE_ACTIVE) -> Gmac_Ip_EnableController, also
\* after a failed call for ETH_MODE_DOWN.
EnableController ==
    /\ \/ ModeChange("down")
       \/ ModeChange("up") /\ ~running
    /\ running' = TRUE
    /\ mpc' = "up"
    /\ since' = attempts
    /\ UNCHANGED <<vars, mIter, downs, clean>>

SetControllerMode ==
    \/ SetModeDown
    \/ ClearRequest
    \/ EmptyList
    \/ StopTxDma
    \/ TxDrainTimeout
    \/ RxDrainTimeout
    \/ RestoreTxDescr
    \/ EnableController
-----------------------------------------------------------------------------
\* Eth_Transmit reports ETH_E_INV_MODE: the granted descriptor stays locked.
TransmitRefused ==
    /\ TaskRuns("test_head")
    /\ mpc = "down"
    /\ pc' = "idle"
    /\ UNCHANGED <<descriptors, txCurrent, tail, dma, ti, requests, bufIdx,
                   frameBuf, attempts, inIrq, iter, memory, accepted, wire,
                   confirmed, early>>

TransmitCall ==
    \/ /\ mpc = "up" \/ (mpc = "down" /\ pc # "test_head")
       /\ TaskStep
    \/ TransmitRefused

ModeNext ==
    \/ SetControllerMode
    \/ TransmitCall /\ UNCHANGED mode
    \/ IrqStep /\ UNCHANGED mode
    \/ running /\ DmaSend /\ UNCHANGED mode

ModeSpec == ModeInit /\ [][ModeNext]_modeVars

\* A call that has begun is continued, the interrupt is taken and runs on.
ModeFairSpec ==
    /\ ModeSpec
    /\ WF_modeVars(IrqStep /\ UNCHANGED mode)
    /\ WF_modeVars(mpc \notin {"up", "down"} /\ SetControllerMode)
-----------------------------------------------------------------------------
\* "clear all pending Tx requests and unlock all Tx buffers" (Gmac_Ip.c:1319):
\* after a clean ETH_MODE_DOWN, before the next call, no request is listed or
\* owned by the DMA and every descriptor is free, whatever was granted, listed
\* or lost behind a dequeued entry before.
DownReleasesAll ==
    [][mpc = "drain" /\ mpc' = "down" /\ clean' =>
         /\ qHead' = NULL
         /\ \A s \in Slots : ~own'[s] /\ ~locked'[s] /\ info0'[s] = NULL]_modeVars

\* "no buffer is retransmitted" (Eth_Ipw.c:794): a frame from before the last
\* clean start never goes out after it.
NoStaleTransmission ==
    [][wire' # wire /\ clean => wire'[Len(wire')] > since]_modeVars

\* The mode change ends, and so does the interrupt, although each may change
\* the list the other one walks.
ModeChangeEnds == (mpc \notin {"up", "down"}) ~> (mpc \in {"up", "down"})
=============================================================================
