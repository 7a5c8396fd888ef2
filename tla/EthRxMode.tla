----------------------------- MODULE EthRxMode -----------------------------
(***************************************************************************)
(* The receive path across controller mode changes: a task calls           *)
(* Eth_SetControllerMode (RTD/src/Eth.c), which ends in                    *)
(* Gmac_Ip_DisableController or Gmac_Ip_EnableController, while the Rx     *)
(* interrupt and the DMA of EthRx go on.  The interrupt preempts the task  *)
(* between any two of its register accesses; it is never preempted by it.  *)
(* The clearing of the Tx requests is the subject of EthTxMode; a time-out *)
(* in the transmit queues returns before anything of the receive path is   *)
(* touched and is no step here.                                            *)
(***************************************************************************)
EXTENDS EthRx

CONSTANT MaxDowns \* bound: number of calls that ask for ETH_MODE_DOWN

ASSUME MaxDownsAssumption == MaxDowns \in Nat

VARIABLES
    mpc,   \* position of the mode change, "up" or "down" when none is running
    downs, \* number of calls that asked for ETH_MODE_DOWN
    clean  \* the last call for ETH_MODE_DOWN returned E_OK

mode == <<mpc, downs, clean>>
modeVars == <<vars, mode>>

ModeInit ==
    /\ Init
    /\ mpc = "up"
    /\ downs = 0
    /\ clean = TRUE

\* Eth_Ipw_GetControllerMode: MAC_CONFIGURATION has TE or RE set.
ControllerIsActive == mpc = "up"
-----------------------------------------------------------------------------
\* MAC_CONFIGURATION loses TE and RE: nothing new enters the receive queue, but
\* what is in it still flows.
DisableMac ==
    /\ ~inIrq
    /\ mpc = "up"
    /\ downs < MaxDowns
    /\ mpc' = "mac_off"
    /\ downs' = downs + 1
    /\ UNCHANGED <<vars, clean>>

StopRxDma ==
    /\ ~inIrq
    /\ mpc = "mac_off"
    /\ mpc' = "dma_off"
    /\ UNCHANGED <<vars, downs, clean>>

\* Slip: the buffer addresses the write-backs destroyed are not restored.
Mut_RestoreRxDescr ==
    /\ ~inIrq
    /\ mpc = "dma_off"
    /\ mpc' = "down"
    /\ clean' = TRUE
    /\ own' = [s \in Slots |-> TRUE]
    /\ consumed' = [s \in Slots |-> FALSE]
    /\ ctxt' = [s \in Slots |-> FALSE]
    /\ tsa' = [s \in Slots |-> FALSE]
    /\ err' = [s \in Slots |-> FALSE]
    /\ UNCHANGED <<des0, info0, positions, hardware, handler, indicated, downs>>

\* Gmac_Ip_RestoreRxDescr: the queue is empty, so every descriptor gets its
\* buffer back; RxCurrentDesc, RxAllocDesc and the DMA's own position stay.
RestoreRxDescr ==
    /\ ~inIrq
    /\ mpc = "dma_off"
    /\ mpc' = "down"
    /\ clean' = TRUE
    /\ des0' = info0
    /\ own' = [s \in Slots |-> info0[s] # NULL]
    /\ consumed' = [s \in Slots |-> FALSE]
    /\ ctxt' = [s \in Slots |-> FALSE]
    /\ tsa' = [s \in Slots |-> FALSE]
    /\ err' = [s \in Slots |-> FALSE]
    /\ UNCHANGED <<info0, positions, hardware, handler, indicated, downs>>

\* Gmac_Ip_CheckMTLEmpty times out: the descriptors are left as they are and
\* the call returns E_NOT_OK with the controller off.
RxDrainTimeout ==
    /\ ~inIrq
    /\ mpc = "dma_off"
    /\ mpc' = "down"
    /\ clean' = FALSE
    /\ UNCHANGED <<vars, downs>>

\* Gmac_Ip_EnableController: the DMA goes on where it stopped.
EnableController ==
    /\ ~inIrq
    /\ mpc = "down"
    /\ mpc' = "up"
    /\ suspended' = FALSE
    /\ UNCHANGED <<descriptors, positions, dma, ri, content, arrived, handler,
                   indicated, downs, clean>>

SetControllerMode ==
    \/ DisableMac
    \/ StopRxDma
    \/ RestoreRxDescr
    \/ RxDrainTimeout
    \/ EnableController

\* Eth_Receive looks at the mode first; the status stays ETH_NOT_RECEIVED
\* otherwise, and the interrupt ends.
Receives == ControllerIsActive /\ IrqStep

ReceiveRefused ==
    /\ ~ControllerIsActive
    /\ \/ RxIrqEnter
       \/ /\ pc = "read"
          /\ pc' = "idle"
          /\ UNCHANGED <<descriptors, positions, hardware, frameBuffer, bd, indicated>>

ModeNext ==
    \/ SetControllerMode
    \/ Receives /\ UNCHANGED mode
    \/ ReceiveRefused /\ UNCHANGED mode
    \/ mpc \in {"up", "mac_off"} /\ DmaStep /\ UNCHANGED mode

ModeSpec == ModeInit /\ [][ModeNext]_modeVars

\* A raised interrupt is taken and runs on; nothing is asked of the network or
\* of the task that changes the mode.
ModeFairSpec ==
    /\ ModeSpec
    /\ WF_modeVars((Receives \/ ReceiveRefused) /\ UNCHANGED mode)
-----------------------------------------------------------------------------
\* Every variable has its type.
ModeTypeOK ==
    /\ TypeOK
    /\ mpc \in {"up", "mac_off", "dma_off", "down"}
    /\ downs \in 0..MaxDowns
    /\ clean \in BOOLEAN

\* Until the controller is first taken down, EthIf_RxIndication sees the good
\* frames in the order of arrival, and the assertions of the driver hold.
IndicatesInOrder == downs = 0 => IndicatedInOrder /\ DevAssertsHold

\* Until then nothing is left behind when the interrupt is over: clearing RI
\* before the loop loses no frame, and the DMA is always woken again.
NothingLeftBehind == downs = 0 => NothingLeftUnread

\* A call for ETH_MODE_DOWN that returns E_OK leaves every descriptor with its
\* own buffer and with the DMA, whatever was in the ring.
DownIsClean ==
    mpc = "down" /\ clean =>
        \A s \in Slots : own[s] /\ ~consumed[s] /\ des0[s] = info0[s]

\* Buffers have a single owner, and none is written while it is read, across
\* any number of mode changes with and without time-outs in
\* Gmac_Ip_DisableController.
BuffersSurviveModeChange ==
    /\ ModeTypeOK
    /\ DownIsClean
    /\ BuffersConserved
    /\ NoReceiveIntoReadBuffer
=============================================================================
