---------------------------- MODULE MCAggregator ----------------------------
(***************************************************************************)
(* Small instance of the aggregation task for TLC.  MaxSend = 13 with PDU  *)
(* lengths 1 and 4 (4 and 7 bytes in the container) makes every case       *)
(* happen: a container filled exactly, one with room left that a PDU no    *)
(* longer fits into, and one flushed early by the gate.                    *)
(***************************************************************************)
EXTENDS Aggregator, TLC

\* Routing table of the instance: two mapped ids of different classes.
MCCanPduMap == (1 :> [pduId |-> 1001, tc |-> 0]) @@ (2 :> [pduId |-> 1002, tc |-> 4])
=============================================================================
