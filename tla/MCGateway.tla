----------------------------- MODULE MCGateway -----------------------------
(***************************************************************************)
(* Values for TLC: ids 1 and 2 with lengths 1 and 4; the zeroed buffer's   *)
(* id 0 is not in the routing table.                                       *)
(***************************************************************************)
EXTENDS Gateway, TLC

MCFrameOf(m, n) == [msgId |-> m + 1, dataLen |-> IF m = 0 THEN 1 ELSE 4, data |-> n]

MCCanPduMap == (1 :> [pduId |-> 1001, tc |-> 0]) @@ (2 :> [pduId |-> 1002, tc |-> 4])

MCPayloads == 0..MaxArrivals
=============================================================================
