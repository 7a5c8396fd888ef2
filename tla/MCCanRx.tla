------------------------------ MODULE MCCanRx ------------------------------
(***************************************************************************)
(* Frames for TLC: mailbox m filters id m + 1, and the ids have different  *)
(* lengths.  Id 0, which a zeroed buffer shows, is no mailbox's.           *)
(***************************************************************************)
EXTENDS CanRx

MCFrameOf(m, n) == [msgId |-> m + 1, dataLen |-> IF m = 0 THEN 1 ELSE 4, data |-> n]
=============================================================================
