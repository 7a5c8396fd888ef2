----------------------------- MODULE MCTasGate -----------------------------
(***************************************************************************)
(* Instance for TLC: somewhat more than one gate cycle around the change   *)
(* of the second, sampled every 0.1 ms, exactly at the boundaries of the   *)
(* slots, one nanosecond after and one before.                             *)
(***************************************************************************)
EXTENDS TasGate

MCStartTimes == {994900000 + offset : offset \in {0, 1, 99999}}
=============================================================================
