--------------------------- MODULE BatchForwarder ---------------------------
(***************************************************************************)
(* What the aggregation task promises to the CAN side: items stand in one  *)
(* line; from the front of the line a non-empty batch leaves at a time,    *)
(* either delivered as one Ethernet payload or dropped as a whole when the *)
(* Ethernet driver refuses it.                                             *)
(***************************************************************************)
EXTENDS Integers, Sequences

CONSTANT Items

VARIABLES
    pending,   \* accepted and not yet disposed of, in arrival order
    delivered  \* the batches handed to the Ethernet driver, in order

vars == <<pending, delivered>>

Init == pending = <<>> /\ delivered = <<>>

Front(k) == SubSeq(pending, 1, k)
Rest(k) == SubSeq(pending, k + 1, Len(pending))

Accept(x) ==
    /\ pending' = Append(pending, x)
    /\ UNCHANGED delivered

Deliver(k) ==
    /\ delivered' = Append(delivered, Front(k))
    /\ pending' = Rest(k)

Drop(k) ==
    /\ pending' = Rest(k)
    /\ UNCHANGED delivered

Next ==
    \/ \E x \in Items : Accept(x)
    \/ \E k \in 1..Len(pending) : Deliver(k) \/ Drop(k)

Spec == Init /\ [][Next]_vars
=============================================================================
