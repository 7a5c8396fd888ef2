---------------------------- MODULE BoundedQueue ----------------------------
(***************************************************************************)
(* What a FreeRTOS queue promises: at most Length items, put at the back   *)
(* or at the front and taken from the front.                               *)
(***************************************************************************)
EXTENDS Integers, Sequences

CONSTANTS
    Items,
    Length

VARIABLES
    content, \* the items in the queue, the next one to be taken first
    taken    \* the item taken last, <<>> before the first

Init == content = <<>> /\ taken = <<>>

Put(i) ==
    /\ Len(content) < Length
    /\ content' \in {Append(content, i), <<i>> \o content}
    /\ UNCHANGED taken

Take ==
    /\ content # <<>>
    /\ content' = Tail(content)
    /\ taken' = <<Head(content)>>

Next == Take \/ \E i \in Items : Put(i)

Spec == Init /\ [][Next]_<<content, taken>>
=============================================================================
