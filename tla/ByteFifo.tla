------------------------------ MODULE ByteFifo ------------------------------
(***************************************************************************)
(* What the byte buffers of public/comm/buffer.h promise to a caller: a    *)
(* first-in first-out queue of bytes.  Every operation appends bytes at    *)
(* the back, takes bytes from the front (clear() takes all of them), or    *)
(* leaves the contents alone.                                              *)
(***************************************************************************)
EXTENDS Integers, Sequences

VARIABLE q            \* the bytes a reader would get, oldest first

Init == q = <<>>

\* Bytes already queued keep their place; new ones follow them.
PutBack == Len(q) <= Len(q') /\ SubSeq(q', 1, Len(q)) = q

\* Only the oldest bytes leave.
TakeFront == Len(q') <= Len(q) /\ q' = SubSeq(q, Len(q) - Len(q') + 1, Len(q))

Next == PutBack \/ TakeFront

Spec == Init /\ [][Next]_q
=============================================================================
