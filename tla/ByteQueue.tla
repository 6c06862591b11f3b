------------------------------ MODULE ByteQueue ------------------------------
(***************************************************************************)
(* What a Buffer promises its users: a queue of bytes that grows and       *)
(* shrinks at both ends and never loses, adds or reorders a byte by        *)
(* itself.  Where the bytes are kept, and how much room there is around    *)
(* them, does not show.                                                    *)
(***************************************************************************)
EXTENDS Naturals, Sequences

CONSTANT Data    \* the strings of bytes a call can hand over

VARIABLE queue   \* the readable bytes, the oldest first

AppendBytes(data) == queue' = queue \o data
PrependBytes(data) == queue' = data \o queue
RetrieveBytes(n) == queue' = SubSeq(queue, n + 1, Len(queue))
UnwriteBytes(n) == queue' = SubSeq(queue, 1, Len(queue) - n)

Init == queue = <<>>

Next ==
  \/ \E data \in Data : AppendBytes(data) \/ PrependBytes(data)
  \/ \E n \in 0..Len(queue) : RetrieveBytes(n) \/ UnwriteBytes(n)

Spec == Init /\ [][Next]_queue
=============================================================================
