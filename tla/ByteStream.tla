------------------------------ MODULE ByteStream ------------------------------
(***************************************************************************)
(* What a port promises in one direction: a bounded queue of bytes that one *)
(* side appends to, byte by byte, and the other takes from in chunks.       *)
(***************************************************************************)
EXTENDS Naturals, Sequences

CONSTANTS Byte, Capacity, MaxChunk

VARIABLES
  queue,  \* written and not taken yet
  taken   \* the chunk taken last

Init == queue = <<>> /\ taken = <<>>

Put ==
  /\ Len(queue) < Capacity
  /\ \E b \in Byte : queue' = Append(queue, b)
  /\ UNCHANGED taken

Take ==
  \E n \in 1 .. MaxChunk :
    /\ n <= Len(queue)
    /\ taken' = SubSeq(queue, 1, n)
    /\ queue' = SubSeq(queue, n + 1, Len(queue))

Spec == Init /\ [][Put \/ Take]_<<queue, taken>>
==============================================================================
