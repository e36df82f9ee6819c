------------------------------- MODULE ByteStream -------------------------------
(***************************************************************************)
(* What the send buffer of a connection promises: the bytes that were put  *)
(* in come out in that order, each once, and at most Capacity are inside.  *)
(***************************************************************************)
EXTENDS Naturals, Sequences

CONSTANTS Bytes, Capacity

VARIABLE stream     \* the bytes inside, oldest first

Init == stream = <<>>

Put == \E n \in 1 .. Capacity - Len(stream) :
         /\ Len(stream') = Len(stream) + n
         /\ \A i \in 1 .. Len(stream) : stream'[i] = stream[i]
         /\ \A i \in Len(stream) + 1 .. Len(stream) + n : stream'[i] \in Bytes

Take == \E n \in 1 .. Len(stream) : stream' = SubSeq(stream, n + 1, Len(stream))

Spec == Init /\ [][Put \/ Take]_stream

================================================================================
