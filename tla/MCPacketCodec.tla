--------------------------- MODULE MCPacketCodec ---------------------------
(* Every input of up to five bytes, and one in which every byte repeats     *)
(* those before it at every distance, long enough for each of the four      *)
(* repeat distances to be set by a match and then repeated.                 *)
EXTENDS PacketCodec

SomeInputs == BoundedSeq(Byte, 5) \cup {[i \in 1..MaxInput |-> 0]}
=============================================================================
