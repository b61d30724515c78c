----------------------------- MODULE MCBinTree -----------------------------
(* Bytes of one bit. The tables let some pairs of different bytes collide  *)
(* in each of the three hashes.                                            *)
EXTENDS BinTree, Bitwise

XorOf(a, b) == a ^^ b
SmallCrc == [b \in Byte |-> 5 * b]
=============================================================================
