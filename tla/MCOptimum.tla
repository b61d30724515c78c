----------------------------- MODULE MCOptimum -----------------------------
(* Every input of up to five bytes of two values; longer ones that repeat  *)
(* what has gone before at two distances; and three in which four repeat   *)
(* distances differ and all are used, in which the end of the table is     *)
(* reached, and in which a repeat is followed by a literal and a repeat.   *)
EXTENDS Optimum

Longer == {<<1, 2, 3, 0, 1, 2>> \o s : s \in [1..3 -> Byte]}
Chosen == {<<0, 1, 2, 3, 0, 1, 0, 1, 2, 3, 1, 2, 2, 3, 1, 1>>,
           <<3, 2, 3, 2, 3, 2, 3, 1, 3, 2>>,
           <<3, 3, 3, 3, 2, 2, 2, 3, 3, 3, 3, 1, 3, 3, 3>>}
SomeInputs == BoundedSeq({0, 1}, 5) \cup Longer \cup Chosen
=============================================================================
