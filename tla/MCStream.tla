------------------------------ MODULE MCStream ------------------------------
(* Headers: sizes and dictionaries at the boundaries of a byte and of their *)
(* widths; properties one beyond the legal ones on every side. Symbols: the *)
(* constants of the code; distances around every boundary of a slot up to   *)
(* the largest dictionary that getPosSlot is called for, 1 << 29.           *)
EXTENDS Stream

SomeLevels == {-1, 0, 1, 9, 10}
SomeDictLogs == {11, 12, 15, 16, 22, 23}
AcceptedLogs == 12..22
AllProps == [lc : 0..9, lp : 0..5, pb : 0..5]
SomeSizes == {-2, -1, 0, 1, 255, 256, 65536, 2^23 - 1}
SomeDicts == {<<0, 0, 0>>, <<1, 0, 0>>, <<255, 255, 255>>}
SomeSizeBytes == {<<0, 0, 0>>, <<255, 255, 255>>, <<0, 0, 128>>}
OneAsk == [level |-> 9, size |-> -1, props |-> [lc |-> 3, lp |-> 0, pb |-> 2], dictLog |-> 22]

AllBytes == 0..255
SomeBytes == {0, 1, 85, 127, 128, 170, 254, 255}
AllLengths == 0..271
SlotEdges == UNION {{b - 1, b, b + 1, b + 37} :
                      b \in {2^k : k \in 2..28} \cup {3 * 2^k : k \in 1..27}}
SomeDistances == 0..300 \cup SlotEdges \cup {2^29 - 1}
SomePositions == {0, 7, 21}
SomePrevBytes == {0, 1, 127, 255}
=============================================================================
