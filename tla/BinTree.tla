------------------------------ MODULE BinTree ------------------------------
(***************************************************************************)
(* The match finder, lzBinTree (lz_bin_tree.go). Every position of the     *)
(* dictionary is a node of a binary tree, one tree for each value of a     *)
(* hash of four bytes, and its two links are in son at twice the           *)
(* position's place in the cycle. The newest position is the root; inside  *)
(* a tree, son[2c + 1] leads to what follows and son[2c] to what precedes  *)
(* in the order of bytes. Two further hashes, of two and three bytes,      *)
(* remember the last position each. A position is a uint32 kept below      *)
(* MaxVal by normalize; 0 is none.                                         *)
(*                                                                         *)
(* The window under it (InWindow) gives the byte at every position it is   *)
(* asked for. newLzBinTree is always called with four hash bytes: the type *)
(* "bt2" is never selected, so hashArray is TRUE here.                     *)
(***************************************************************************)
EXTENDS Integers, Sequences, SequencesExt

CONSTANTS Byte,                \* the values of a byte
          ByteSize,            \* 2^8: their number, the shift of the third one
          Crc,                 \* crcTable
          BitXor(_, _),        \* the operator ^
          CrcShift,            \* 2^5: the shift of the fourth one's
          Hash2Size, Hash3Size,  \* kHash2Size, kHash3Size
          Hash4Size,           \* hashMask + 1
          DictSize,            \* historySize
          MaxMatch,            \* matchMaxLen: fastBytes
          CutValues,           \* cutValue is one of these
          MaxVal,              \* kMaxValForNormalize
          MaxInput             \* bound: bytes of input

MinCheck == 4                  \* kvMinMatchCheck
StartMaxLen == 1               \* kStartMaxLen
Empty == 0                     \* kEmptyHashValue
CyclicSize == DictSize + 1     \* cyclicBufSize
FixHashSize == Hash2Size + Hash3Size           \* kvFixHashSize
HashSizeSum == FixHashSize + Hash4Size         \* hashSizeSum

\* The hashes of two, three and four bytes, before they are cut to size.
Mix2(a, b)       == BitXor(Crc[a], b)
Mix3(a, b, c)    == BitXor(Mix2(a, b), c * ByteSize)
Mix4(a, b, c, d) == BitXor(Mix3(a, b, c), Crc[d] * CrcShift)

ASSUME BinTreeAssumption ==
  /\ {DictSize, ByteSize, CrcShift, MaxInput} \subseteq Nat \ {0}
  /\ {Hash2Size, Hash3Size, Hash4Size} \subseteq Nat \ {0}
  /\ Byte \subseteq 0..(ByteSize - 1) /\ Crc \in [Byte -> Nat]
  /\ MaxMatch \in Nat /\ MaxMatch >= MinCheck /\ CutValues \subseteq Nat \ {0}
  /\ MaxVal \in Nat /\ MaxVal > CyclicSize

\* The low bits of an exclusive or are those of its sides: a hash of two or three
\* bytes tells the second, or both, once the first is known.
ASSUME HashAssumption ==
  \A a, b, c \in Byte :
    /\ Mix2(a, b) \in Nat /\ Mix3(a, b, c) \in Nat
    /\ \A d \in Byte : Mix4(a, b, c, d) \in Nat
    /\ \A e \in Byte : Mix2(a, b) % Hash2Size = Mix2(a, e) % Hash2Size => b = e
    /\ \A e, f \in Byte :
         Mix3(a, b, c) % Hash3Size = Mix3(a, e, f) % Hash3Size => b = e /\ c = f

VARIABLES input,         \* what the window gives
          at,            \* calls of movePos: the byte at pos is input[at + 1]
          pos,           \* iw.pos
          cyclicBufPos,
          son,           \* the links of the trees
          hash,          \* the last position of each hash value
          cutValue,      \* how many nodes are visited
          found          \* distances: the matches of the last getMatches

vars == <<input, at, pos, cyclicBufPos, son, hash, cutValue, found>>

Init == /\ input \in BoundedSeq(Byte, MaxInput)
        /\ at = 0
        /\ pos = 1                             \* reduceOffsets(0xFFFFFFFF)
        /\ cyclicBufPos = 0
        /\ son = [i \in 0..(2 * CyclicSize - 1) |-> Empty]
        /\ hash = [i \in 0..(HashSizeSum - 1) |-> Empty]
        /\ cutValue \in CutValues
        /\ found = << >>

\* buf[bufOffset + p], i bytes on.
ByteAt(p, i) == input[at + 1 + p - pos + i]

Rest == Len(input) - at                        \* iw.streamPos - iw.pos, or more
LenLimit == IF MaxMatch <= Rest THEN MaxMatch ELSE Rest

\* Mutant: a position that is just leaving the dictionary is still in it.
MatchMinPosLate == IF pos > CyclicSize THEN pos - CyclicSize - 1 ELSE 0

\* Positions up to this one are out of the dictionary.
MatchMinPos == IF pos > CyclicSize THEN pos - CyclicSize ELSE 0

\* Where the last positions with the next two, three and four bytes are.
Hash2At == Mix2(ByteAt(pos, 0), ByteAt(pos, 1)) % Hash2Size
Hash3At == Hash2Size + (Mix3(ByteAt(pos, 0), ByteAt(pos, 1), ByteAt(pos, 2)) % Hash3Size)
Hash4At == FixHashSize + (Mix4(ByteAt(pos, 0), ByteAt(pos, 1), ByteAt(pos, 2), ByteAt(pos, 3))
                          % Hash4Size)

Hashed == [hash EXCEPT ![Hash2At] = pos, ![Hash3At] = pos, ![Hash4At] = pos]

Report(len, p) == [len |-> len, dist |-> pos - p - 1]

\* The last position in a table of two or three bytes is one with these bytes
\* if it is in the dictionary and its first byte is this one.
Hit(p) == p > MatchMinPos /\ ByteAt(p, 0) = ByteAt(pos, 0)

\* The matches of two and three bytes, and maxLen; a match at the root of the
\* tree is left to the tree.
ShortMatches ==
  LET cur2 == hash[Hash2At]
      cur3 == hash[Hash3At]
      two  == IF Hit(cur2) THEN <<Report(2, cur2)>> ELSE << >>
      both == IF ~Hit(cur3) THEN two
              ELSE (IF cur3 = cur2 THEN << >> ELSE two) \o <<Report(3, cur3)>>
      last == IF Hit(cur3) THEN cur3 ELSE cur2
  IN  IF both = << >> THEN [found |-> both, maxLen |-> StartMaxLen]
      ELSE IF last = hash[Hash4At] THEN [found |-> Front(both), maxLen |-> StartMaxLen]
      ELSE [found |-> both, maxLen |-> Last(both).len]

\* The node in son of a position in the dictionary.
Node(p) == LET delta == pos - p
           IN  2 * IF delta <= cyclicBufPos THEN cyclicBufPos - delta
                   ELSE cyclicBufPos - delta + CyclicSize

\* How many bytes at p and at pos agree, given that the first n do.
Agree(p, n) == CHOOSE m \in n..LenLimit :
                 /\ \A i \in n..(m - 1) : ByteAt(p, i) = ByteAt(pos, i)
                 /\ m = LenLimit \/ ByteAt(p, m) # ByteAt(pos, m)

Least(a, b) == IF a < b THEN a ELSE b

\* Mutant: the links below a node that is replaced change sides.
Replaced(w, node) ==
  [w EXCEPT !.son[w.ptr1] = w.son[node + 1], !.son[w.ptr0] = w.son[node], !.done = TRUE]

\* The node of an equal string is replaced: its links become the new one's.
Replace(w, node) ==
  [w EXCEPT !.son[w.ptr1] = w.son[node], !.son[w.ptr0] = w.son[node + 1], !.done = TRUE]

\* One turn of the loop that walks down the tree: w holds the local variables.
Turn(w) ==
  LET node   == Node(w.cur)
      start  == Least(w.len0, w.len1)
      length == Agree(w.cur, start)
      longer == length > start /\ w.maxLen < length
      v      == IF longer THEN [w EXCEPT !.maxLen = length,
                                         !.found = Append(@, Report(length, w.cur))]
                ELSE w
  IN  IF longer /\ length = LenLimit THEN Replace(v, node)
      ELSE IF ByteAt(w.cur, length) < ByteAt(pos, length)
      THEN [v EXCEPT !.son[w.ptr1] = w.cur, !.ptr1 = node + 1,
                     !.cur = w.son[node + 1], !.len1 = length]
      ELSE [v EXCEPT !.son[w.ptr0] = w.cur, !.ptr0 = node,
                     !.cur = w.son[node], !.len0 = length]

\* The loop goes on until a node is replaced or the links lead out of the
\* dictionary,
Visit(w) == IF w.done \/ w.cur <= MatchMinPos THEN w ELSE Turn(w)

\* and makes no more than cutValue turns.
Walk(start) ==
  LET walk[n \in 0..cutValue] == IF n = 0 THEN start ELSE Visit(walk[n - 1])
      w == walk[cutValue]
  IN  IF w.done THEN w ELSE [w EXCEPT !.son[w.ptr1] = Empty, !.son[w.ptr0] = Empty]

\* The new position becomes the root; what it finds goes after `found'. skip,
\* which has no maxLen, walks the same way: no walk goes on at maxLen = LenLimit.
Inserted(short) ==
  Walk([cur |-> hash[Hash4At], ptr0 |-> 2 * cyclicBufPos + 1, ptr1 |-> 2 * cyclicBufPos,
        len0 |-> 0, len1 |-> 0, son |-> son, done |-> FALSE,
        maxLen |-> short.maxLen, found |-> short.found])

\* normalizeLinks: what is out of the dictionary becomes none.
Normalized(links) ==
  [i \in DOMAIN links |-> IF links[i] <= MaxVal - CyclicSize THEN Empty
                          ELSE links[i] - (MaxVal - CyclicSize)]

\* movePos, after which the links are s and the heads h: near MaxVal all
\* positions are lowered so that the next one is CyclicSize.
MovePos(s, h) ==
  /\ at' = at + 1
  /\ cyclicBufPos' = IF cyclicBufPos + 1 < CyclicSize THEN cyclicBufPos + 1 ELSE 0
  /\ \/ /\ pos + 1 # MaxVal
        /\ pos' = pos + 1 /\ son' = s /\ hash' = h
     \/ /\ pos + 1 = MaxVal
        /\ pos' = CyclicSize /\ son' = Normalized(s) /\ hash' = Normalized(h)
  /\ UNCHANGED <<input, cutValue>>

Pass(walk) == MovePos(walk.son, Hashed)

\* getMatches.
GetMatches ==
  /\ Rest >= MinCheck
  /\ LET walk == Inserted(ShortMatches) IN Pass(walk) /\ found' = walk.found

\* One turn of skip's loop.
Skip ==
  /\ Rest >= MinCheck
  /\ Pass(Inserted([found |-> << >>, maxLen |-> StartMaxLen])) /\ found' = << >>

\* Either of them where fewer than MinCheck bytes are left.
PassLast ==
  /\ Rest \in 1..(MinCheck - 1)
  /\ MovePos(son, hash) /\ found' = << >>

Next == GetMatches \/ Skip \/ PassLast

Spec == Init /\ [][Next]_vars
-----------------------------------------------------------------------------
\* Whatever has been skipped, overwritten in the cycle or renumbered, and
\* however the hashes collide, every match reported is one of the input within
\* the dictionary, longer than the one before it.
Finder == INSTANCE MatchFinder
ReportsRealMatches == Finder!Spec

\* The distances at which the next n bytes are repeated.
TrueMatches(n) == {d \in 0..(DictSize - 1) : Finder!RepeatsAt(at, d, n)}

\* When the walk is not cut short no match of four bytes or more is missed: for
\* each such length the report holds the nearest position in the dictionary
\* that has it. A node lost, or a tree out of order, would hide some.
FindsNearest ==
  [][GetMatches /\ cutValue >= CyclicSize =>
       \A n \in MinCheck..LenLimit :
         LET true == TrueMatches(n)
             long == SelectSeq(found', LAMBDA r : r.len >= n)
         IN  true # {} =>
               /\ long # << >>
               /\ long[1].dist = CHOOSE d \in true : \A e \in true : d <= e]_vars
=============================================================================
