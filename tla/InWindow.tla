------------------------------ MODULE InWindow ------------------------------
(***************************************************************************)
(* lzInWindow (lz_window.go): the sliding buffer that the encoder reads    *)
(* its input through. The byte at position p is buf[bufOffset + p]: when   *)
(* the buffer's end comes near, moveBlock slides its contents down and     *)
(* lowers bufOffset, and positions stay what they were. The match finder   *)
(* raises every position by one at the start and lowers them all when they *)
(* near 2^30 (reduceOffsets); the arithmetic is uint32, bufOffset wraps.   *)
(*                                                                         *)
(* A byte is known by its place in the input, 1 the first; 0 is a slot of  *)
(* the buffer never written. The input comes through a reader that returns *)
(* as little of it as it likes, and may fail.                              *)
(***************************************************************************)
EXTENDS Integers

CONSTANTS KeepBefore,   \* keepSizeBefore: historySize + kNumOpts
          KeepAfter,    \* keepSizeAfter: fastBytes + kMatchMaxLen + 1
          Reserve,      \* keepSizeReserv
          CyclicSize,   \* cyclicBufSize: historySize + 1
          MaxVal,       \* kMaxValForNormalize
          Modulus,      \* 2^32 in the code
          MaxMatch,     \* bound: the longest match asked for
          MaxInput      \* bound: bytes of input

BlockSize == KeepBefore + KeepAfter + Reserve
LastSafe  == BlockSize - KeepAfter             \* lastSafePos

ASSUME InWindowAssumption ==
  /\ {KeepBefore, KeepAfter, Reserve, CyclicSize} \subseteq Nat \ {0}
  /\ {MaxMatch, MaxInput} \subseteq Nat
  /\ CyclicSize <= KeepBefore + 1 /\ MaxMatch < KeepAfter
  /\ MaxVal \in Nat /\ MaxVal > CyclicSize
  /\ Modulus \in Nat /\ Modulus > MaxVal + BlockSize + 1

VARIABLES buf, bufOffset, pos, posLimit, streamPos, streamEnd,
          total,  \* bytes the reader has
          at,     \* calls of movePos: the byte at pos is number at + 1
          pc      \* "start" in the constructor's readBlock, "read" in
                  \* movePos's, "prime" between, "ready", or "thrown"

vars == <<buf, bufOffset, pos, posLimit, streamPos, streamEnd, total, at, pc>>

Slots == 0..(BlockSize - 1)
Plus(a, b)  == (a + b) % Modulus
Minus(a, b) == (a - b) % Modulus
Ptr(p) == Plus(bufOffset, p)                   \* where position p is in buf
Available == Minus(streamPos, pos)             \* getNumAvailableBytes
Taken == at + Available                        \* bytes read so far

Init == /\ buf = [i \in Slots |-> 0]
        /\ bufOffset = 0 /\ pos = 0 /\ posLimit = 0 /\ streamPos = 0
        /\ streamEnd = FALSE
        /\ total \in 0..MaxInput /\ at = 0
        /\ pc = "start"

Filling == pc \in {"start", "read"}
Filled  == IF pc = "start" THEN "prime" ELSE "ready"
Room == Minus(BlockSize - bufOffset, streamPos)

\* Mutant: a Read that does not fill the buffer is taken for the last one.
EndOnShortRead ==
  /\ Filling /\ Room > 0
  /\ \E n \in 1..Room :
       /\ n <= total - Taken
       /\ buf' = [i \in Slots |-> IF i \in Ptr(streamPos)..(Ptr(streamPos) + n - 1)
                                  THEN Taken + i - Ptr(streamPos) + 1 ELSE buf[i]]
       /\ streamPos' = Plus(streamPos, n)
       /\ streamEnd' = (n < Room)
       /\ pc' = IF n < Room THEN Filled ELSE pc
  /\ posLimit' = IF streamPos' >= pos + KeepAfter THEN streamPos' - KeepAfter ELSE posLimit
  /\ UNCHANGED <<bufOffset, pos, total, at>>

\* One turn of readBlock's loop, in which r.Read returns n bytes.
ReadSome ==
  /\ Filling /\ Room > 0
  /\ \E n \in 1..Room :
       /\ n <= total - Taken
       /\ buf' = [i \in Slots |-> IF i \in Ptr(streamPos)..(Ptr(streamPos) + n - 1)
                                  THEN Taken + i - Ptr(streamPos) + 1 ELSE buf[i]]
       /\ streamPos' = Plus(streamPos, n)
  /\ posLimit' = IF streamPos' >= pos + KeepAfter THEN streamPos' - KeepAfter ELSE posLimit
  /\ UNCHANGED <<bufOffset, pos, streamEnd, total, at, pc>>

\* The buffer is full.
BlockFull == /\ Filling /\ Room = 0
             /\ pc' = Filled
             /\ UNCHANGED <<buf, bufOffset, pos, posLimit, streamPos, streamEnd, total, at>>

\* Mutant: the end of the input leaves streamEnd as it is.
ReadEndUnseen ==
  /\ Filling /\ Room > 0 /\ Taken = total
  /\ posLimit' = IF Ptr(streamPos) > LastSafe THEN Minus(LastSafe, bufOffset) ELSE streamPos
  /\ pc' = Filled
  /\ UNCHANGED <<buf, bufOffset, pos, streamPos, streamEnd, total, at>>

\* r.Read returns no byte and EOF.
ReadEnd ==
  /\ Filling /\ Room > 0 /\ Taken = total
  /\ streamEnd' = TRUE
  /\ posLimit' = IF Ptr(streamPos) > LastSafe THEN Minus(LastSafe, bufOffset) ELSE streamPos
  /\ pc' = Filled
  /\ UNCHANGED <<buf, bufOffset, pos, streamPos, total, at>>

\* r.Read fails: throw.
ReadFails == /\ Filling /\ Room > 0
             /\ pc' = "thrown"
             /\ UNCHANGED <<buf, bufOffset, pos, posLimit, streamPos, streamEnd, total, at>>

ReduceOffsets(sub) ==
  /\ bufOffset' = Plus(bufOffset, sub)
  /\ posLimit' = Minus(posLimit, sub)
  /\ pos' = Minus(pos, sub)
  /\ streamPos' = Minus(streamPos, sub)

\* newLzBinTree: reduceOffsets(0xFFFFFFFF), so that no position is 0.
Prime == /\ pc = "prime" /\ pc' = "ready"
         /\ ReduceOffsets(Modulus - 1)
         /\ UNCHANGED <<buf, streamEnd, total, at>>

\* lzBinTree.normalize, when movePos has brought pos to MaxVal.
Normalize == /\ pc = "ready" /\ pos = MaxVal
             /\ ReduceOffsets(pos - CyclicSize)
             /\ UNCHANGED <<buf, streamEnd, total, at, pc>>

\* Mutant: the block is moved without bufOffset.
MoveBlockOnly(p) ==
  LET past   == Minus(Ptr(p), KeepBefore)
      offset == IF past > 0 THEN past - 1 ELSE past
  IN  /\ buf' = [i \in Slots |-> IF i < Minus(Ptr(streamPos), offset)
                                 THEN buf[offset + i] ELSE buf[i]]
      /\ UNCHANGED bufOffset

\* moveBlock, entered with pos = p: the KeepBefore + 1 bytes before it, and all
\* after it, go to the start of the buffer.
MoveBlock(p) ==
  LET past   == Minus(Ptr(p), KeepBefore)
      offset == IF past > 0 THEN past - 1 ELSE past
  IN  /\ buf' = [i \in Slots |-> IF i < Minus(Ptr(streamPos), offset)
                                 THEN buf[offset + i] ELSE buf[i]]
      /\ bufOffset' = Minus(bufOffset, offset)

\* movePos: the encoder does not move past the last byte.
MovePos ==
  /\ pc = "ready" /\ pos # MaxVal /\ pos # streamPos
  /\ pos' = pos + 1 /\ at' = at + 1
  /\ IF pos' > posLimit
     THEN /\ IF Ptr(pos') > LastSafe THEN MoveBlock(pos') ELSE UNCHANGED <<buf, bufOffset>>
          /\ pc' = IF streamEnd THEN "ready" ELSE "read"
     ELSE UNCHANGED <<buf, bufOffset, pc>>
  /\ UNCHANGED <<posLimit, streamPos, streamEnd, total>>

Window == ReadSome \/ BlockFull \/ ReadEnd \/ ReadFails \/ Prime \/ Normalize

Next == Window \/ MovePos

Spec == Init /\ [][Next]_vars

\* The encoder runs until it has seen the whole input, and the reader answers.
FairSpec == Spec /\ WF_vars(Window) /\ WF_vars(MovePos)
-----------------------------------------------------------------------------
\* Every byte from KeepBefore behind pos to the last one read is in the buffer
\* where its position says, whatever has been moved and renumbered.
WindowHoldsInput ==
  \A k \in -KeepBefore..(Available - 1) :
    at + k >= 0 => /\ Ptr(pos + k) \in Slots
                   /\ buf[Ptr(pos + k)] = at + k + 1

\* After each movePos the encoder sees KeepAfter bytes ahead, or the whole rest
\* of the input and knows that it is the rest: getNumAvailableBytes, on which
\* codeOneBlock ends the stream, is never 0 early.
LooksAhead ==
  pc = "ready" => IF streamEnd THEN Taken = total ELSE Available >= KeepAfter

\* Mutant: the end of the input does not limit a comparison.
MatchLimitAlways(index, limit) == limit

\* How many bytes getMatchLen compares at most, from position pos + index on.
MatchLimit(index, limit) ==
  IF streamEnd /\ Plus(pos, index + limit) > streamPos
  THEN Minus(streamPos, Plus(pos, index)) ELSE limit

\* getMatchLen, asked the way the encoder asks it, compares bytes of the input,
\* never a slot beyond the last byte read or a byte that has been overwritten.
ComparesInput ==
  pc = "ready" =>
    \A index \in -1..MaxMatch, limit \in 0..MaxMatch :
      (index + limit <= MaxMatch /\ index <= Available /\ at + index >= 0) =>
        \A res \in 0..(MatchLimit(index, limit) - 1) :
          /\ Ptr(pos + index + res) \in Slots
          /\ buf[Ptr(pos + index + res)] = at + index + res + 1

\* The whole input is seen.
InputSeen == <>(pc = "thrown" \/ (streamEnd /\ at = total))
=============================================================================
