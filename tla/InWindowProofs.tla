--------------------------- MODULE InWindowProofs ---------------------------
(***************************************************************************)
(* Proofs about InWindow, for every size of the window's parts, every      *)
(* input and every way the reader cuts it, and for positions of any width  *)
(* that leaves room for a block behind the position they are lowered at.   *)
(*                                                                         *)
(* That every byte from KeepBefore behind pos is in its place is no        *)
(* invariant by itself: moveBlock copies more than that, and where it      *)
(* copies from depends on bufOffset, posLimit and the wrapping of their    *)
(* differences. IInv speaks of slots instead: all of them from the first   *)
(* to the last one read hold consecutive bytes of the input (Holds), the   *)
(* bytes before them are gone only from a distance (KeepsBehind), posLimit *)
(* is KeepAfter before the last byte read for as long as there is more     *)
(* (Limits), and no difference of two positions wraps (Positions).         *)
(***************************************************************************)
EXTENDS InWindow, TLAPS

\* bufOffset as the difference it stands for, which may be negative.
Unwrap(b) == IF b <= BlockSize THEN b ELSE b - Modulus

\* The slots of pos and of the first byte not read.
Here == Unwrap(bufOffset) + pos
End  == Unwrap(bufOffset) + streamPos

Words == 0..(Modulus - 1)

Types == /\ buf \in [Slots -> Nat]
         /\ bufOffset \in Words /\ pos \in Words /\ posLimit \in Words /\ streamPos \in Words
         /\ total \in Nat /\ at \in Nat

Phases == /\ pc \in {"start", "prime", "read", "ready", "thrown"}
          /\ streamEnd \in BOOLEAN

Positions == /\ pos <= MaxVal /\ pos <= streamPos
             /\ 0 <= Here /\ End <= BlockSize
             /\ pc \in {"start", "prime"} => pos = 0
             /\ pc \in {"read", "ready"} => pos > 0

Holds == \A i \in 0..(End - 1) : buf[i] = at + i - Here + 1

KeepsBehind == /\ Here <= at
               /\ Here < KeepBefore => Here = at

EndKnown == streamEnd => ~Filling /\ at + streamPos - pos = total

Limits ==
  ~streamEnd => /\ streamPos - pos >= KeepAfter => posLimit = streamPos - KeepAfter
                /\ pc \in {"prime", "ready"} => streamPos - pos >= KeepAfter
                /\ Filling => Here <= LastSafe

IInv == Types /\ Phases /\ Positions /\ Holds /\ KeepsBehind /\ EndKnown /\ Limits
-----------------------------------------------------------------------------
(***************************************************************************)
(* Arithmetic modulo Modulus, where at most one wrap is possible.          *)
(***************************************************************************)
LEMMA Sizes ==
  /\ BlockSize \in Nat /\ LastSafe = KeepBefore + Reserve
  /\ MaxVal + BlockSize + 1 < Modulus /\ LastSafe < BlockSize
BY InWindowAssumption DEF BlockSize, LastSafe

LEMMA Wraps ==
  ASSUME NEW a \in Int
  PROVE  /\ a \in Words => a % Modulus = a
         /\ a - Modulus \in Words => a % Modulus = a - Modulus
         /\ a + Modulus \in Words => a % Modulus = a + Modulus
         /\ a % Modulus \in Words
<1> USE DEF Words
<1>0. Modulus \in Nat \ {0}
  BY InWindowAssumption, Sizes
<1>1. CASE a \in Words
  BY <1>0, <1>1
<1>2. CASE a - Modulus \in Words
  BY <1>0, <1>2
<1>3. CASE a + Modulus \in Words
  BY <1>0, <1>3
<1>4. a % Modulus \in Words
  BY <1>0
<1> QED
  BY <1>1, <1>2, <1>3, <1>4

\* A word stands for only one difference that is small enough.
LEMMA UnwrapIs ==
  ASSUME NEW b \in Words, NEW o \in Int, -MaxVal <= o, o <= BlockSize,
         b = o \/ b = o + Modulus
  PROVE  Unwrap(b) = o
BY InWindowAssumption, Sizes DEF Words, Unwrap

LEMMA Unwraps ==
  ASSUME NEW b \in Words
  PROVE  /\ Unwrap(b) \in Int
         /\ b = Unwrap(b) \/ b = Unwrap(b) + Modulus
BY InWindowAssumption, Sizes DEF Words, Unwrap

\* Adding a position to bufOffset gives its slot.
LEMMA SlotOf ==
  ASSUME NEW b \in Words, NEW p \in Int, 0 <= Unwrap(b) + p, Unwrap(b) + p <= BlockSize
  PROVE  Plus(b, p) = Unwrap(b) + p
<1>1. Unwrap(b) + p \in Words
  BY InWindowAssumption, Sizes, Unwraps DEF Words
<1>2. CASE b = Unwrap(b)
  BY <1>1, <1>2, Wraps, Unwraps DEF Plus
<1>3. CASE b = Unwrap(b) + Modulus
  <2>1. b + p \in Int /\ (b + p) - Modulus = Unwrap(b) + p
    BY <1>3, InWindowAssumption, Unwraps DEF Words
  <2> QED
    BY <1>1, <2>1, Wraps DEF Plus
<1> QED
  BY <1>2, <1>3, Unwraps

\* What the code computes about the window in a state of the invariant.
LEMMA Computed ==
  ASSUME Types, Positions
  PROVE  /\ Here \in Nat /\ End \in Nat /\ Here <= End /\ End - Here = streamPos - pos
         /\ Ptr(streamPos) = End
         /\ Available = streamPos - pos
         /\ Room = BlockSize - End
         /\ -MaxVal <= Unwrap(bufOffset) /\ Unwrap(bufOffset) <= BlockSize
<1> USE InWindowAssumption, Sizes
<1>1. /\ bufOffset \in Words /\ pos \in Nat /\ streamPos \in Nat
      /\ pos < Modulus /\ streamPos < Modulus
      /\ Unwrap(bufOffset) \in Int
  BY Unwraps DEF Types, Words
<1>2. Here \in Nat /\ End \in Nat /\ Here <= End /\ End - Here = streamPos - pos
  BY <1>1 DEF Positions, Here, End
<1>3. Ptr(streamPos) = End
  BY <1>1, <1>2, SlotOf DEF Positions, Ptr, End
<1>4. Available = streamPos - pos
  BY SMTT(30), <1>1, Wraps DEF Positions, Available, Minus, Words
<1>5. Room = BlockSize - End
  <2> DEFINE a == BlockSize - bufOffset - streamPos
  <2>1. a \in Int /\ BlockSize - End \in Words
    BY <1>1, <1>2 DEF Positions, Words
  <2>2. a = BlockSize - End \/ a + Modulus = BlockSize - End
    BY <1>1, Unwraps DEF End, Words
  <2>3. Room = a % Modulus
    BY DEF Room, Minus
  <2> HIDE DEF a
  <2> QED
    BY <2>1, <2>2, <2>3, Wraps
<1>6. -MaxVal <= Unwrap(bufOffset) /\ Unwrap(bufOffset) <= BlockSize
  BY <1>1, <1>2 DEF Positions, Here, End
<1> QED
  BY <1>2, <1>3, <1>4, <1>5, <1>6
-----------------------------------------------------------------------------
(***************************************************************************)
(* Each action keeps the invariant.                                        *)
(***************************************************************************)
LEMMA InitOk == Init => IInv
<1> SUFFICES ASSUME Init PROVE IInv
  OBVIOUS
<1> USE InWindowAssumption, Sizes
<1>1. Unwrap(0) = 0
  BY DEF Unwrap
<1>2. Here = 0 /\ End = 0
  BY <1>1 DEF Init, Here, End
<1>3. Types
  BY DEF Init, Types, Words, Slots
<1>p. Phases
  BY DEF Init, Phases
<1>4. Positions /\ KeepsBehind /\ EndKnown
  BY <1>2 DEF Init, Positions, KeepsBehind, EndKnown
<1>5. Holds
  BY <1>2 DEF Init, Holds
<1>6. Limits
  BY <1>2 DEF Init, Limits
<1> QED
  BY <1>3, <1>p, <1>4, <1>5, <1>6 DEF IInv

LEMMA ReadSomeOk == ASSUME IInv, ReadSome PROVE IInv'
<1> USE InWindowAssumption, Sizes
<1>0. Types /\ Phases /\ Positions /\ Holds /\ KeepsBehind /\ EndKnown /\ Limits
  BY DEF IInv
<1>1. /\ Here \in Nat /\ End \in Nat /\ Here <= End /\ End - Here = streamPos - pos
      /\ Ptr(streamPos) = End /\ Available = streamPos - pos /\ Room = BlockSize - End
      /\ -MaxVal <= Unwrap(bufOffset) /\ Unwrap(bufOffset) \in Int
  BY <1>0, Computed, Unwraps DEF Types
<1>2. PICK n \in 1..Room :
         /\ n <= total - Taken
         /\ buf' = [i \in Slots |-> IF i \in Ptr(streamPos)..(Ptr(streamPos) + n - 1)
                                    THEN Taken + i - Ptr(streamPos) + 1 ELSE buf[i]]
         /\ streamPos' = Plus(streamPos, n)
  BY DEF ReadSome
<1>3. n \in Nat /\ 0 < n /\ n <= BlockSize - End
  BY <1>1, <1>2
<1>4. pos \in Nat /\ streamPos \in Nat /\ at \in Nat /\ posLimit \in Nat
  BY <1>0 DEF Types, Words
<1>5. streamPos' = streamPos + n /\ streamPos' \in Words
  <2>1. streamPos = End - Unwrap(bufOffset)
    BY <1>1, <1>4 DEF End
  <2>2. streamPos + n \in Int /\ streamPos + n \in Words
    BY <1>1, <1>3, <1>4, <2>1 DEF Words
  <2>3. (streamPos + n) % Modulus = streamPos + n
    BY <2>2, Wraps
  <2> QED
    BY <1>2, <2>2, <2>3 DEF Plus
<1>6. /\ bufOffset' = bufOffset /\ pos' = pos /\ at' = at /\ total' = total /\ pc' = pc
      /\ streamEnd' = streamEnd /\ ~streamEnd
      /\ posLimit' = IF streamPos' >= pos + KeepAfter THEN streamPos' - KeepAfter ELSE posLimit
  BY <1>0 DEF ReadSome, EndKnown
<1>7. Here' = Here /\ End' = End + n
  BY <1>1, <1>3, <1>4, <1>5, <1>6 DEF Here, End
<1>8. buf' = [i \in Slots |-> IF i \in End..(End + n - 1)
                            THEN at + (streamPos - pos) + i - End + 1 ELSE buf[i]]
  BY <1>1, <1>2 DEF Taken
<1>9. Types'
  <2>1. buf' \in [Slots -> Nat]
    <3>1. \A i \in End..(End + n - 1) : at + (streamPos - pos) + i - End + 1 \in Nat
      BY <1>0, <1>1, <1>3, <1>4 DEF Positions
    <3> QED
      BY <1>0, <1>8, <3>1 DEF Types
  <2>2. posLimit' \in Words
    BY <1>0, <1>3, <1>4, <1>5, <1>6 DEF Types, Words
  <2> QED
    BY <1>0, <1>5, <1>6, <2>1, <2>2 DEF Types
<1>10. Phases'
  BY <1>0, <1>6 DEF Phases
<1>11. Positions'
  BY <1>0, <1>1, <1>3, <1>4, <1>5, <1>6, <1>7 DEF Positions
<1>12. Holds'
  <2>1. ASSUME NEW i \in 0..(End + n - 1) PROVE buf'[i] = at + i - Here + 1
    <3>1. i \in Slots /\ i \in Int
      BY <1>1, <1>3 DEF Slots
    <3>2. CASE i < End
      <4>1. buf'[i] = buf[i]
        BY <1>1, <1>8, <3>1, <3>2
      <4> QED
        BY <1>0, <1>1, <3>1, <3>2, <4>1 DEF Holds
    <3>3. CASE End <= i
      <4>1. buf'[i] = at + (streamPos - pos) + i - End + 1
        BY <1>1, <1>3, <1>8, <3>1, <3>3
      <4> QED
        BY <1>1, <1>4, <3>1, <4>1
    <3> QED
      BY <1>1, <3>1, <3>2, <3>3
  <2>2. at' = at /\ Here' = Here /\ End' = End + n
    BY <1>6, <1>7
  <2>3. \A i \in 0..(End' - 1) : buf'[i] = at' + i - Here' + 1
    BY <1>1, <1>3, <1>4, <2>1, <2>2
  <2> QED
    BY <2>3 DEF Holds
<1>13. KeepsBehind' /\ EndKnown'
  BY <1>0, <1>6, <1>7 DEF KeepsBehind, EndKnown
<1>14. Limits'
  <2>1. Filling /\ Filling' /\ pc \notin {"prime", "ready"}
    BY <1>6 DEF ReadSome, Filling
  <2>2. streamPos' - pos >= KeepAfter => posLimit' = streamPos' - KeepAfter
    BY <1>3, <1>4, <1>5, <1>6
  <2> QED
    BY <1>0, <1>6, <1>7, <2>1, <2>2 DEF Limits
<1> QED
  BY <1>9, <1>10, <1>11, <1>12, <1>13, <1>14 DEF IInv

\* A step that only moves pc on, from where the window is full or r has failed.
LEMMA BlockFullOk == ASSUME IInv, BlockFull PROVE IInv'
<1> USE InWindowAssumption, Sizes
<1>0. Types /\ Phases /\ Positions /\ Holds /\ KeepsBehind /\ EndKnown /\ Limits
  BY DEF IInv
<1>1. UNCHANGED <<buf, bufOffset, pos, posLimit, streamPos, streamEnd, total, at>>
  BY DEF BlockFull
<1>2. /\ (pc = "start" /\ pc' = "prime") \/ (pc = "read" /\ pc' = "ready")
      /\ ~streamEnd /\ End = BlockSize
  <2>1. (pc = "start" /\ pc' = "prime") \/ (pc = "read" /\ pc' = "ready")
    <3>1. CASE pc = "start"
      <4>1. Filled = "prime"
        BY <3>1 DEF Filled
      <4> QED
        BY <3>1, <4>1 DEF BlockFull
    <3>2. CASE pc = "read"
      BY <3>2 DEF BlockFull, Filled
    <3> QED
      BY <3>1, <3>2 DEF BlockFull, Filling
  <2>2. ~streamEnd
    BY <1>0 DEF BlockFull, EndKnown
  <2>3. End \in Nat /\ BlockSize - End = 0
    BY <1>0, Computed DEF BlockFull
  <2> QED
    BY <2>1, <2>2, <2>3
<1>3. Here' = Here /\ End' = End
  BY <1>1 DEF Here, End
<1>4. Types' /\ Holds' /\ KeepsBehind'
  BY <1>0, <1>1, <1>3 DEF Types, Holds, KeepsBehind
<1>5. Phases' /\ Positions' /\ EndKnown'
  BY <1>0, <1>1, <1>2, <1>3 DEF Phases, Positions, EndKnown
<1>6. streamPos - pos >= KeepAfter
  <2>1. Here <= LastSafe /\ Here \in Nat /\ End - Here = streamPos - pos
    BY <1>0, <1>2, Computed DEF Limits, Filling
  <2> QED
    BY <1>2, <2>1 DEF LastSafe
<1>7. Limits'
  BY <1>0, <1>1, <1>2, <1>6 DEF Limits, Filling
<1> QED
  BY <1>4, <1>5, <1>7 DEF IInv

LEMMA ReadFailsOk == ASSUME IInv, ReadFails PROVE IInv'
<1>0. Types /\ Phases /\ Positions /\ Holds /\ KeepsBehind /\ EndKnown /\ Limits
  BY DEF IInv
<1>1. pc' = "thrown" /\ UNCHANGED <<buf, bufOffset, pos, posLimit, streamPos, streamEnd, total, at>>
  BY DEF ReadFails
<1>2. Here' = Here /\ End' = End
  BY <1>1 DEF Here, End
<1>3. Types' /\ Phases'
  BY <1>0, <1>1 DEF Types, Phases
<1>4. Positions' /\ Holds' /\ KeepsBehind'
  BY <1>0, <1>1, <1>2 DEF Positions, Holds, KeepsBehind
<1>5. EndKnown' /\ Limits'
  BY <1>0, <1>1 DEF EndKnown, Limits, Filling
<1> QED
  BY <1>3, <1>4, <1>5 DEF IInv

LEMMA ReadEndOk == ASSUME IInv, ReadEnd PROVE IInv'
<1> USE InWindowAssumption, Sizes
<1>0. Types /\ Phases /\ Positions /\ Holds /\ KeepsBehind /\ EndKnown /\ Limits
  BY DEF IInv
<1>1. streamEnd' = TRUE /\ UNCHANGED <<buf, bufOffset, pos, streamPos, total, at>>
  BY DEF ReadEnd
<1>2. (pc = "start" /\ pc' = "prime") \/ (pc = "read" /\ pc' = "ready")
  <2>1. CASE pc = "start"
    <3>1. Filled = "prime"
      BY <2>1 DEF Filled
    <3> QED
      BY <2>1, <3>1 DEF ReadEnd
  <2>2. CASE pc = "read"
    BY <2>2 DEF ReadEnd, Filled
  <2> QED
    BY <2>1, <2>2 DEF ReadEnd, Filling
<1>3. Here' = Here /\ End' = End
  BY <1>1 DEF Here, End
<1>4. Types'
  <2>1. posLimit' \in Words
    <3>1. LastSafe - bufOffset \in Int
      BY <1>0 DEF Types, Words
    <3>2. Minus(LastSafe, bufOffset) \in Words
      BY <3>1, Wraps DEF Minus
    <3> QED
      BY <1>0, <3>2 DEF ReadEnd, Types
  <2> QED
    BY <1>0, <1>1, <2>1 DEF Types
<1>5. Phases' /\ Positions'
  BY <1>0, <1>1, <1>2, <1>3 DEF Phases, Positions
<1>6. Holds' /\ KeepsBehind'
  BY <1>0, <1>1, <1>3 DEF Holds, KeepsBehind
<1>7. EndKnown'
  <2>1. at + streamPos - pos = total
    <3>1. Available = streamPos - pos /\ at + Available = total
      BY <1>0, Computed DEF ReadEnd, Taken
    <3> QED
      BY <1>0, <3>1 DEF Types, Words
  <2> QED
    BY <1>1, <1>2, <2>1 DEF EndKnown, Filling
<1>8. Limits'
  BY <1>1 DEF Limits
<1> QED
  BY <1>4, <1>5, <1>6, <1>7, <1>8 DEF IInv

\* reduceOffsets lowers all positions and raises bufOffset, whatever wraps.
LEMMA ReduceOk ==
  ASSUME Types, Positions, NEW d \in Int, NEW sub \in Words,
         sub = d \/ sub = d + Modulus,
         0 <= pos - d, pos - d <= MaxVal, ReduceOffsets(sub)
  PROVE  /\ pos' = pos - d /\ streamPos' = streamPos - d
         /\ Here' = Here /\ End' = End
         /\ bufOffset' \in Words /\ posLimit' \in Words /\ streamPos' \in Words /\ pos' \in Words
         /\ posLimit - d \in Words => posLimit' = posLimit - d
<1> USE InWindowAssumption, Sizes
<1>1. /\ bufOffset \in Words /\ posLimit \in Words /\ Unwrap(bufOffset) \in Int
      /\ bufOffset \in Nat /\ posLimit \in Nat /\ pos \in Nat /\ streamPos \in Nat /\ sub \in Nat
  BY Unwraps DEF Types, Words
<1>2. /\ Here \in Nat /\ End \in Nat /\ Here <= End /\ End - Here = streamPos - pos
      /\ -MaxVal <= Unwrap(bufOffset) /\ Unwrap(bufOffset) <= BlockSize
  BY Computed
<1>3. End <= BlockSize /\ pos <= streamPos
  BY DEF Positions
<1>4. ASSUME NEW x \in Int, x - d \in Words
      PROVE  Minus(x, sub) = x - d
  <2>1. x - sub = x - d \/ (x - sub) + Modulus = x - d
    OBVIOUS
  <2>2. x - sub \in Int
    BY <1>1
  <2> QED
    BY <1>4, <2>1, <2>2, Wraps DEF Minus
<1>5. pos' = pos - d /\ pos' \in Words
  <2>1. pos - d \in Words
    BY <1>1 DEF Words
  <2> QED
    BY <1>1, <1>4, <2>1 DEF ReduceOffsets
<1>6. streamPos' = streamPos - d /\ streamPos' \in Words
  <2>1. streamPos - d \in Words
    BY <1>1, <1>2, <1>3 DEF Words
  <2> QED
    BY <1>1, <1>4, <2>1 DEF ReduceOffsets
<1>7. posLimit' \in Words
  <2>1. posLimit - sub \in Int
    BY <1>1
  <2> QED
    BY <2>1, Wraps DEF ReduceOffsets, Minus
<1>8. posLimit - d \in Words => posLimit' = posLimit - d
  BY <1>1, <1>4 DEF ReduceOffsets
<1>9. bufOffset' \in Words /\ Unwrap(bufOffset') = Unwrap(bufOffset) + d
  <2> DEFINE a == bufOffset + sub
  <2>1. a \in Int /\ bufOffset' = a % Modulus
    BY <1>1 DEF ReduceOffsets, Plus
  <2>2. PICK b \in Words : bufOffset' = b
    BY <2>1, Wraps
  <2> DEFINE o == Unwrap(bufOffset) + d
  <2>3. o \in Int /\ -MaxVal <= o /\ o <= BlockSize
    BY <1>1, <1>2, <1>3 DEF Here
  <2>4. b = a \/ b = a - Modulus
    <3>1. a \in Words \/ a - Modulus \in Words
      BY <1>1 DEF Words
    <3> QED
      BY <2>1, <2>2, <3>1, Wraps
  <2>5. a = o \/ a = o + Modulus \/ a = o + Modulus + Modulus
    BY <1>1, <2>1, Unwraps
  <2>6. b = o \/ b = o + Modulus
    BY <2>2, <2>3, <2>4, <2>5 DEF Words
  <2>7. Unwrap(b) = o
    BY <2>3, <2>6, UnwrapIs
  <2> QED
    BY <2>2, <2>7
<1>10. Here' = Here /\ End' = End
  BY <1>1, <1>5, <1>6, <1>9 DEF Here, End
<1> QED
  BY <1>5, <1>6, <1>7, <1>8, <1>9, <1>10

LEMMA PrimeOk == ASSUME IInv, Prime PROVE IInv'
<1> USE InWindowAssumption, Sizes
<1>0. Types /\ Phases /\ Positions /\ Holds /\ KeepsBehind /\ EndKnown /\ Limits
  BY DEF IInv
<1>1. pc = "prime" /\ pc' = "ready" /\ UNCHANGED <<buf, streamEnd, total, at>>
  BY DEF Prime
<1>2. pos = 0 /\ streamPos \in Nat /\ posLimit \in Nat /\ total \in Nat /\ at \in Nat
  BY <1>0, <1>1 DEF Types, Positions, Words
<1>3. /\ pos' = 1 /\ streamPos' = streamPos + 1
      /\ Here' = Here /\ End' = End
      /\ bufOffset' \in Words /\ posLimit' \in Words /\ streamPos' \in Words /\ pos' \in Words
      /\ posLimit + 1 \in Words => posLimit' = posLimit + 1
  <2>1. Modulus - 1 \in Words /\ Modulus - 1 = -1 + Modulus
    BY DEF Words
  <2>2. 0 <= pos - (-1) /\ pos - (-1) <= MaxVal
    BY <1>2
  <2>3. /\ pos' = pos - (-1) /\ streamPos' = streamPos - (-1)
        /\ Here' = Here /\ End' = End
        /\ bufOffset' \in Words /\ posLimit' \in Words /\ streamPos' \in Words /\ pos' \in Words
        /\ posLimit - (-1) \in Words => posLimit' = posLimit - (-1)
    BY <1>0, <2>1, <2>2, ReduceOk DEF Prime
  <2> QED
    BY <1>2, <2>3
<1>4. Types'
  BY <1>0, <1>1, <1>3 DEF Types
<1>5. Phases'
  BY <1>0, <1>1 DEF Phases
<1>6. Positions'
  BY <1>0, <1>1, <1>2, <1>3 DEF Positions
<1>7. Holds' /\ KeepsBehind'
  BY <1>0, <1>1, <1>3 DEF Holds, KeepsBehind
<1>8. EndKnown'
  <2>1. at + streamPos - pos = at + streamPos' - pos'
    BY <1>2, <1>3
  <2> QED
    BY <1>0, <1>1, <2>1 DEF EndKnown, Filling
<1>9. Limits'
  <2> SUFFICES ASSUME ~streamEnd
               PROVE  streamPos' - pos' >= KeepAfter /\ posLimit' = streamPos' - KeepAfter
    BY <1>1 DEF Limits, Filling
  <2>1. streamPos - pos >= KeepAfter /\ posLimit = streamPos - KeepAfter
    BY <1>0, <1>1 DEF Limits
  <2>2. posLimit + 1 \in Words
    BY <1>0, <1>2, <2>1 DEF Types, Words
  <2> QED
    BY <1>2, <1>3, <2>1, <2>2
<1> QED
  BY <1>4, <1>5, <1>6, <1>7, <1>8, <1>9 DEF IInv

LEMMA NormalizeOk == ASSUME IInv, Normalize PROVE IInv'
<1> USE InWindowAssumption, Sizes
<1>0. Types /\ Phases /\ Positions /\ Holds /\ KeepsBehind /\ EndKnown /\ Limits
  BY DEF IInv
<1>1. pc = "ready" /\ UNCHANGED <<buf, streamEnd, total, at, pc>>
  BY DEF Normalize
<1>2. pos = MaxVal /\ streamPos \in Nat /\ posLimit \in Nat /\ total \in Nat /\ at \in Nat
  BY <1>0 DEF Normalize, Types, Words
<1> DEFINE sub == pos - CyclicSize
<1>3. /\ pos' = pos - sub /\ streamPos' = streamPos - sub
      /\ Here' = Here /\ End' = End
      /\ bufOffset' \in Words /\ posLimit' \in Words /\ streamPos' \in Words /\ pos' \in Words
      /\ posLimit - sub \in Words => posLimit' = posLimit - sub
  <2>1. sub \in Words
    BY <1>2 DEF Words
  <2>2. 0 <= pos - sub /\ pos - sub <= MaxVal
    BY <1>2
  <2>3. ReduceOffsets(sub) /\ sub \in Int
    BY <1>2 DEF Normalize
  <2> HIDE DEF sub
  <2> QED
    BY <1>0, <2>1, <2>2, <2>3, ReduceOk
<1>n. sub \in Nat /\ sub < pos
  BY <1>2
<1> HIDE DEF sub
<1>4. Types'
  BY <1>0, <1>1, <1>3 DEF Types
<1>5. Phases'
  BY <1>0, <1>1 DEF Phases
<1>6. Positions'
  BY <1>0, <1>1, <1>2, <1>3, <1>n DEF Positions
<1>7. Holds' /\ KeepsBehind'
  BY <1>0, <1>1, <1>3 DEF Holds, KeepsBehind
<1>8. EndKnown'
  <2>1. at + streamPos - pos = at + streamPos' - pos'
    BY <1>2, <1>3, <1>n
  <2> QED
    BY <1>0, <1>1, <2>1 DEF EndKnown, Filling
<1>9. Limits'
  <2> SUFFICES ASSUME ~streamEnd
               PROVE  streamPos' - pos' >= KeepAfter /\ posLimit' = streamPos' - KeepAfter
    BY <1>1 DEF Limits, Filling
  <2>1. streamPos - pos >= KeepAfter /\ posLimit = streamPos - KeepAfter
    BY <1>0, <1>1 DEF Limits
  <2>2. posLimit - sub \in Words
    BY <1>0, <1>2, <1>n, <2>1 DEF Types, Words
  <2> QED
    BY <1>2, <1>3, <1>n, <2>1, <2>2
<1> QED
  BY <1>4, <1>5, <1>6, <1>7, <1>8, <1>9 DEF IInv

\* moveBlock lowers bufOffset.
LEMMA OffsetMinus ==
  ASSUME NEW b \in Words, NEW o \in Nat, o <= BlockSize, -MaxVal <= Unwrap(b) - o
  PROVE  Minus(b, o) \in Words /\ Unwrap(Minus(b, o)) = Unwrap(b) - o
<1> USE InWindowAssumption, Sizes
<1>1. b \in Nat /\ b < Modulus /\ Unwrap(b) \in Int /\ Unwrap(b) <= BlockSize
  BY Unwraps DEF Words, Unwrap
<1> DEFINE a == b - o
<1>2. a \in Int /\ Minus(b, o) = a % Modulus
  BY <1>1 DEF Minus
<1>3. PICK c \in Words : Minus(b, o) = c
  BY <1>2, Wraps
<1>4. c = a \/ c = a + Modulus
  <2>1. a \in Words \/ a + Modulus \in Words
    BY <1>1 DEF Words
  <2> QED
    BY <1>2, <1>3, <2>1, Wraps
<1> DEFINE u == Unwrap(b) - o
<1>5. u \in Int /\ -MaxVal <= u /\ u <= BlockSize
  BY <1>1
<1>6. a = u \/ a = u + Modulus
  BY <1>1, Unwraps
<1>7. c = u \/ c = u + Modulus
  BY <1>3, <1>4, <1>5, <1>6 DEF Words
<1>8. Unwrap(c) = u
  BY <1>5, <1>7, UnwrapIs
<1> QED
  BY <1>3, <1>8

LEMMA MovePosOk == ASSUME IInv, MovePos PROVE IInv'
<1> USE InWindowAssumption, Sizes
<1>0. Types /\ Phases /\ Positions /\ Holds /\ KeepsBehind /\ EndKnown /\ Limits
  BY DEF IInv
<1>1. /\ pc = "ready" /\ pos # MaxVal /\ pos # streamPos
      /\ UNCHANGED <<posLimit, streamPos, streamEnd, total>>
  BY DEF MovePos
<1>2. /\ pos \in Nat /\ streamPos \in Nat /\ posLimit \in Nat /\ total \in Nat /\ at \in Nat
      /\ bufOffset \in Words /\ Unwrap(bufOffset) \in Int
      /\ 0 < pos /\ pos < MaxVal /\ pos < streamPos
  BY <1>0, <1>1, Unwraps DEF Types, Positions, Words
<1>3. /\ Here \in Nat /\ End \in Nat /\ Here < End /\ End <= BlockSize
      /\ Ptr(streamPos) = End /\ -MaxVal <= Unwrap(bufOffset)
  <2>1. /\ Here \in Nat /\ End \in Nat /\ End - Here = streamPos - pos
        /\ Ptr(streamPos) = End /\ -MaxVal <= Unwrap(bufOffset)
    BY <1>0, Computed
  <2> QED
    BY <1>0, <1>2, <2>1 DEF Positions
<1>4. pos' = pos + 1 /\ at' = at + 1
  BY DEF MovePos
<1>5. Ptr(pos') = Here + 1
  <2>1. pos + 1 \in Int /\ Unwrap(bufOffset) + (pos + 1) = Here + 1
    BY <1>2 DEF Here
  <2> QED
    BY <1>2, <1>3, <1>4, <2>1, SlotOf DEF Ptr
<1> DEFINE Kept == /\ UNCHANGED <<buf, bufOffset>>
                   /\ pos' > posLimit => Here + 1 <= LastSafe
<1> DEFINE Moved == Here + 1 > LastSafe /\ MoveBlock(pos')
<1>6. Kept \/ Moved
  <2>1. CASE pos' > posLimit
    BY <1>2, <1>3, <1>5, <2>1 DEF MovePos
  <2>2. CASE ~(pos' > posLimit)
    BY <2>2 DEF MovePos
  <2> QED
    BY <2>1, <2>2
<1> DEFINE Placed == /\ buf' \in [Slots -> Nat] /\ bufOffset' \in Words
                     /\ Here' \in Nat /\ End' <= BlockSize
                     /\ pos' > posLimit => Here' <= LastSafe
                     /\ Holds' /\ KeepsBehind'
<1>7. ASSUME Kept PROVE Placed
  <2>1. Here' = Here + 1 /\ End' = End
    BY <1>1, <1>2, <1>4, <1>7 DEF Here, End
  <2>2. Holds'
    <3>1. \A i \in 0..(End' - 1) : buf'[i] = at' + i - Here' + 1
      <4> SUFFICES ASSUME NEW i \in 0..(End - 1) PROVE buf[i] = (at + 1) + i - (Here + 1) + 1
        BY <1>4, <1>7, <2>1
      <4> QED
        BY <1>0, <1>2, <1>3 DEF Holds
    <3> QED
      BY <3>1 DEF Holds
  <2>3. KeepsBehind'
    BY <1>0, <1>2, <1>3, <1>4, <2>1 DEF KeepsBehind
  <2> QED
    BY <1>0, <1>2, <1>3, <1>7, <2>1, <2>2, <2>3 DEF Types
<1>8. ASSUME Moved PROVE Placed
  <2> DEFINE o == Here - KeepBefore
  <2>1. o \in Nat /\ o <= BlockSize /\ 0 < o
    BY <1>3, <1>8 DEF Moved
  <2>2. /\ buf' = [i \in Slots |-> IF i < End - o THEN buf[o + i] ELSE buf[i]]
        /\ bufOffset' = Minus(bufOffset, o)
    <3>1. Minus(Here + 1, KeepBefore) = o + 1
      <4>1. (Here + 1) - KeepBefore \in Int /\ (Here + 1) - KeepBefore \in Words
        BY <1>3, <2>1 DEF Words
      <4>2. ((Here + 1) - KeepBefore) % Modulus = (Here + 1) - KeepBefore
        BY <4>1, Wraps
      <4>3. (Here + 1) - KeepBefore = o + 1
        BY <1>3
      <4> QED
        BY <4>2, <4>3 DEF Minus
    <3>2. Minus(End, o) = End - o
      <4>1. End - o \in Int /\ End - o \in Words
        BY <1>3, <2>1 DEF Words
      <4> QED
        BY <4>1, Wraps DEF Minus
    <3>3. o + 1 > 0 /\ (o + 1) - 1 = o
      BY <2>1
    <3> HIDE DEF o
    <3> QED
      BY <1>3, <1>5, <1>8, <3>1, <3>2, <3>3 DEF Moved, MoveBlock
  <2>3. bufOffset' \in Words /\ Unwrap(bufOffset') = Unwrap(bufOffset) - o
    <3>1. -MaxVal <= Unwrap(bufOffset) - o
      BY <1>2, <1>3 DEF Here
    <3> HIDE DEF o
    <3> QED
      BY <1>2, <2>1, <2>2, <3>1, OffsetMinus
  <2>4. Here' = KeepBefore + 1 /\ End' = End - o
    BY <1>1, <1>2, <1>3, <1>4, <2>3 DEF Here, End
  <2>5. buf' \in [Slots -> Nat]
    <3>1. \A i \in Slots : i < End - o => o + i \in Slots
      BY <1>3, <2>1 DEF Slots
    <3> HIDE DEF o
    <3> QED
      BY <1>0, <2>2, <3>1 DEF Types
  <2>6. Holds'
    <3>1. \A i \in 0..(End' - 1) : buf'[i] = at' + i - Here' + 1
      <4> SUFFICES ASSUME NEW i \in 0..(End - o - 1)
                   PROVE  buf'[i] = (at + 1) + i - (KeepBefore + 1) + 1
        BY <1>4, <2>4
      <4>1. i \in Slots /\ i < End - o /\ o + i \in 0..(End - 1)
        BY <1>3, <2>1 DEF Slots
      <4>2. buf'[i] = buf[o + i]
        <5> HIDE DEF o
        <5> QED
          BY <2>2, <4>1
      <4>3. buf[o + i] = at + (o + i) - Here + 1
        BY <1>0, <4>1 DEF Holds
      <4> QED
        BY <1>2, <1>3, <2>1, <4>2, <4>3
    <3> QED
      BY <3>1 DEF Holds
  <2>7. KeepsBehind'
    <3>1. Here <= at /\ KeepBefore < Here
      BY <1>0, <1>3, <2>1 DEF KeepsBehind
    <3>2. Here' <= at' /\ ~(Here' < KeepBefore)
      BY <1>2, <1>3, <1>4, <2>4, <3>1
    <3> QED
      BY <3>2 DEF KeepsBehind
  <2> QED
    BY <1>3, <2>1, <2>3, <2>4, <2>5, <2>6, <2>7
<1>9. Placed
  BY <1>6, <1>7, <1>8
<1>10. Types'
  <2>1. pos' \in Words
    BY <1>2, <1>4 DEF Words
  <2> QED
    BY <1>0, <1>1, <1>2, <1>4, <1>9, <2>1 DEF Types
<1>11. pc' = (IF pos' > posLimit /\ ~streamEnd THEN "read" ELSE "ready")
  BY <1>0, <1>1 DEF MovePos, Phases
<1>12. Phases'
  BY <1>0, <1>1, <1>11 DEF Phases
<1>13. Positions'
  BY <1>1, <1>2, <1>4, <1>9, <1>11 DEF Positions
<1>14. EndKnown'
  <2>1. at' + streamPos - pos' = at + streamPos - pos
    BY <1>2, <1>4
  <2> QED
    BY <1>0, <1>1, <1>11, <2>1 DEF EndKnown, Filling
<1>15. Limits'
  <2> SUFFICES ASSUME ~streamEnd
               PROVE  Limits'
    BY <1>1 DEF Limits
  <2>1. streamPos - pos >= KeepAfter /\ posLimit = streamPos - KeepAfter
    BY <1>0, <1>1 DEF Limits
  <2>2. CASE pos' > posLimit
    <3>1. pc' = "read" /\ Here' <= LastSafe
      BY <1>9, <1>11, <2>2
    <3>2. ~(streamPos - pos' >= KeepAfter)
      BY <1>2, <1>4, <2>1, <2>2
    <3> QED
      BY <1>1, <3>1, <3>2 DEF Limits
  <2>3. CASE ~(pos' > posLimit)
    <3>1. pc' = "ready"
      BY <1>11, <2>3
    <3>2. streamPos - pos' >= KeepAfter
      BY <1>2, <1>4, <2>1, <2>3
    <3> QED
      BY <1>1, <2>1, <3>1, <3>2 DEF Limits, Filling
  <2> QED
    BY <2>2, <2>3
<1> QED
  BY <1>9, <1>10, <1>12, <1>13, <1>14, <1>15 DEF IInv
-----------------------------------------------------------------------------
(***************************************************************************)
(* What follows.                                                           *)
(***************************************************************************)
LEMMA StepOk == ASSUME IInv, [Next]_vars PROVE IInv'
<1>1. CASE UNCHANGED vars
  <2>1. Here' = Here /\ End' = End
    BY <1>1 DEF vars, Here, End
  <2>2. Types' /\ Phases'
    BY <1>1 DEF IInv, vars, Types, Phases
  <2>3. Positions' /\ Holds' /\ KeepsBehind'
    BY <1>1, <2>1 DEF IInv, vars, Positions, Holds, KeepsBehind
  <2>4. EndKnown' /\ Limits'
    BY <1>1, <2>1 DEF IInv, vars, EndKnown, Limits, Filling
  <2> QED
    BY <2>2, <2>3, <2>4 DEF IInv
<1> QED
  BY <1>1, ReadSomeOk, BlockFullOk, ReadEndOk, ReadFailsOk, PrimeOk, NormalizeOk, MovePosOk
     DEF Next, Window

\* In every state the slots read so far hold the input, and posLimit and bufOffset
\* are what the next moves rely on.
THEOREM Invariance == Spec => []IInv
<1>1. Init => IInv
  BY InitOk
<1>2. IInv /\ [Next]_vars => IInv'
  BY StepOk
<1> QED
  BY <1>1, <1>2, PTL DEF Spec

\* The byte at a position in reach is in the slot that getIndexByte computes.
LEMMA InReach ==
  ASSUME IInv, NEW k \in Int, -KeepBefore <= k, k < streamPos - pos, at + k >= 0
  PROVE  Ptr(pos + k) \in Slots /\ buf[Ptr(pos + k)] = at + k + 1
<1> USE InWindowAssumption, Sizes
<1>0. Types /\ Positions /\ Holds /\ KeepsBehind
  BY DEF IInv
<1>1. /\ pos \in Nat /\ streamPos \in Nat /\ at \in Nat
      /\ bufOffset \in Words /\ Unwrap(bufOffset) \in Int
  BY <1>0, Unwraps DEF Types, Words
<1>2. Here \in Nat /\ End \in Nat /\ End - Here = streamPos - pos /\ End <= BlockSize
  BY <1>0, Computed DEF Positions
<1>3. 0 <= Here + k /\ Here + k < End
  BY <1>0, <1>1, <1>2 DEF KeepsBehind
<1>4. Ptr(pos + k) = Here + k
  <2>1. pos + k \in Int /\ Unwrap(bufOffset) + (pos + k) = Here + k
    BY <1>1 DEF Here
  <2> QED
    BY <1>1, <1>2, <1>3, <2>1, SlotOf DEF Ptr
<1>5. Here + k \in Slots /\ Here + k \in 0..(End - 1)
  BY <1>2, <1>3 DEF Slots
<1>6. buf[Here + k] = at + (Here + k) - Here + 1
  BY <1>0, <1>5 DEF Holds
<1> QED
  BY <1>1, <1>2, <1>4, <1>5, <1>6

\* WindowHoldsInput: whatever has been moved and renumbered, every byte from
\* KeepBefore behind pos to the last one read is where its position says.
THEOREM HoldsInput == Spec => []WindowHoldsInput
<1>1. IInv => WindowHoldsInput
  <2> SUFFICES ASSUME IInv, NEW k \in -KeepBefore..(Available - 1), at + k >= 0
               PROVE  Ptr(pos + k) \in Slots /\ buf[Ptr(pos + k)] = at + k + 1
    BY DEF WindowHoldsInput
  <2>1. Available = streamPos - pos /\ pos \in Nat /\ streamPos \in Nat
    BY Computed DEF IInv, Types, Words
  <2>2. k \in Int /\ -KeepBefore <= k /\ k < streamPos - pos
    BY <2>1, InWindowAssumption
  <2> QED
    BY <2>2, InReach
<1> QED
  BY <1>1, Invariance, PTL

\* LooksAhead: between two movePos the encoder has KeepAfter bytes ahead of it, or
\* the rest of the input and knows it.
THEOREM SeesAhead == Spec => []LooksAhead
<1>1. IInv => LooksAhead
  <2> SUFFICES ASSUME IInv, pc = "ready"
               PROVE  IF streamEnd THEN Taken = total ELSE Available >= KeepAfter
    BY DEF LooksAhead
  <2>1. /\ Available = streamPos - pos
        /\ pos \in Nat /\ streamPos \in Nat /\ at \in Nat
    BY Computed DEF IInv, Types, Words
  <2>2. Taken = at + streamPos - pos
    BY <2>1 DEF Taken
  <2>3. CASE streamEnd
    BY <2>2, <2>3 DEF IInv, EndKnown
  <2>4. CASE ~streamEnd
    BY <2>1, <2>4 DEF IInv, Limits
  <2> QED
    BY <2>3, <2>4
<1> QED
  BY <1>1, Invariance, PTL

\* ComparesInput: a comparison that starts at most one byte before pos never gets to
\* a slot that does not hold the input, also at the end, where fewer bytes than a
\* match can have are left.
THEOREM Compares == Spec => []ComparesInput
<1>1. IInv => ComparesInput
  <2> SUFFICES ASSUME IInv, pc = "ready",
                      NEW index \in -1..MaxMatch, NEW limit \in 0..MaxMatch,
                      index + limit <= MaxMatch, index <= Available, at + index >= 0,
                      NEW res \in 0..(MatchLimit(index, limit) - 1)
               PROVE  /\ Ptr(pos + index + res) \in Slots
                      /\ buf[Ptr(pos + index + res)] = at + index + res + 1
    BY DEF ComparesInput
  <2> USE InWindowAssumption, Sizes
  <2>0. KeepAfter <= BlockSize /\ KeepBefore > 0
    BY DEF BlockSize
  <2>1. /\ Available = streamPos - pos /\ index \in Int /\ limit \in Int
        /\ pos \in Nat /\ streamPos \in Nat /\ at \in Nat /\ streamPos \in Words
        /\ 0 < pos /\ pos <= MaxVal /\ pos <= streamPos
    BY Computed DEF IInv, Types, Positions, Words
  <2>2. MatchLimit(index, limit) \in Int /\ index + MatchLimit(index, limit) <= streamPos - pos
    <3>1. /\ Plus(pos, index + limit) = pos + (index + limit)
          /\ Plus(pos, index) = pos + index
          /\ Minus(streamPos, pos + index) = streamPos - (pos + index)
      <4>1. /\ pos + (index + limit) \in Int /\ pos + (index + limit) \in Words
            /\ pos + index \in Int /\ pos + index \in Words
        BY <2>0, <2>1 DEF Words
      <4>2. streamPos - (pos + index) \in Int /\ streamPos - (pos + index) \in Words
        BY <2>0, <2>1 DEF Words
      <4>3. /\ (pos + (index + limit)) % Modulus = pos + (index + limit)
            /\ (pos + index) % Modulus = pos + index
            /\ (streamPos - (pos + index)) % Modulus = streamPos - (pos + index)
        BY <4>1, <4>2, Wraps
      <4> QED
        BY <4>3 DEF Plus, Minus
    <3>2. CASE streamEnd
      BY <2>1, <3>1, <3>2 DEF MatchLimit
    <3>3. CASE ~streamEnd
      <4>1. streamPos - pos >= KeepAfter
        BY <3>3 DEF IInv, Limits
      <4>2. MatchLimit(index, limit) = limit
        BY <3>3 DEF MatchLimit
      <4> QED
        BY <2>1, <4>1, <4>2
    <3> QED
      BY <3>2, <3>3
  <2>3. /\ index + res \in Int /\ -KeepBefore <= index + res
        /\ index + res < streamPos - pos /\ at + (index + res) >= 0
    BY <2>0, <2>1, <2>2
  <2>4. /\ Ptr(pos + (index + res)) \in Slots
        /\ buf[Ptr(pos + (index + res))] = at + (index + res) + 1
    BY <2>3, InReach
  <2>5. pos + (index + res) = pos + index + res /\ at + (index + res) + 1 = at + index + res + 1
    BY <2>1, <2>2
  <2> QED
    BY <2>4, <2>5
<1> QED
  BY <1>1, Invariance, PTL
=============================================================================
