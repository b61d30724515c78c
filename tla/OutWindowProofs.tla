-------------------------- MODULE OutWindowProofs --------------------------
(***************************************************************************)
(* Proofs about OutWindow, for every window size and dictionary size, every*)
(* match length and every stream.                                          *)
(*                                                                         *)
(* Neither WindowHoldsHistory nor NothingLostOrRepeated is inductive: what *)
(* CopyByte stores is right only if `from' points at the byte that lies    *)
(* distance + 1 before the end of the stream, and what a flush writes is   *)
(* right only if the unwritten part of the window is the end of the        *)
(* stream. IInv says both.                                                 *)
(***************************************************************************)
EXTENDS OutWindow, TLAPS

\* The slot of the byte decoded d + 1 ago, without uint32 arithmetic.
Behind(d) == IF d < pos THEN pos - d - 1 ELSE pos - d - 1 + WinSize

Wrap(i) == IF i >= WinSize THEN 0 ELSE i

InWindow == /\ pos < WinSize
            /\ \A d \in 0..(WinSize - 1) :
                 d < Len(history) => buf[Behind(d)] = history[Len(history) - d]

CopyInProgress == length > 0 => /\ distance < Len(history)
                                /\ Wrap(from) = Behind(distance)

Unwritten == /\ streamPos <= pos
             /\ pos <= Len(history)
             /\ Len(sink) = Len(history) - (pos - streamPos)

Written == /\ Len(sink) <= Len(history)
           /\ \A i \in 1..Len(sink) : sink[i] = history[i]

IInv == /\ TypeOK
        /\ Written
        /\ phase # "thrown" => InWindow /\ CopyInProgress /\ Unwritten
        /\ phase = "done" => pos = streamPos
-----------------------------------------------------------------------------
(***************************************************************************)
(* The index that getByte and copyBlock compute.                           *)
(***************************************************************************)

\* Whatever the width of the positions, the index stays inside the buffer.
LEMMA BackInSlot ==
  ASSUME pos \in 0..(WinSize - 1), NEW d \in 0..(WinSize - 1)
  PROVE  Back(d) \in Slot
BY WindowAssumption DEF Back, Sub, Add, Slot

\* It is the slot meant when the window is at most half of the range.
LEMMA BackCorrect ==
  ASSUME HalfRange, pos \in 0..(WinSize - 1), NEW d \in 0..(WinSize - 1)
  PROVE  Back(d) = Behind(d)
BY WindowAssumption DEF Back, Behind, Sub, Add, HalfRange
-----------------------------------------------------------------------------
(***************************************************************************)
(* flush, for any stream h whose unwritten end is what lies in the buffer. *)
(***************************************************************************)
LEMMA Unflushed ==
  ASSUME NEW p \in 0..WinSize, streamPos \in Slot, streamPos <= p
  PROVE  p - streamPos \in Nat
BY WindowAssumption DEF Slot

LEMMA ChunkType ==
  ASSUME NEW b \in [Slot -> Byte], NEW p \in 0..WinSize,
         streamPos \in Slot, streamPos <= p
  PROVE  /\ Chunk(b, p) \in Seq(Byte)
         /\ Len(Chunk(b, p)) = p - streamPos
         /\ \A i \in 1..(p - streamPos) : Chunk(b, p)[i] = b[streamPos + i - 1]
<1>1. p - streamPos \in Nat
  BY Unflushed
<1>2. \A i \in 1..(p - streamPos) : b[streamPos + i - 1] \in Byte
  BY WindowAssumption DEF Slot
<1>3. Chunk(b, p) \in [1..(p - streamPos) -> Byte]
  BY <1>2 DEF Chunk
<1> QED
  BY <1>1, <1>3 DEF Chunk, Seq

\* Sequences of the same length and elements are the same.
LEMMA SameSequence ==
  ASSUME NEW s \in Seq(Byte), NEW t \in Seq(Byte), Len(s) = Len(t),
         \A i \in 1..Len(s) : s[i] = t[i]
  PROVE  s = t
OBVIOUS

\* Appending the continuation of h to a prefix of h gives a prefix of h.
LEMMA PrefixGrows ==
  ASSUME NEW s \in Seq(Byte), NEW t \in Seq(Byte), NEW h \in Seq(Byte),
         \A i \in 1..Len(s) : s[i] = h[i],
         \A i \in 1..Len(t) : t[i] = h[Len(s) + i]
  PROVE  /\ s \o t \in Seq(Byte) /\ Len(s \o t) = Len(s) + Len(t)
         /\ \A i \in 1..Len(s \o t) : (s \o t)[i] = h[i]
<1>1. s \o t \in Seq(Byte) /\ Len(s \o t) = Len(s) + Len(t)
  OBVIOUS
<1>2. ASSUME NEW i \in 1..Len(s \o t)
      PROVE  (s \o t)[i] = h[i]
  <2>1. CASE i <= Len(s)
    BY <1>1, <2>1
  <2>2. CASE i > Len(s)
    <3>1. (s \o t)[i] = t[i - Len(s)]
      BY <1>1, <2>2
    <3>2. i - Len(s) \in 1..Len(t)
      BY <1>1, <2>2
    <3> QED
      BY <3>1, <3>2
  <2> QED
    BY <2>1, <2>2
<1> QED
  BY <1>1, <1>2

LEMMA FlushStep ==
  ASSUME TypeOK,
         NEW b \in [Slot -> Byte], NEW p \in 0..WinSize, NEW h \in Seq(Byte),
         NEW next \in {"run", "done"},
         streamPos <= p, Len(sink) = Len(h) - (p - streamPos),
         \A i \in 1..Len(sink) : sink[i] = h[i],
         \A i \in 1..(p - streamPos) : b[streamPos + i - 1] = h[Len(sink) + i],
         Flush(b, p, next)
  PROVE  /\ sink' \in Seq(Byte) /\ pos' \in 0..WinSize /\ streamPos' \in Slot
         /\ phase' \in {next, "thrown"}
         /\ Len(sink) <= Len(sink') /\ Len(sink') <= Len(h)
         /\ \A i \in 1..Len(sink') : sink'[i] = h[i]
         /\ phase' # "thrown" => /\ pos' = Wrap(p) /\ streamPos' = pos'
                                 /\ Len(sink') = Len(h)
<1>1. CASE p = streamPos /\ pos' = p /\ phase' = next
           /\ UNCHANGED <<streamPos, sink>>
  BY SMTT(30), <1>1, WindowAssumption DEF TypeOK, Wrap, Slot
<1>2. CASE /\ p # streamPos
           /\ sink' = sink \o Chunk(b, p)
           /\ pos' = IF p >= WinSize THEN 0 ELSE p
           /\ streamPos' = pos' /\ phase' = next
  <2>1. /\ Chunk(b, p) \in Seq(Byte) /\ Len(Chunk(b, p)) = p - streamPos
        /\ \A i \in 1..(p - streamPos) : Chunk(b, p)[i] = b[streamPos + i - 1]
    BY ChunkType DEF TypeOK
  <2>2. /\ sink' \in Seq(Byte) /\ Len(sink') = Len(sink) + (p - streamPos)
        /\ \A i \in 1..Len(sink') : sink'[i] = h[i]
    <3> DEFINE t == Chunk(b, p)
    <3>1. \A i \in 1..Len(t) : t[i] = h[Len(sink) + i]
      BY <2>1
    <3>2. t \in Seq(Byte) /\ Len(t) = p - streamPos /\ sink' = sink \o t
          /\ sink \in Seq(Byte)
      BY <1>2, <2>1 DEF TypeOK
    <3> HIDE DEF t
    <3>3. /\ sink \o t \in Seq(Byte) /\ Len(sink \o t) = Len(sink) + Len(t)
          /\ \A i \in 1..Len(sink \o t) : (sink \o t)[i] = h[i]
      BY <3>1, <3>2, PrefixGrows
    <3> QED
      BY <3>2, <3>3
  <2>3. Len(sink') = Len(h) /\ Len(sink) <= Len(sink')
    BY SMTT(30), <2>2 DEF TypeOK, Slot
  <2> QED
    BY <1>2, <2>2, <2>3, WindowAssumption DEF TypeOK, Wrap, Slot
<1>3. CASE /\ p # streamPos
           /\ \E n \in 0..(p - streamPos) :
                sink' = sink \o SubSeq(Chunk(b, p), 1, n)
           /\ pos' = p /\ phase' = "thrown" /\ UNCHANGED streamPos
  <2>1. PICK n \in 0..(p - streamPos) : sink' = sink \o SubSeq(Chunk(b, p), 1, n)
    BY <1>3
  <2>2. /\ Chunk(b, p) \in Seq(Byte) /\ Len(Chunk(b, p)) = p - streamPos
        /\ \A i \in 1..(p - streamPos) : Chunk(b, p)[i] = b[streamPos + i - 1]
    BY ChunkType DEF TypeOK
  <2>3. /\ SubSeq(Chunk(b, p), 1, n) \in Seq(Byte)
        /\ Len(SubSeq(Chunk(b, p), 1, n)) = n
        /\ \A i \in 1..n : SubSeq(Chunk(b, p), 1, n)[i] = Chunk(b, p)[i]
    BY <2>2, WindowAssumption DEF TypeOK, Slot
  <2>4. /\ sink' \in Seq(Byte) /\ Len(sink') = Len(sink) + n
        /\ \A i \in 1..Len(sink') : sink'[i] = h[i]
    <3>0. p - streamPos \in Nat
      BY Unflushed DEF TypeOK
    <3>1. \A i \in 1..n : i \in 1..(p - streamPos)
      BY <3>0
    <3> DEFINE t == SubSeq(Chunk(b, p), 1, n)
    <3>2. \A i \in 1..Len(t) : t[i] = h[Len(sink) + i]
      BY <2>2, <2>3, <3>1
    <3>3. t \in Seq(Byte) /\ Len(t) = n /\ sink' = sink \o t
          /\ sink \in Seq(Byte)
      BY <2>1, <2>3 DEF TypeOK
    <3> HIDE DEF t
    <3>4. /\ sink \o t \in Seq(Byte) /\ Len(sink \o t) = Len(sink) + Len(t)
          /\ \A i \in 1..Len(sink \o t) : (sink \o t)[i] = h[i]
      BY <3>2, <3>3, PrefixGrows
    <3> QED
      BY <3>3, <3>4
  <2> QED
    BY SMTT(30), <1>3, <2>4, WindowAssumption DEF TypeOK, Slot
<1> QED
  BY <1>1, <1>2, <1>3 DEF Flush
-----------------------------------------------------------------------------
(***************************************************************************)
(* One byte stored, by putByte or by an iteration of copyBlock.            *)
(***************************************************************************)

\* What lies unwritten in the window is the end of the stream.
LEMMA UnwrittenIsEnd ==
  ASSUME TypeOK, InWindow, Unwritten, NEW i \in 1..(pos - streamPos)
  PROVE  buf[streamPos + i - 1] = history[Len(sink) + i]
<1> DEFINE d == pos - streamPos - i
<1>1. d \in 0..(WinSize - 1) /\ d < Len(history) /\ d < pos
  BY WindowAssumption DEF TypeOK, InWindow, Unwritten, Slot
<1>2. buf[Behind(d)] = history[Len(history) - d]
  BY <1>1 DEF InWindow
<1>3. Behind(d) = streamPos + i - 1 /\ Len(history) - d = Len(sink) + i
  BY <1>1 DEF Behind, TypeOK, Unwritten, Slot
<1> QED
  BY <1>2, <1>3

LEMMA StoreStep ==
  ASSUME IInv, phase = "run", NEW b \in Byte, Store(b)
  PROVE  /\ history' = Append(history, b)
         /\ buf' \in [Slot -> Byte] /\ pos' \in 0..WinSize
         /\ streamPos' \in Slot /\ sink' \in Seq(Byte)
         /\ phase' \in {"run", "thrown"}
         /\ Len(sink) <= Len(sink') /\ Written'
         /\ phase' # "thrown" => /\ pos' = Wrap(pos + 1)
                                 /\ InWindow' /\ Unwritten'
<1> DEFINE h == Append(history, b)
<1> DEFINE p == pos + 1
<1> USE WindowAssumption
<1>1. /\ TypeOK /\ InWindow /\ Unwritten /\ Written
      /\ pos \in Slot
  BY DEF IInv, InWindow, TypeOK, Slot
<1>2. history' = h /\ h \in Seq(Byte) /\ Len(h) = Len(history) + 1
      /\ h[Len(h)] = b /\ \A i \in 1..Len(history) : h[i] = history[i]
  BY <1>1 DEF Store, TypeOK
<1> HIDE DEF h
<1>3. /\ buf' \in [Slot -> Byte] /\ buf'[pos] = b
      /\ \A i \in Slot : i # pos => buf'[i] = buf[i]
  BY <1>1 DEF Store, TypeOK
<1>4. /\ streamPos <= p /\ Len(sink) = Len(h) - (p - streamPos)
      /\ \A i \in 1..Len(sink) : sink[i] = h[i]
      /\ p <= Len(h)
  <2>1. /\ Len(sink) \in Nat /\ Len(history) \in Nat
        /\ streamPos \in Nat /\ pos \in Nat
    BY <1>1 DEF TypeOK, Slot
  <2>2. /\ streamPos <= p /\ Len(sink) = Len(h) - (p - streamPos)
        /\ p <= Len(h)
    BY <2>1, <1>1, <1>2 DEF Unwritten
  <2>3. \A i \in 1..Len(sink) : i \in 1..Len(history)
    BY <2>1, <1>1 DEF Written
  <2>4. \A i \in 1..Len(sink) : sink[i] = h[i]
    BY <2>3, <1>1, <1>2 DEF Written
  <2> QED
    BY <2>2, <2>4
<1>5. \A i \in 1..(p - streamPos) : buf'[streamPos + i - 1] = h[Len(sink) + i]
  <2> SUFFICES ASSUME NEW i \in 1..(p - streamPos)
               PROVE  buf'[streamPos + i - 1] = h[Len(sink) + i]
    OBVIOUS
  <2>1. CASE i = pos + 1 - streamPos
    BY <2>1, <1>1, <1>2, <1>3, <1>4 DEF TypeOK, Slot
  <2>2. CASE i \in 1..(pos - streamPos)
    <3>1. buf[streamPos + i - 1] = history[Len(sink) + i]
      BY <2>2, <1>1, UnwrittenIsEnd
    <3>2. /\ streamPos + i - 1 \in Slot /\ streamPos + i - 1 # pos
          /\ Len(sink) + i \in 1..Len(history)
      BY <2>2, <1>1 DEF TypeOK, Slot, Unwritten
    <3> QED
      BY <3>1, <3>2, <1>2, <1>3
  <2> QED
    <3>1. pos \in Int /\ streamPos \in Int
      BY <1>1 DEF TypeOK, Slot
    <3>2. i = pos + 1 - streamPos \/ i \in 1..(pos - streamPos)
      BY <3>1
    <3> QED
      BY <2>1, <2>2, <3>2
<1>6. /\ pos' \in 0..WinSize /\ streamPos' \in Slot /\ sink' \in Seq(Byte)
      /\ phase' \in {"run", "thrown"}
      /\ Len(sink) <= Len(sink') /\ Len(sink') <= Len(h)
      /\ \A i \in 1..Len(sink') : sink'[i] = h[i]
      /\ phase' # "thrown" => /\ pos' = Wrap(pos + 1) /\ streamPos' <= pos'
                              /\ Len(sink') = Len(h) - (pos' - streamPos')
  <2>1. CASE pos + 1 >= WinSize
    <3>1. Flush(buf', p, "run")
      BY <2>1 DEF Store
    <3>2. p \in 0..WinSize /\ buf' \in [Slot -> Byte]
      BY <1>1, <1>3 DEF Slot
    <3> HIDE DEF p
    <3>3. /\ sink' \in Seq(Byte) /\ pos' \in 0..WinSize /\ streamPos' \in Slot
          /\ phase' \in {"run", "thrown"}
          /\ Len(sink) <= Len(sink') /\ Len(sink') <= Len(h)
          /\ \A i \in 1..Len(sink') : sink'[i] = h[i]
          /\ phase' # "thrown" => /\ pos' = Wrap(p) /\ streamPos' = pos'
                                  /\ Len(sink') = Len(h)
      BY <3>1, <3>2, <1>1, <1>2, <1>4, <1>5, FlushStep
    <3> QED
      BY <3>3, <1>2 DEF p, Slot
  <2>2. CASE ~(pos + 1 >= WinSize)
    <3>1. pos' = pos + 1 /\ UNCHANGED <<streamPos, sink, phase>>
      BY <2>2 DEF Store
    <3>2. /\ pos' \in 0..WinSize /\ pos' = Wrap(pos + 1)
          /\ Len(sink') = Len(h) - (pos' - streamPos')
      BY <2>2, <3>1, <1>1, <1>4 DEF Wrap, Slot
    <3>3. Len(sink') <= Len(h) /\ Len(sink) <= Len(sink')
      BY <3>1, <1>1, <1>2 DEF Written, TypeOK
    <3> QED
      BY <3>1, <3>2, <3>3, <1>1, <1>4 DEF TypeOK
  <2> QED
    BY <2>1, <2>2
<1>7. ASSUME phase' # "thrown"
      PROVE  InWindow'
  <2>1. pos' = Wrap(pos + 1) /\ pos' < WinSize
    BY <1>1, <1>6, <1>7 DEF Wrap, Slot
  <2>2. ASSUME NEW d \in 0..(WinSize - 1), d < Len(history')
        PROVE  buf'[Behind(d)'] = history'[Len(history') - d]
    <3>1. CASE d = 0
      BY <3>1, <2>1, <1>1, <1>2, <1>3 DEF Behind, Wrap, Slot
    <3>2. CASE d # 0
      <4>1. d - 1 \in 0..(WinSize - 1) /\ d - 1 < Len(history)
        BY <3>2, <2>2, <1>1, <1>2 DEF TypeOK
      <4>2. buf[Behind(d - 1)] = history[Len(history) - (d - 1)]
        BY <4>1, <1>1 DEF InWindow
      <4>3. Behind(d)' = Behind(d - 1)
            /\ Behind(d - 1) \in Slot /\ Behind(d - 1) # pos
        BY <3>2, <2>1, <1>1 DEF Behind, Wrap, Slot
      <4>4. history'[Len(history') - d] = history[Len(history) - (d - 1)]
        BY SMTT(30), <3>2, <2>2, <1>1, <1>2 DEF TypeOK
      <4> QED
        BY <4>2, <4>3, <4>4, <1>3
    <3> QED
      BY <3>1, <3>2
  <2> QED
    BY <2>1, <2>2 DEF InWindow
<1>8. ASSUME phase' # "thrown"
      PROVE  Unwritten'
  <2>1. /\ pos' = Wrap(p) /\ streamPos' <= pos'
        /\ Len(sink') = Len(history') - (pos' - streamPos')
    BY <1>2, <1>6, <1>8
  <2>2. pos' <= Len(history')
    BY <2>1, <1>2, <1>4 DEF Wrap
  <2> QED
    BY <2>1, <2>2 DEF Unwritten
<1> QED
  BY <1>2, <1>3, <1>6, <1>7, <1>8 DEF Written
-----------------------------------------------------------------------------
(***************************************************************************)
(* The invariant, and what follows from it.                                *)
(***************************************************************************)

\* copyBlock reads the byte decoded distance + 1 ago at each iteration.
LEMMA CopyReads ==
  ASSUME IInv, phase = "run", length > 0
  PROVE  /\ distance \in 0..(Len(history) - 1)
         /\ Wrap(from) \in Slot
         /\ buf[Wrap(from)] = history[Len(history) - distance]
         /\ buf[Wrap(from)] \in Byte
<1>1. /\ distance \in 0..(WinSize - 1) /\ distance < Len(history)
      /\ Wrap(from) = Behind(distance) /\ Behind(distance) \in Slot
  BY WindowAssumption DEF IInv, TypeOK, InWindow, CopyInProgress, Behind, Slot
<1>2. buf[Behind(distance)] = history[Len(history) - distance]
  BY <1>1 DEF IInv, InWindow
<1> QED
  BY <1>1, <1>2 DEF IInv, TypeOK

\* The window starts empty.
LEMMA InitIInv == Init => IInv
<1> SUFFICES ASSUME Init PROVE IInv
  OBVIOUS
<1>1. ZeroByte \in Byte
  BY WindowAssumption DEF ZeroByte
<1>2. TypeOK
  BY <1>1, WindowAssumption DEF Init, TypeOK, Slot
<1>3. Written /\ InWindow /\ CopyInProgress /\ Unwritten
  BY WindowAssumption DEF Init, Written, InWindow, CopyInProgress, Unwritten
<1> QED
  BY <1>2, <1>3 DEF IInv, Init

\* Every step keeps the invariant.
LEMMA NextIInv == ASSUME HalfRange, IInv, [Next]_vars PROVE IInv'
<1> USE WindowAssumption
<1>1. ASSUME NEW b \in Byte, PutByte(b)
      PROVE  IInv'
  <2>1. Store(b) /\ phase = "run" /\ length = 0
        /\ UNCHANGED <<from, distance, length>>
    BY <1>1 DEF PutByte
  <2>2. /\ history' = Append(history, b)
        /\ buf' \in [Slot -> Byte] /\ pos' \in 0..WinSize
        /\ streamPos' \in Slot /\ sink' \in Seq(Byte)
        /\ phase' \in {"run", "thrown"} /\ Written'
        /\ phase' # "thrown" => InWindow' /\ Unwritten'
    BY <2>1, StoreStep
  <2>3. TypeOK'
    BY <2>1, <2>2 DEF TypeOK, IInv
  <2>4. CopyInProgress'
    BY <2>1 DEF CopyInProgress
  <2> QED
    BY <2>2, <2>3, <2>4 DEF IInv
<1>2. ASSUME NEW d \in 0..(DictSize - 1), NEW n \in 2..MaxLen, CopyBlock(d, n)
      PROVE  IInv'
  <2>1. /\ phase = "run" /\ d < Len(history)
        /\ from' = Back(d) /\ distance' = d /\ length' = n
        /\ UNCHANGED <<buf, pos, streamPos, sink, phase, history>>
    BY <1>2 DEF CopyBlock
  <2>2. pos \in 0..(WinSize - 1) /\ d \in 0..(WinSize - 1)
    BY <2>1 DEF IInv, InWindow, TypeOK
  <2>3. from' = Behind(d) /\ from' \in Slot
    BY <2>1, <2>2, BackInSlot, BackCorrect
  <2>4. TypeOK'
    BY <2>1, <2>3 DEF IInv, TypeOK, Slot
  <2>5. CopyInProgress'
    BY <2>1, <2>3 DEF CopyInProgress, Wrap, Behind, Slot
  <2>6. Written' /\ InWindow' /\ Unwritten'
    BY <2>1 DEF IInv, Written, InWindow, Unwritten, Behind
  <2> QED
    BY <2>1, <2>4, <2>5, <2>6 DEF IInv
<1>3. ASSUME CopyByte
      PROVE  IInv'
  <2> DEFINE src == Wrap(from)
  <2>1. /\ phase = "run" /\ length > 0 /\ Store(buf[src]) /\ from' = src + 1
        /\ length' = length - 1 /\ distance' = distance
    BY <1>3 DEF CopyByte, Wrap
  <2>2. buf[src] \in Byte /\ src \in Slot
    BY <2>1, CopyReads
  <2>3. /\ history' = Append(history, buf[src])
        /\ buf' \in [Slot -> Byte] /\ pos' \in 0..WinSize
        /\ streamPos' \in Slot /\ sink' \in Seq(Byte)
        /\ phase' \in {"run", "thrown"} /\ Written'
        /\ phase' # "thrown" => /\ pos' = Wrap(pos + 1)
                                /\ InWindow' /\ Unwritten'
    <3> DEFINE b == buf[src]
    <3>1. b \in Byte /\ Store(b)
      BY <2>1, <2>2
    <3> HIDE DEF b
    <3>2. /\ history' = Append(history, b)
          /\ buf' \in [Slot -> Byte] /\ pos' \in 0..WinSize
          /\ streamPos' \in Slot /\ sink' \in Seq(Byte)
          /\ phase' \in {"run", "thrown"} /\ Written'
          /\ phase' # "thrown" => /\ pos' = Wrap(pos + 1)
                                  /\ InWindow' /\ Unwritten'
      BY <2>1, <3>1, StoreStep
    <3> QED
      BY <3>2 DEF b
  <2>4. TypeOK'
    BY <2>1, <2>2, <2>3 DEF IInv, TypeOK, Slot
  <2>5. ASSUME phase' # "thrown"
        PROVE  CopyInProgress'
    <3>1. pos \in Slot /\ distance \in Slot /\ distance < Len(history)
          /\ src = Behind(distance)
      BY <2>1 DEF IInv, TypeOK, InWindow, CopyInProgress, Slot
    <3>2. Len(history') = Len(history) + 1
      BY <2>2, <2>3 DEF IInv, TypeOK
    <3>3. Wrap(src + 1) = Behind(distance)'
      <4> HIDE DEF src
      <4>1. src = IF distance < pos THEN pos - distance - 1
                  ELSE pos - distance - 1 + WinSize
        BY <3>1 DEF Behind
      <4>2. /\ distance' = distance
            /\ pos' = IF pos + 1 >= WinSize THEN 0 ELSE pos + 1
        BY <2>1, <2>3, <2>5 DEF Wrap
      <4> QED
        BY <3>1, <4>1, <4>2 DEF Wrap, Behind, Slot
    <3>4. distance' < Len(history')
      BY <3>1, <3>2, <2>1 DEF IInv, TypeOK, Slot
    <3>5. Wrap(from)' = Wrap(src + 1)
      BY <2>1 DEF Wrap
    <3> QED
      BY <3>3, <3>4, <3>5, <2>1 DEF CopyInProgress, Behind
  <2> QED
    BY <2>3, <2>4, <2>5 DEF IInv
<1>4. ASSUME Finish
      PROVE  IInv'
  <2>1. /\ phase = "run" /\ length = 0 /\ Flush(buf, pos, "done")
        /\ UNCHANGED <<buf, from, distance, length, history>>
    BY <1>4 DEF Finish
  <2>2. /\ TypeOK /\ InWindow /\ Unwritten /\ Written
    BY <2>1 DEF IInv
  <2>3. \A i \in 1..(pos - streamPos) :
          buf[streamPos + i - 1] = history[Len(sink) + i]
    BY <2>2, UnwrittenIsEnd
  <2>4. /\ sink' \in Seq(Byte) /\ pos' \in 0..WinSize /\ streamPos' \in Slot
        /\ phase' \in {"done", "thrown"}
        /\ Len(sink') <= Len(history)
        /\ \A i \in 1..Len(sink') : sink'[i] = history[i]
        /\ phase' # "thrown" => /\ pos' = Wrap(pos) /\ streamPos' = pos'
                                /\ Len(sink') = Len(history)
    BY <2>1, <2>2, <2>3, FlushStep DEF TypeOK, Unwritten, Written
  <2>5. Wrap(pos) = pos
    BY <2>2 DEF InWindow, TypeOK, Wrap
  <2>6. TypeOK'
    BY <2>1, <2>2, <2>4 DEF TypeOK
  <2>7. Written' /\ CopyInProgress'
    BY <2>1, <2>4 DEF Written, CopyInProgress
  <2>8. ASSUME phase' # "thrown"
        PROVE  InWindow' /\ Unwritten'
    <3>1. /\ pos' = pos /\ streamPos' = pos /\ Len(sink') = Len(history)
          /\ buf' = buf /\ history' = history
      BY <2>1, <2>4, <2>5, <2>8
    <3>2. InWindow'
      BY <3>1, <2>2 DEF InWindow, Behind
    <3>3. Unwritten'
      BY <3>1, <2>2 DEF Unwritten, TypeOK
    <3> QED
      BY <3>2, <3>3
  <2> QED
    BY <2>4, <2>6, <2>7, <2>8 DEF IInv
<1>5. CASE UNCHANGED vars
  BY <1>5 DEF vars, IInv, TypeOK, Written, InWindow, CopyInProgress, Unwritten,
              Behind, Wrap
<1> QED
  BY <1>1, <1>2, <1>3, <1>4, <1>5 DEF Next

LEMMA Invariance == ASSUME HalfRange PROVE Spec => []IInv
<1>1. Init => IInv
  BY InitIInv
<1>2. IInv /\ [Next]_vars => IInv'
  BY HalfRange, NextIInv
<1> QED
  BY <1>1, <1>2, PTL DEF Spec
-----------------------------------------------------------------------------
(***************************************************************************)
(* The properties.                                                         *)
(***************************************************************************)

\* The variables keep their types: no position leaves the buffer, so neither
\* putByte, copyBlock, getByte nor flush indexes buf out of its bounds.
THEOREM Typing == ASSUME HalfRange PROVE Spec => []TypeOK
<1>1. IInv => TypeOK
  BY DEF IInv
<1> QED
  BY HalfRange, Invariance, <1>1, PTL

\* getByte and copyBlock reach the byte decoded distance + 1 ago, for every
\* distance a window holds, as long as the window is at most half of the range
\* of a uint32.
THEOREM WindowCorrect == ASSUME HalfRange PROVE Spec => []WindowHoldsHistory
<1>1. IInv => WindowHoldsHistory
  <2> SUFFICES ASSUME IInv, phase # "thrown",
                      NEW d \in 0..(WinSize - 1), d < Len(history)
               PROVE  /\ Back(d) \in Slot
                      /\ buf[Back(d)] = history[Len(history) - d]
    BY DEF WindowHoldsHistory
  <2>1. pos \in 0..(WinSize - 1)
    BY WindowAssumption DEF IInv, TypeOK, InWindow
  <2>2. Back(d) = Behind(d) /\ Back(d) \in Slot
    BY <2>1, HalfRange, BackCorrect, BackInSlot
  <2> QED
    BY <2>2 DEF IInv, InWindow
<1> QED
  BY HalfRange, Invariance, <1>1, PTL

\* What the writer has received is a prefix of the decoded stream at every
\* moment, and flush leaves nothing out and writes nothing twice; the flush at
\* the end of doDecode leaves nothing in the window.
THEOREM WritesInOrder == ASSUME HalfRange PROVE Spec => []NothingLostOrRepeated
<1>1. IInv => NothingLostOrRepeated
  <2> SUFFICES ASSUME IInv PROVE NothingLostOrRepeated
    OBVIOUS
  <2>1. Written /\ TypeOK
    BY DEF IInv
  <2>2. ASSUME phase # "thrown" PROVE history = sink \o Chunk(buf, pos)
    <3> DEFINE t == Chunk(buf, pos)
    <3>1. InWindow /\ Unwritten
      BY <2>2 DEF IInv
    <3>2. /\ t \in Seq(Byte) /\ Len(t) = pos - streamPos
          /\ \A i \in 1..(pos - streamPos) : t[i] = buf[streamPos + i - 1]
      BY <2>1, <3>1, ChunkType DEF TypeOK, Unwritten
    <3>3. \A i \in 1..Len(t) : t[i] = history[Len(sink) + i]
      BY <2>1, <3>1, <3>2, UnwrittenIsEnd
    <3>4. sink \in Seq(Byte) /\ history \in Seq(Byte)
          /\ streamPos \in Nat /\ pos \in Nat
      BY <2>1 DEF TypeOK, Slot
    <3> HIDE DEF t
    <3>5. t \in Seq(Byte) /\ \A i \in 1..Len(sink) : sink[i] = history[i]
      BY <2>1, <3>2 DEF Written
    <3>6. /\ sink \o t \in Seq(Byte) /\ Len(sink \o t) = Len(sink) + Len(t)
          /\ \A i \in 1..Len(sink \o t) : (sink \o t)[i] = history[i]
      BY <3>3, <3>4, <3>5, PrefixGrows
    <3>7. Len(sink \o t) = Len(history)
      BY <3>1, <3>2, <3>4, <3>6 DEF Unwritten
    <3>8. history = sink \o t
      BY <3>4, <3>6, <3>7, SameSequence
    <3> QED
      BY <3>8 DEF t
  <2>3. ASSUME phase = "done" PROVE sink = history
    <3>1. sink \in Seq(Byte) /\ history \in Seq(Byte) /\ pos \in Int
      BY <2>1, WindowAssumption DEF TypeOK
    <3>2. Unwritten /\ pos = streamPos
      BY <2>3 DEF IInv
    <3>3. Len(sink) = Len(history)
      BY <3>1, <3>2 DEF Unwritten
    <3> QED
      BY <2>1, <3>1, <3>3, SameSequence DEF Written
  <2> QED
    BY <2>1, <2>2, <2>3 DEF NothingLostOrRepeated, Written
<1> QED
  BY HalfRange, Invariance, <1>1, PTL

\* The window implements the unbounded history: the circular buffer, its
\* wrapped positions and its partial writes show nothing but a stream that
\* grows and a writer that receives a prefix of it.
THEOREM Refinement == ASSUME HalfRange PROVE Spec => RefinesHistory
<1> USE WindowAssumption
<1>1. Init => LZ!Init
  BY DEF Init, LZ!Init
<1>2. ASSUME IInv, IInv', [Next]_vars
      PROVE  [LZ!Next]_LZ!vars
  <2>1. Written' /\ TypeOK
    BY <1>2 DEF IInv
  <2>2. ASSUME NEW b \in Byte, PutByte(b)
        PROVE  LZ!Literal
    <3>1. phase = "run" /\ length = 0 /\ Store(b)
          /\ UNCHANGED <<from, distance, length>>
      BY <2>2 DEF PutByte
    <3>2. /\ history' = Append(history, b) /\ phase' \in {"run", "thrown"}
          /\ Len(sink) <= Len(sink')
      BY <1>2, <3>1, StoreStep
    <3>3. LZ!Deliver
      BY <2>1, <3>2 DEF LZ!Deliver, LZ!IsPrefixOf, Written
    <3> QED
      BY <3>1, <3>2, <3>3 DEF LZ!Literal
  <2>3. ASSUME NEW d \in 0..(DictSize - 1), NEW n \in 2..MaxLen, CopyBlock(d, n)
        PROVE  LZ!StartRepeat
    BY <2>1, <2>3 DEF CopyBlock, LZ!StartRepeat, TypeOK
  <2>4. ASSUME CopyByte
        PROVE  LZ!RepeatByte
    <3> DEFINE b == buf[Wrap(from)]
    <3>1. /\ phase = "run" /\ length > 0 /\ Store(b)
          /\ length' = length - 1 /\ distance' = distance
      BY <2>4 DEF CopyByte, Wrap
    <3>2. b \in Byte /\ b = history[Len(history) - distance]
      BY <1>2, <3>1, CopyReads
    <3> HIDE DEF b
    <3>3. /\ history' = Append(history, b) /\ phase' \in {"run", "thrown"}
          /\ Len(sink) <= Len(sink')
      BY <1>2, <3>1, <3>2, StoreStep
    <3>4. LZ!Deliver
      BY <2>1, <3>3 DEF LZ!Deliver, LZ!IsPrefixOf, Written
    <3> QED
      BY <3>1, <3>2, <3>3, <3>4 DEF LZ!RepeatByte
  <2>5. ASSUME Finish
        PROVE  LZ!Finish
    <3>1. phase = "run" /\ length = 0 /\ Flush(buf, pos, "done")
          /\ UNCHANGED <<buf, from, distance, length, history>>
      BY <2>5 DEF Finish
    <3>2. InWindow /\ Unwritten /\ Written
      BY <1>2, <3>1 DEF IInv
    <3>3. \A i \in 1..(pos - streamPos) :
            buf[streamPos + i - 1] = history[Len(sink) + i]
      BY <2>1, <3>2, UnwrittenIsEnd
    <3>4. /\ phase' \in {"done", "thrown"} /\ sink' \in Seq(Byte)
          /\ Len(sink) <= Len(sink')
          /\ phase' # "thrown" => Len(sink') = Len(history)
      BY <2>1, <3>1, <3>2, <3>3, FlushStep DEF TypeOK, Unwritten, Written
    <3>5. LZ!IsPrefixOf(sink', history)
      BY <2>1, <3>1 DEF LZ!IsPrefixOf, Written
    <3>6. phase' = "done" => sink' = history
      <4> SUFFICES ASSUME phase' = "done" PROVE sink' = history
        OBVIOUS
      <4>1. /\ Len(sink') = Len(history) /\ history \in Seq(Byte)
            /\ \A i \in 1..Len(sink') : sink'[i] = history[i]
        BY <2>1, <3>1, <3>4 DEF Written, TypeOK
      <4> QED
        BY <3>4, <4>1
    <3> QED
      BY <3>1, <3>4, <3>5, <3>6 DEF LZ!Finish
  <2>6. CASE UNCHANGED vars
    BY <2>6 DEF vars, LZ!vars
  <2> QED
    BY <1>2, <2>2, <2>3, <2>4, <2>5, <2>6 DEF Next, LZ!Next
<1>3. Spec => []IInv
  BY HalfRange, Invariance
<1> QED
  BY <1>1, <1>2, <1>3, PTL DEF Spec, RefinesHistory, LZ!Spec
=============================================================================
