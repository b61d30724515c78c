----------------------------- MODULE OutWindow -----------------------------
(***************************************************************************)
(* lzOutWindow (lz_window.go): the circular dictionary of the decoder.     *)
(* doDecode calls putByte for a literal, copyBlock for a match and flush   *)
(* once at the end; the window writes itself out each time it is full.     *)
(* Positions are uint32: they are numbers below Modulus and subtraction    *)
(* and addition wrap. copyBlock is a loop that may stop in the middle, in  *)
(* a write that fails: CopyBlock is its entry, CopyByte one iteration.     *)
(***************************************************************************)
EXTENDS Integers, Sequences

CONSTANTS Byte,      \* the values of a byte
          WinSize,   \* winSize: max(dictSizeCheck, 1 << 12)
          DictSize,  \* dictSizeCheck: max(prop.dictSize, 1)
          Modulus,   \* 2^32 in the code: uint32 arithmetic wraps here
          MaxLen,    \* bound: the longest match (273 in the code)
          MaxOut     \* bound: bytes decoded in one behaviour

ASSUME WindowAssumption == /\ Byte # {}
                           /\ WinSize \in Nat \ {0}
                           /\ DictSize \in 1..WinSize
                           /\ Modulus \in Nat /\ WinSize < Modulus
                           /\ MaxLen \in Nat /\ MaxOut \in Nat

VARIABLES buf,        \* buf: WinSize bytes
          pos,        \* pos: where the next byte goes
          streamPos,  \* streamPos: the first byte not yet written out
          from,       \* copyBlock's local pos: where the next byte comes from
          distance,   \* copyBlock's argument
          length,     \* copyBlock's loop counter; 0 when no copy is in progress
          sink,       \* the bytes that w.Write has accepted
          phase,      \* "run"; "done" after the last flush; "thrown" by throw(err)
          history     \* every byte put into the window (nowPos is its length)

vars == <<buf, pos, streamPos, from, distance, length, sink, phase, history>>

Slot == 0..(WinSize - 1)
ZeroByte == CHOOSE b \in Byte : TRUE

\* No difference of two positions is ambiguous when the window is at most half
\* of the range of a uint32. Nothing in the code makes it so: decodeProps takes
\* any dictSize up to 2^32 - 1.
HalfRange == 2 * WinSize <= Modulus

Sub(a, b) == IF a >= b THEN a - b ELSE a - b + Modulus
Add(a, b) == IF a + b >= Modulus THEN a + b - Modulus ELSE a + b

\* Mutant: the index without the `- 1'.
BackOffByOne(d) == LET p == Sub(pos, d)
                   IN  IF p >= WinSize THEN Add(p, WinSize) ELSE p

\* The slot of the byte `d' + 1 positions back: getByte, and copyBlock's start.
Back(d) == LET p == Sub(Sub(pos, d), 1)
           IN  IF p >= WinSize THEN Add(p, WinSize) ELSE p

Init == /\ buf = [i \in Slot |-> ZeroByte]
        /\ pos = 0 /\ streamPos = 0
        /\ from = 0 /\ distance = 0 /\ length = 0
        /\ sink = << >> /\ history = << >>
        /\ phase = "run"

\* The bytes that flush hands to Write when the buffer is b and pos is p.
Chunk(b, p) == [i \in 1..(p - streamPos) |-> b[streamPos + i - 1]]

\* Mutant: a full window is written out but pos does not return to 0.
FlushWithoutReset(b, p, next) ==
  \/ p = streamPos /\ pos' = p /\ phase' = next /\ UNCHANGED <<streamPos, sink>>
  \/ /\ p # streamPos
     /\ sink' = sink \o Chunk(b, p)
     /\ pos' = p /\ streamPos' = p /\ phase' = next

\* flush, entered with buffer b and position p. A Write that fails or writes
\* less than it was given throws, and nothing after it happens.
Flush(b, p, next) ==
  \/ /\ p = streamPos
     /\ pos' = p /\ phase' = next
     /\ UNCHANGED <<streamPos, sink>>
  \/ /\ p # streamPos
     /\ sink' = sink \o Chunk(b, p)
     /\ pos' = IF p >= WinSize THEN 0 ELSE p
     /\ streamPos' = pos'
     /\ phase' = next
  \/ /\ p # streamPos
     /\ \E n \in 0..(p - streamPos) : sink' = sink \o SubSeq(Chunk(b, p), 1, n)
     /\ pos' = p /\ phase' = "thrown"
     /\ UNCHANGED streamPos

\* Mutant: the window is written out before the byte is stored.
StoreAfterFlush(b) ==
  /\ buf' = [buf EXCEPT ![pos] = b]
  /\ history' = Append(history, b)
  /\ IF pos + 1 >= WinSize
     THEN Flush(buf, pos + 1, "run")
     ELSE pos' = pos + 1 /\ UNCHANGED <<streamPos, sink, phase>>

\* buf[pos] = b; pos++; flush when the window is full.
Store(b) ==
  /\ buf' = [buf EXCEPT ![pos] = b]
  /\ history' = Append(history, b)
  /\ IF pos + 1 >= WinSize
     THEN Flush(buf', pos + 1, "run")
     ELSE pos' = pos + 1 /\ UNCHANGED <<streamPos, sink, phase>>

PutByte(b) ==
  /\ phase = "run" /\ length = 0 /\ Len(history) < MaxOut
  /\ Store(b)
  /\ UNCHANGED <<from, distance, length>>

\* Mutant: the distance is not compared with the bytes decoded.
CopyBlockUnchecked(d, n) ==
  /\ phase = "run" /\ length = 0 /\ Len(history) + n <= MaxOut
  /\ d < DictSize
  /\ from' = Back(d)
  /\ distance' = d /\ length' = n
  /\ UNCHANGED <<buf, pos, streamPos, sink, phase, history>>

\* doDecode refuses a distance that is not below nowPos and dictSizeCheck.
CopyBlock(d, n) ==
  /\ phase = "run" /\ length = 0 /\ Len(history) + n <= MaxOut
  /\ d < Len(history) /\ d < DictSize
  /\ from' = Back(d)
  /\ distance' = d /\ length' = n
  /\ UNCHANGED <<buf, pos, streamPos, sink, phase, history>>

CopyByte ==
  /\ phase = "run" /\ length > 0
  /\ LET src == IF from >= WinSize THEN 0 ELSE from
     IN  Store(buf[src]) /\ from' = src + 1
  /\ length' = length - 1
  /\ UNCHANGED distance

\* The flush at the end of doDecode.
Finish ==
  /\ phase = "run" /\ length = 0
  /\ Flush(buf, pos, "done")
  /\ UNCHANGED <<buf, from, distance, length, history>>

Next == \/ \E b \in Byte : PutByte(b)
        \/ \E d \in 0..(DictSize - 1), n \in 2..MaxLen : CopyBlock(d, n)
        \/ CopyByte
        \/ Finish

Spec == Init /\ [][Next]_vars
-----------------------------------------------------------------------------
TypeOK == /\ buf \in [Slot -> Byte]
          /\ pos \in 0..WinSize /\ streamPos \in Slot
          /\ from \in 0..WinSize
          /\ distance \in 0..(DictSize - 1) /\ length \in Nat
          /\ sink \in Seq(Byte) /\ history \in Seq(Byte)
          /\ phase \in {"run", "done", "thrown"}

\* A distance that doDecode accepts reaches, through the wrapped index that
\* getByte and copyBlock compute, exactly the byte decoded distance + 1 ago,
\* whatever part of the stream has already left the window.
WindowHoldsHistory ==
  phase # "thrown" =>
    \A d \in 0..(WinSize - 1) :
      d < Len(history) => /\ Back(d) \in Slot
                          /\ buf[Back(d)] = history[Len(history) - d]

\* The writer has received every byte decoded before the first one that is
\* still in the window unwritten, once each and in order; while no write has
\* failed, the rest is what lies between streamPos and pos, and when decoding
\* ends without an error there is no rest.
NothingLostOrRepeated ==
  /\ Len(sink) <= Len(history)
  /\ \A i \in 1..Len(sink) : sink[i] = history[i]
  /\ phase # "thrown" => history = sink \o Chunk(buf, pos)
  /\ phase = "done" => sink = history

\* The window implements the unbounded history.
LZ == INSTANCE LzHistory
RefinesHistory == LZ!Spec
=============================================================================
