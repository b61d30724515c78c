---------------------------- MODULE RangeEncoder ----------------------------
(***************************************************************************)
(* rangeEncoder (range_coder.go): the arithmetic coder behind Writer.      *)
(*                                                                         *)
(* The encoder narrows an interval [low, low + rrange) for each bit and    *)
(* writes out the leading bytes of low as they become certain. A byte may  *)
(* still be changed by a carry out of low: the last one waits in cache,    *)
(* followed by cacheSize - 1 bytes 0xFF, which a carry turns into 0x00.    *)
(*                                                                         *)
(* The widths are constants: a byte is a number below Base (256 in the     *)
(* code), a uint32 one below Base * Top (Top is kTopValue, 2^24). A write  *)
(* that fails is not modelled here: it throws out of the whole encoder     *)
(* (WriterSession).                                                        *)
(***************************************************************************)
EXTENDS Integers, Sequences

CONSTANTS Base,        \* 2^8: values of a byte
          NumBytes,    \* 4: bytes in a uint32
          Top,         \* kTopValue
          ModelTotal,  \* kBitModelTotal
          MoveDiv,     \* 2^kNumMoveBits
          Ctx,         \* the adaptive probabilities that bits are coded with
          Direct,      \* stands for no probability: encodeDirectBits
          MaxBits      \* bound: bits encoded in one behaviour

Word == Base * Top     \* 2^32

\* The last conjunct is why one `if' normalises where a loop could be needed:
\* 2^13 * 31 * 2^8 >= 2^24.
ASSUME RangeAssumption ==
  /\ Base \in Nat /\ Base >= 2
  /\ NumBytes \in Nat /\ Top \in Nat /\ Top % 2 = 0
  /\ MoveDiv \in Nat /\ MoveDiv >= 2
  /\ ModelTotal \in Nat /\ ModelTotal >= 2 * MoveDiv - 2
  /\ ModelTotal <= Top
  /\ (Top \div ModelTotal) * (MoveDiv - 1) * Base >= Top
  /\ Direct \notin Ctx
  /\ MaxBits \in Nat

VARIABLES low,        \* low: uint64, below 2 * Word
          rrange,     \* rrange
          cache,      \* cache: the last byte that a carry can still reach
          cacheSize,  \* cacheSize: that byte and the 0xFF bytes after it
          probs,      \* the probabilities, by context
          out,        \* the bytes given to w.WriteByte
          left,       \* shiftLow calls flush still makes; 0 before and after
          ended,      \* flush has been called
          sent,       \* every bit encoded, with its context
          exact       \* low as it would be without carries and bytes: the sum
                      \* of every bound added to it, times Base at each shift

encVars == <<low, rrange, cache, cacheSize, probs, out, left, ended, sent, exact>>

ByteVal == 0..(Base - 1)
MinProb == MoveDiv - 1
MaxProb == ModelTotal - MoveDiv + 1

\* How a bit moves the probability (of a 0) it was coded with.
Moved(p, bit) == IF bit = 0 THEN p + (ModelTotal - p) \div MoveDiv
                            ELSE p - p \div MoveDiv

Bound(r, p) == (r \div ModelTotal) * p

EncInit == /\ low = 0 /\ rrange = Word - 1
           /\ cache = 0 /\ cacheSize = 1
           /\ probs = [c \in Ctx |-> ModelTotal \div 2]
           /\ out = << >> /\ sent = << >>
           /\ left = 0 /\ ended = FALSE
           /\ exact = 0

\* What shiftLow writes when the carry out of low is `hi': byte(temp + lowHi).
Settled(hi) == <<(cache + hi) % Base>> \o
               [i \in 1..(cacheSize - 1) |-> (Base - 1 + hi) % Base]

\* Mutant: shiftLow keeps no byte back.
ShiftLowEager(lo) ==
  /\ out' = out \o Settled(lo \div Word)
  /\ cache' = (lo % Word) \div Top
  /\ cacheSize' = 1
  /\ low' = ((lo % Word) * Base) % Word

\* Mutant: shiftLow without the carry.
ShiftLowNoCarry(lo) ==
  /\ \/ /\ lo >= Word \/ lo < (Base - 1) * Top
        /\ out' = out \o Settled(0)
        /\ cache' = (lo % Word) \div Top
        /\ cacheSize' = 1
     \/ /\ lo < Word /\ lo >= (Base - 1) * Top
        /\ cacheSize' = cacheSize + 1
        /\ UNCHANGED <<out, cache>>
  /\ low' = ((lo % Word) * Base) % Word

\* shiftLow entered with low = lo.
ShiftLow(lo) ==
  /\ \/ /\ lo >= Word \/ lo < (Base - 1) * Top
        /\ out' = out \o Settled(lo \div Word)
        /\ cache' = (lo % Word) \div Top
        /\ cacheSize' = 1
     \/ /\ lo < Word /\ lo >= (Base - 1) * Top
        /\ cacheSize' = cacheSize + 1
        /\ UNCHANGED <<out, cache>>
  /\ low' = ((lo % Word) * Base) % Word

\* Mutant: the range is compared before it is narrowed.
NarrowLate(lo, r) ==
  \/ /\ rrange < Top
     /\ rrange' = (r * Base) % Word
     /\ ShiftLow(lo)
     /\ exact' = (exact + lo - low) * Base
  \/ /\ rrange >= Top
     /\ rrange' = r /\ low' = lo
     /\ exact' = exact + lo - low
     /\ UNCHANGED <<cache, cacheSize, out>>

\* The interval becomes [lo, lo + r); one shift if r has become too small.
Narrow(lo, r) ==
  \/ /\ r < Top
     /\ rrange' = (r * Base) % Word
     /\ ShiftLow(lo)
     /\ exact' = (exact + lo - low) * Base
  \/ /\ r >= Top
     /\ rrange' = r /\ low' = lo
     /\ exact' = exact + lo - low
     /\ UNCHANGED <<cache, cacheSize, out>>

Encode(c, bit) ==
  /\ ~ended /\ Len(sent) < MaxBits
  /\ LET b == Bound(rrange, probs[c])
     IN  IF bit = 0 THEN Narrow(low, b) ELSE Narrow(low + b, rrange - b)
  /\ probs' = [probs EXCEPT ![c] = Moved(@, bit)]
  /\ sent' = Append(sent, [ctx |-> c, bit |-> bit])
  /\ UNCHANGED <<left, ended>>

\* One bit of encodeDirectBits.
EncodeDirect(bit) ==
  /\ ~ended /\ Len(sent) < MaxBits
  /\ LET r == rrange \div 2
     IN  Narrow(low + bit * r, r)
  /\ sent' = Append(sent, [ctx |-> Direct, bit |-> bit])
  /\ UNCHANGED <<probs, left, ended>>

\* Mutant: flush shifts once too often.
StartFlushLong ==
  /\ ~ended
  /\ ended' = TRUE /\ left' = NumBytes + 2
  /\ UNCHANGED <<low, rrange, cache, cacheSize, probs, out, sent, exact>>

\* flush: shiftLow, once more than a uint32 has bytes.
StartFlush ==
  /\ ~ended
  /\ ended' = TRUE /\ left' = NumBytes + 1
  /\ UNCHANGED <<low, rrange, cache, cacheSize, probs, out, sent, exact>>

FlushByte ==
  /\ left > 0
  /\ ShiftLow(low)
  /\ left' = left - 1 /\ exact' = exact * Base
  /\ UNCHANGED <<rrange, probs, ended, sent>>

EncNext == \/ \E c \in Ctx, bit \in {0, 1} : Encode(c, bit)
           \/ \E bit \in {0, 1} : EncodeDirect(bit)
           \/ StartFlush
           \/ FlushByte

EncSpec == EncInit /\ [][EncNext]_encVars
-----------------------------------------------------------------------------
TypeOK == /\ low \in 0..(2 * Word - 1) /\ rrange \in 0..(Word - 1)
          /\ cache \in ByteVal /\ cacheSize \in Nat \ {0}
          /\ probs \in [Ctx -> MinProb..MaxProb]
          /\ out \in Seq(ByteVal)
          /\ left \in 0..(NumBytes + 1) /\ ended \in BOOLEAN
          /\ sent \in Seq([ctx : Ctx \cup {Direct}, bit : {0, 1}])
          /\ exact \in Nat

\* One conditional shift per bit keeps the range at kTopValue or more, so that
\* no bound is ever 0 and no bit is coded with an empty interval.
Normalised == rrange >= Top

\* A carry reaches cache at most once: when cache is 0xFF (after a carry it
\* can be) the interval does not reach 2^32, and byte(temp + lowHi) drops
\* nothing.
NoSecondCarry == cache = Base - 1 => /\ low < Word
                                     /\ ~ended => low + rrange <= Word
=============================================================================
