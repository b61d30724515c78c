----------------------------- MODULE RangeCoder -----------------------------
(***************************************************************************)
(* rangeDecoder (range_coder.go) reading, byte by byte as they are written,*)
(* what a rangeEncoder writes. The two sides agree on the context of each  *)
(* bit because each computes it from the bits before.                      *)
(***************************************************************************)
EXTENDS RangeEncoder

VARIABLES code,    \* code
          drange,  \* the decoder's rrange
          dprobs,  \* the decoder's probabilities
          taken,   \* bytes read; newRangeDecoder reads the first NumBytes + 1
          got      \* the bits decoded

decVars == <<code, drange, dprobs, taken, got>>
vars == <<encVars, decVars>>

Start == NumBytes + 1

\* A sequence of bytes as a number, most significant first.
Value(s) == LET v[i \in 0..Len(s)] == IF i = 0 THEN 0 ELSE v[i - 1] * Base + s[i]
            IN  v[Len(s)]

\* All bytes of a word, full, make the greatest word: 0xFFFFFFFF.
ASSUME WordAssumption == Value([i \in 1..NumBytes |-> Base - 1]) = Word - 1

DecInit == /\ code = 0 /\ drange = Word - 1
           /\ dprobs = [c \in Ctx |-> ModelTotal \div 2]
           /\ taken = 0 /\ got = << >>

\* newRangeDecoder: io.ReadFull of five bytes into a uint32.
ReadStart ==
  /\ taken = 0 /\ Len(out) >= Start
  /\ code' = Value(SubSeq(out, 1, Start)) % Word
  /\ taken' = Start
  /\ UNCHANGED <<drange, dprobs, got>>

\* Mutant: the range is compared before it is narrowed.
FollowLate(v, r) ==
  \/ /\ drange < Top /\ taken < Len(out)
     /\ code' = (v * Base + out[taken + 1]) % Word
     /\ drange' = (r * Base) % Word
     /\ taken' = taken + 1
  \/ /\ drange >= Top
     /\ code' = v /\ drange' = r
     /\ UNCHANGED taken

\* The rest of the code is v and of the range r; a byte is read if r has
\* become too small.
Follow(v, r) ==
  \/ /\ r < Top /\ taken < Len(out)
     /\ code' = (v * Base + out[taken + 1]) % Word
     /\ drange' = (r * Base) % Word
     /\ taken' = taken + 1
  \/ /\ r >= Top
     /\ code' = v /\ drange' = r
     /\ UNCHANGED taken

\* Mutant: the probability moves only when the bit is 0.
DecodeBitHalfAdapted(c) ==
  /\ taken > 0 /\ Len(got) < Len(sent) /\ sent[Len(got) + 1].ctx = c
  /\ LET b   == Bound(drange, dprobs[c])
         bit == IF code < b THEN 0 ELSE 1
     IN  /\ IF bit = 0 THEN Follow(code, b) ELSE Follow(code - b, drange - b)
         /\ dprobs' = [dprobs EXCEPT ![c] = IF bit = 0 THEN Moved(@, 0) ELSE @]
         /\ got' = Append(got, bit)

DecodeBit(c) ==
  /\ taken > 0 /\ Len(got) < Len(sent) /\ sent[Len(got) + 1].ctx = c
  /\ LET b   == Bound(drange, dprobs[c])
         bit == IF code < b THEN 0 ELSE 1
     IN  /\ IF bit = 0 THEN Follow(code, b) ELSE Follow(code - b, drange - b)
         /\ dprobs' = [dprobs EXCEPT ![c] = Moved(@, bit)]
         /\ got' = Append(got, bit)

\* One bit of decodeDirectBits: the sign of code - rrange is the top bit of the
\* wrapped difference.
DecodeDirect ==
  /\ taken > 0 /\ Len(got) < Len(sent) /\ sent[Len(got) + 1].ctx = Direct
  /\ LET r == drange \div 2
         t == ((code - r) % Word) \div (Word \div 2)
     IN  /\ Follow((code - r * (1 - t)) % Word, r)
         /\ got' = Append(got, 1 - t)
  /\ UNCHANGED dprobs

Decode == ReadStart \/ (\E c \in Ctx : DecodeBit(c)) \/ DecodeDirect

Init == EncInit /\ DecInit
Next == \/ EncNext /\ UNCHANGED decVars
        \/ Decode /\ UNCHANGED encVars

\* flush is a loop that runs to its end; the decoder's goroutine runs while
\* there are bytes for it.
Spec == /\ Init /\ [][Next]_vars
        /\ WF_vars(FlushByte /\ UNCHANGED decVars)
        /\ WF_vars(Decode /\ UNCHANGED encVars)
-----------------------------------------------------------------------------
\* What has been written, what waits in cache and low together are the exact
\* low: no carry is lost, however many 0xFF bytes it has to cross.
CarryExact ==
  exact = (Value(out \o <<cache>> \o [i \in 1..(cacheSize - 1) |-> Base - 1]) * Word)
          + low

\* The decoder returns the bits that were encoded, in order, and after the same
\* number of bits has the encoder's range and probabilities.
DecodesWhatWasSent ==
  /\ Len(got) <= Len(sent)
  /\ \A i \in 1..Len(got) : got[i] = sent[i].bit
  /\ Len(got) = Len(sent) => drange = rrange /\ dprobs = probs

\* The code stays inside the interval: decodeBit never meets a bit that is
\* neither, and the sign bit that decodeDirectBits takes of code - rrange is
\* the comparison it stands for.
CodeInRange == taken > 0 => code < drange

\* flush writes exactly the bytes that the decoder needs: it is never left
\* waiting for one that the encoder kept back, and none is left behind for
\* whatever follows in the stream.
ReadsExactlyFlushed ==
  ended ~> (/\ left = 0 /\ taken = Len(out)
            /\ got = [i \in DOMAIN sent |-> sent[i].bit])
=============================================================================
