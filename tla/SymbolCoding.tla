---------------------------- MODULE SymbolCoding ----------------------------
(***************************************************************************)
(* From the symbols of a packet (PacketCodec) to the bits of the range     *)
(* coder (RangeCoder): the literal, length and distance coders and the bit *)
(* trees under them (lzma_lit_coder.go, lzma_len_coder.go,                 *)
(* range_bit_tree_coder.go, and the slots of lzma_encoder.go).             *)
(*                                                                         *)
(* A symbol becomes a tape of bits, each with the probability it is coded  *)
(* with: an array and an index. The decoder reads the tape back, knowing   *)
(* only the bits; before each one it says which probability it expects.    *)
(***************************************************************************)
EXTENDS Integers, Sequences

CONSTANTS LitBits,          \* 8: bits of a literal
          LowBits, MidBits, HighBits,  \* kNumLowLenBits, kNumMidLenBits, kNumHighLenBits
          StartPosModel,    \* kStartPosModelIndex
          EndPosModel,      \* kEndPosModelIndex
          AlignBits,        \* kNumAlignBits
          SlotBits,         \* kNumPosSlotBits
          FullDistances,    \* kNumFullDistances
          FastSlots,        \* kFastSlots
          FastBits,         \* 11: gFastPos has 1 << 11 entries
          Literals, MatchBytes, Lengths, Distances  \* what is coded, by kind

VARIABLES job,    \* the symbol, and what it is
          tape,   \* its bits
          reader, \* the decoder: the rest of the tape, whether each probability
                  \* was the one expected, and the symbol
          stage   \* "new", "coded" or "decoded"

symbolVars == <<job, tape, reader, stage>>

None == -1
Marker == -1

\* What there is at first and after each of n steps; F[i] is the i-th.
Steps(first, F, n) ==
  LET q[i \in 0..n] == IF i = 0 THEN first ELSE F[i][q[i - 1]]
  IN  q

\* 1 << n and v >> n, a place at a time, and (v >> i) & 1.
TwoTo(n)    == Steps(1, [i \in 1..n |-> [x \in Nat |-> 2 * x]], n)[n]
Shr(v, n)   == Steps(v, [i \in 1..n |-> [x \in Nat |-> x \div 2]], n)[n]
BitOf(v, i) == Shr(v, i) % 2

\* The marker's distance, 0xFFFFFFFF, is the last one of the last slot.
LastSlot == TwoTo(SlotBits) - 1
FooterBits(slot) == (slot \div 2) - 1
Base(slot) == (2 + (slot % 2)) * TwoTo(FooterBits(slot))

\* Every distance has a slot in gFastPos, and none is in the marker's; the
\* probabilities of posCoders are those of the slots from StartPosModel on.
ASSUME SymbolAssumption ==
  /\ {LitBits, LowBits, MidBits, HighBits, AlignBits, SlotBits, FastBits} \subseteq Nat \ {0}
  /\ StartPosModel = 4 /\ EndPosModel \in StartPosModel..LastSlot
  /\ EndPosModel >= 2 * AlignBits + 2 /\ FullDistances = Base(EndPosModel)
  /\ FastSlots = 2 * FastBits /\ FastSlots - 1 + 2 * (2 * FastBits - 2) < LastSlot
  /\ Literals \cup MatchBytes \subseteq 0..(TwoTo(LitBits) - 1)
  /\ Lengths \subseteq 0..(TwoTo(LowBits) + TwoTo(MidBits) + TwoTo(HighBits) - 1)
  /\ Distances \subseteq Nat
  /\ \A d \in Distances : Shr(d, 2 * FastBits - 2) < TwoTo(FastBits)

Coded(array, index, bit) == [array |-> array, index |-> index, bit |-> bit]

\* n bits of v, most significant first, or least.
High(v, n) == [j \in 1..n |-> BitOf(v, n - j)]
Low(v, n)  == [j \in 1..n |-> BitOf(v, j - 1)]

\* m = m<<1 | bit, again and again.
Pushed(first, bits) ==
  Steps(first, [j \in 1..Len(bits) |-> [m \in Nat |-> 2 * m + bits[j]]], Len(bits))
-----------------------------------------------------------------------------
(* Encoders: each gives the tape of a symbol. *)

\* Each bit is coded at start + m, where m is a 1 followed by the bits before it.
Symbols(array, start, bits) ==
  LET m == Pushed(1, bits)
  IN  [j \in 1..Len(bits) |-> Coded(array, start + m[j - 1], bits[j])]

\* rangeBitTreeCoder.encode, reverseEncodeIndex (and reverseEncode, start 0)
\* and rangeEncoder.encodeDirectBits.
Tree(array, levels, v) == Symbols(array, 0, High(v, levels))
ReverseTree(array, start, n, v) == Symbols(array, start, Low(v, n))
DirectBits(n, v) == [j \in 1..n |-> Coded("direct", 0, BitOf(v, n - j))]

Literal(v) == Tree("literal", LitBits, v)

\* The matched literal's tape: its next match bit selects among two further
\* trees where same holds.
MatchedBits(v, match, same) ==
  LET bits == High(v, LitBits)
      m    == Pushed(1, bits)
  IN  [j \in 1..LitBits |->
         Coded("literal",
               m[j - 1] + IF same[j - 1] THEN (1 + BitOf(match, LitBits - j)) * TwoTo(LitBits)
                                         ELSE 0,
               bits[j])]

\* Mutant: the match byte is still followed after the first difference.
MatchedLiteralAlways(v, match) == MatchedBits(v, match, [j \in 0..LitBits |-> TRUE])

\* litSubCoder.encodeMatched: same holds as long as the bits are those of the
\* match byte.
MatchedLiteral(v, match) ==
  MatchedBits(v, match,
    Steps(TRUE, [j \in 1..LitBits |->
                   [same \in BOOLEAN |->
                      same /\ BitOf(match, LitBits - j) = BitOf(v, LitBits - j)]], LitBits))

\* lenCoder.encode.
Length(v) ==
  LET low == TwoTo(LowBits)
      mid == TwoTo(MidBits)
  IN  CASE v < low -> <<Coded("choice", 0, 0)>> \o Tree("low", LowBits, v)
        [] v >= low /\ v - low < mid ->
             <<Coded("choice", 0, 1), Coded("choice", 1, 0)>> \o Tree("mid", MidBits, v - low)
        [] OTHER -> <<Coded("choice", 0, 1), Coded("choice", 1, 1)>>
                    \o Tree("high", HighBits, v - low - mid)

\* initGFastPos: slot s, from 2 on, fills as many entries as it has distances;
\* ends[k] is c when slot k + 1 is done.
FastPos ==
  LET ends == Steps(2, [k \in 1..(FastSlots - 2) |->
                          [c \in Nat |-> c + TwoTo(FooterBits(k + 1))]], FastSlots - 2)
  IN  [i \in 0..(TwoTo(FastBits) - 1) |->
         IF i < 2 THEN i
         ELSE 1 + CHOOSE k \in 1..(FastSlots - 2) : ends[k - 1] <= i /\ i < ends[k]]

\* A slot by the leading bits of a distance.
SlotOf(pos, n) == FastPos[Shr(pos, n)] + 2 * n

\* getPosSlot.
PosSlot(pos) ==
  CASE pos < TwoTo(FastBits) -> SlotOf(pos, 0)
    [] TwoTo(FastBits) <= pos /\ pos < TwoTo(2 * FastBits - 1) -> SlotOf(pos, FastBits - 1)
    [] OTHER -> SlotOf(pos, 2 * FastBits - 2)

\* Mutant: the first probability of a slot is one too far.
FooterStartNext(slot) == Base(slot) - slot

\* Where in posCoders the probabilities of a slot begin, less 1.
FooterStart(slot) == Base(slot) - slot - 1

\* The slot, then what lies beyond its first distance: through posCoders for
\* the small ones, else direct bits and the last AlignBits through posAlignCoder.
SlotAndFooter(slot, reduced) ==
  Tree("slot", SlotBits, slot) \o
  CASE slot < StartPosModel -> << >>
    [] slot >= StartPosModel /\ slot < EndPosModel ->
         ReverseTree("pos", FooterStart(slot), FooterBits(slot), reduced)
    [] OTHER -> DirectBits(FooterBits(slot) - AlignBits, Shr(reduced, AlignBits))
                \o ReverseTree("align", 0, AlignBits, reduced % TwoTo(AlignBits))

Distance(pos) ==
  IF pos = Marker THEN SlotAndFooter(LastSlot, TwoTo(FooterBits(LastSlot)) - 1)
  ELSE LET slot == PosSlot(pos)
       IN  SlotAndFooter(slot, IF slot < StartPosModel THEN 0 ELSE pos - Base(slot))
-----------------------------------------------------------------------------
(* Decoders: each takes a reader and gives it back with the symbol in val. *)

\* decodeBit, n times: the bits on the tape, and the reader after them. index
\* is where it asks for them: ok says whether those are the ones on the tape.
NextBits(r, n) == [j \in 1..n |-> IF j <= Len(r.tape) THEN r.tape[j].bit ELSE 0]
Took(r, n, array, index) ==
  [r EXCEPT !.tape = SubSeq(@, n + 1, Len(@)),
            !.ok = /\ @ /\ n <= Len(r.tape)
                   /\ \A j \in 1..n : r.tape[j].array = array /\ r.tape[j].index = index[j]]

\* Each asked for at start + m, where m is a 1 followed by those before it.
Asked(r, n, array, start) ==
  LET m == Pushed(1, NextBits(r, n))
  IN  Took(r, n, array, [j \in 1..n |-> start + m[j - 1]])

\* rangeBitTreeCoder.decode, reverseDecodeIndex, decodeDirectBits.
ReadTree(r, array, levels) ==
  [Asked(r, levels, array, 0) EXCEPT
     !.val = Pushed(1, NextBits(r, levels))[levels] - TwoTo(levels)]
ReadReverse(r, array, start, n) ==
  LET bits == NextBits(r, n)
      res  == Steps(0, [j \in 1..n |-> [v \in Nat |-> v + (bits[j] * TwoTo(j - 1))]], n)
  IN  [Asked(r, n, array, start) EXCEPT !.val = res[n]]
ReadDirect(r, n) ==
  [Took(r, n, "direct", [j \in 1..n |-> 0]) EXCEPT !.val = Pushed(0, NextBits(r, n))[n]]

\* litSubCoder.decodeWithMatchByte: a loop up to the first difference and one
\* after it; decodeNormal is ReadTree.
ReadMatched(r, match) ==
  LET bits == NextBits(r, LitBits)
      m2   == High(match, LitBits)
      m    == Pushed(1, bits)
  IN  [Took(r, LitBits, "literal",
            [j \in 1..LitBits |->
               IF \E k \in 1..(j - 1) : m2[k] # bits[k] THEN m[j - 1]
               ELSE (1 + m2[j]) * TwoTo(LitBits) + m[j - 1]])
         EXCEPT !.val = m[LitBits] % TwoTo(LitBits)]

\* lenCoder.decode.
ReadLength(r) ==
  LET r1 == Took(r, 1, "choice", <<0>>)
      r2 == Took(r1, 1, "choice", <<1>>)
  IN  CASE NextBits(r, 1) = <<0>> -> ReadTree(r1, "low", LowBits)
        [] NextBits(r, 1) # <<0>> /\ NextBits(r1, 1) = <<0>> ->
             [ReadTree(r2, "mid", MidBits) EXCEPT !.val = TwoTo(LowBits) + @]
        [] OTHER -> [ReadTree(r2, "high", HighBits) EXCEPT
                       !.val = TwoTo(LowBits) + TwoTo(MidBits) + @]

\* doDecode's distance. The marker is recognised by its value, 2^32 - 1, the
\* only one with the last slot and all the bits behind it set.
ReadDistance(r) ==
  LET s == ReadTree(r, "slot", SlotBits)
      slot == s.val
      f == ReadReverse(s, "pos", Base(slot) - slot - 1, FooterBits(slot))
      d == ReadDirect(s, FooterBits(slot) - AlignBits)
      a == ReadReverse(d, "align", 0, AlignBits)
      reduced == d.val * TwoTo(AlignBits) + a.val
  IN  CASE slot < StartPosModel -> s
        [] slot >= StartPosModel /\ slot < EndPosModel -> [f EXCEPT !.val = Base(slot) + @]
        [] OTHER -> [a EXCEPT !.val =
                       IF slot = LastSlot /\ reduced = TwoTo(FooterBits(slot)) - 1 THEN Marker
                       ELSE Base(slot) + reduced]
-----------------------------------------------------------------------------
Jobs == [kind : {"literal"}, sym : Literals, match : MatchBytes \cup {None}]
        \cup [kind : {"length"}, sym : Lengths]
        \cup [kind : {"distance"}, sym : Distances \cup {Marker}]

Encode ==
  /\ stage = "new" /\ stage' = "coded"
  /\ \/ /\ job.kind = "literal" /\ job.match = None
        /\ tape' = Literal(job.sym)
     \/ /\ job.kind = "literal" /\ job.match # None
        /\ tape' = MatchedLiteral(job.sym, job.match)
     \/ /\ job.kind = "length" /\ tape' = Length(job.sym)
     \/ /\ job.kind = "distance" /\ tape' = Distance(job.sym)
  /\ reader' = [reader EXCEPT !.tape = tape']
  /\ UNCHANGED job

Decode ==
  /\ stage = "coded" /\ stage' = "decoded"
  /\ \/ /\ job.kind = "literal" /\ job.match = None
        /\ reader' = ReadTree(reader, "literal", LitBits)
     \/ /\ job.kind = "literal" /\ job.match # None
        /\ reader' = ReadMatched(reader, job.match)
     \/ /\ job.kind = "length" /\ reader' = ReadLength(reader)
     \/ /\ job.kind = "distance" /\ reader' = ReadDistance(reader)
  /\ UNCHANGED <<job, tape>>

SymbolNext == Encode \/ Decode
-----------------------------------------------------------------------------
\* The lengths of the arrays of probabilities.
Size == [literal |-> 3 * TwoTo(LitBits), choice |-> 2, low |-> TwoTo(LowBits),
         mid |-> TwoTo(MidBits), high |-> TwoTo(HighBits), slot |-> TwoTo(SlotBits),
         pos |-> FullDistances - EndPosModel, align |-> TwoTo(AlignBits), direct |-> 1]

\* No coder indexes its probabilities out of their array: in particular the
\* overlapping runs of posCoders, one for each slot, end where the array does,
\* and a matched literal stays within its three trees.
IndexInRange ==
  \A i \in 1..Len(tape) : tape[i].index \in 0..(Size[tape[i].array] - 1)

\* What is decoded is what was encoded; the decoder has asked for each bit with
\* the probability it was coded with, and read no bit less and no bit more.
RoundTrip ==
  stage = "decoded" =>
    reader.val = job.sym /\ reader.ok /\ reader.tape = << >>
=============================================================================
