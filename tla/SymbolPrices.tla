---------------------------- MODULE SymbolPrices ----------------------------
(***************************************************************************)
(* What the optimal parser believes a symbol costs: the price functions of *)
(* lzma_lit_coder.go, lzma_len_coder.go and range_bit_tree_coder.go, and   *)
(* the tables of lzma_encoder.go that distances are priced from.           *)
(*                                                                         *)
(* A price is a sum with one term for each bit. Here it is the sequence of *)
(* its terms: the probability each is looked up for, and the bit; a direct *)
(* bit costs the same whatever it is. The tables' ages are left out: all   *)
(* prices are taken from the same probabilities.                           *)
(***************************************************************************)
EXTENDS SymbolCoding

CONSTANTS TableSize,      \* cl.fastBytes + 1 - kMatchMinLen: lengths with a price
          DictLog         \* cl.dictSize: the logarithm of the dictionary's size

\* getPosSlot2 leaves out that many bits of the smallest distances.
Low2 == 6

ASSUME PriceAssumption == /\ TableSize \in Nat /\ TableSize >= TwoTo(LowBits) + TwoTo(MidBits)
                          /\ DictLog \in Nat /\ 2 * DictLog >= EndPosModel
                          /\ FullDistances >= TwoTo(Low2 + 1)

\* rangeBitTreeCoder.getPrice: a 1 and the bits before a bit say where it is.
TreePrice(array, levels, v) ==
  [j \in 1..levels |-> Coded(array, TwoTo(j - 1) + Shr(v, levels - j + 1),
                             BitOf(v, levels - j))]

\* reverseGetPriceIndex, and reverseGetPrice (start 0): the lowest bit is taken
\* off the symbol again and again.
ReversePrice(array, start, n, v) ==
  Symbols(array, start, [j \in 1..n |-> Shr(v, j - 1) % 2])

DirectPrice(n) == [j \in 1..n |-> Coded("direct", 0, 0)]

\* litSubCoder.getPrice: a loop up to the first bit in which the literal and
\* the match byte differ, and a second one for the bits after it.
LiteralPrice(v, match) ==
  LET context(j) == TwoTo(j - 1) + Shr(v, LitBits - j + 1)
      bit(j)  == BitOf(v, LitBits - j)
      m2(j)   == BitOf(match, LitBits - j)
      differs == {j \in 1..LitBits : m2(j) # bit(j)}
      first   == IF match = None THEN 0
                 ELSE CHOOSE n \in 1..LitBits :
                        /\ n \in differs \/ n = LitBits
                        /\ \A j \in 1..(n - 1) : j \notin differs
  IN  [j \in 1..first |-> Coded("literal", (1 + m2(j)) * TwoTo(LitBits) + context(j), bit(j))]
      \o [j \in 1..(LitBits - first) |->
            Coded("literal", context(first + j), bit(first + j))]

\* lenCoder.setPrices, the table that lenPriceTableCoder.getPrice reads.
LengthPrices ==
  LET a0 == <<Coded("choice", 0, 0)>>
      a1 == <<Coded("choice", 0, 1)>>
      b0 == a1 \o <<Coded("choice", 1, 0)>>
      b1 == a1 \o <<Coded("choice", 1, 1)>>
      spec == TwoTo(LowBits) + TwoTo(MidBits)
  IN  [v \in 0..(TableSize - 1) |->
         CASE v < TwoTo(LowBits) -> a0 \o TreePrice("low", LowBits, v)
           [] v >= TwoTo(LowBits) /\ v < spec -> b0 \o TreePrice("mid", MidBits, v - TwoTo(LowBits))
           [] OTHER -> b1 \o TreePrice("high", HighBits, v - spec)]

\* fillDistancesPrices: what follows the slot, of a distance below FullDistances.
TempPrices ==
  [i \in StartPosModel..(FullDistances - 1) |->
     LET slot == PosSlot(i)
     IN  ReversePrice("pos", Base(slot) - slot - 1, FooterBits(slot), i - Base(slot))]

\* fillDistancesPrices: slots, with the direct bits behind the large ones. There
\* are 2 * DictLog slots in use.
SlotPrices ==
  [slot \in 0..(2 * DictLog - 1) |->
     TreePrice("slot", SlotBits, slot)
     \o IF slot < EndPosModel THEN << >> ELSE DirectPrice(FooterBits(slot) - AlignBits)]

\* fillDistancesPrices: all of a distance below FullDistances.
DistancesPrices ==
  [i \in 0..(FullDistances - 1) |->
     IF i < StartPosModel THEN SlotPrices[i] ELSE SlotPrices[PosSlot(i)] \o TempPrices[i]]

\* Mutant: the bits of the alignment are priced from the highest on.
AlignPricesForward == [i \in 0..(TwoTo(AlignBits) - 1) |-> TreePrice("align", AlignBits, i)]

\* fillAlignPrices.
AlignPrices == [i \in 0..(TwoTo(AlignBits) - 1) |-> ReversePrice("align", 0, AlignBits, i)]

\* getPosSlot2, for distances from FullDistances on: FastPos by other leading
\* bits than in PosSlot.
PosSlot2(pos) ==
  CASE pos < TwoTo(Low2 + FastBits) -> SlotOf(pos, Low2)
    [] TwoTo(Low2 + FastBits) <= pos /\ pos < TwoTo(Low2 + 2 * FastBits - 1) ->
         SlotOf(pos, Low2 + FastBits - 1)
    [] OTHER -> SlotOf(pos, Low2 + 2 * (FastBits - 1))

\* getPosLenPrice: the distance.
DistancePrice(pos) ==
  IF pos < FullDistances THEN DistancesPrices[pos]
  ELSE SlotPrices[PosSlot2(pos)] \o AlignPrices[pos % TwoTo(AlignBits)]

\* The symbols that the parser asks a price for.
HasPrice == CASE job.kind = "literal" -> TRUE
              [] job.kind = "length" -> job.sym < TableSize
              [] OTHER -> job.sym # Marker /\ job.sym < TwoTo(DictLog)

Price == CASE job.kind = "literal" -> LiteralPrice(job.sym, job.match)
           [] job.kind = "length" -> LengthPrices[job.sym]
           [] OTHER -> DistancePrice(job.sym)

\* What is paid for is what is sent: the price of a symbol has one term for each
\* bit that its coder emits, for the probability it is emitted with. (A table
\* read beyond what was filled would cost nothing: the parser would prefer it.)
PricesWhatIsSent ==
  stage = "coded" /\ HasPrice =>
    Price = [j \in 1..Len(tape) |->
               IF tape[j].array = "direct" THEN [tape[j] EXCEPT !.bit = 0] ELSE tape[j]]
=============================================================================
