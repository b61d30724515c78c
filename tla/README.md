# Verification of itchio/lzma

TLA+ models of the LZMA encoder and decoder of this repository, the TLC runs
that check them on small instances and the TLAPS proofs of what holds for every
instance. Section 1 is the inventory of the system, 2 the modules and how they
correspond to the code, 3 the runs, 4 the fairness assumed, 5 the proofs, 6 the
disagreements found, 7 what is not modelled and 8 the plan. Source lines are
those of the files under `src/`.

## 1. The system

`NewReader` and `NewWriter*` are the API: each starts a goroutine and hands the
caller one end of a pipe. The reader's goroutine pulls compressed bytes from the
caller's `io.Reader` and pushes decoded ones into the pipe; the writer's pulls
bytes from the pipe and pushes compressed ones to the caller's `io.Writer`.

```
caller -> syncPipe -> lzInWindow -> lzBinTree -> getOptimum -> codeOneBlock
                                                                    |
                                     symbol coders -> rangeEncoder -> w
r -> rangeDecoder -> symbol coders -> doDecode -> lzOutWindow -> io.Pipe -> caller
```

| Part | State it keeps | Operations | Called by | What makes it correct | What is hard |
|---|---|---|---|---|---|
| Output window, `lz_window.go:9-80` | circular `buf`, `pos`, `streamPos` | `putByte`, `copyBlock`, `getByte`, `flush` | `doDecode` | a distance reaches the byte decoded that long ago; the writer gets each byte once, in order | a copy that reads what it writes, wraps and flushes in its middle; uint32 indices; a write that fails |
| Input window, `lz_window.go:82-193` | `buf` with a sliding origin (`bufOffset`), `pos`, `streamPos`, `posLimit`, `streamEnd` | `readBlock`, `moveBlock`, `movePos`, `reduceOffsets`, `getMatchLen` | match finder, encoder | a position keeps meaning the same byte; enough bytes ahead, or the known end | sliding and renumbering under positions that others hold; a reader that returns little |
| Match finder, `lz_bin_tree.go` | hash heads and a cyclic binary tree of positions | `getMatches`, `skip`, `normalize` | `readMatchDistances`, `movePos` | each match reported is real and within the dictionary, lengths increase; none is missed by a full walk | links overwritten cyclically; hashes that collide; nodes replaced by their equals; renumbering near 2^30 |
| Optimal parser, `lzma_encoder.go:206-797` | `optimum`, `repLens`, `additionalOffset`, price tables | `getOptimum`, `backward`, `readMatchDistances` | `codeOneBlock` | the packets chosen describe the input, whatever the prices; what is priced is what is coded | a chain of choices rewritten in place; a look-ahead counted in three places |
| Packet layer, `lzma_encoder.go:836-987`, `lzma_decoder.go:218-304` | on each side: automaton state, four repeat distances, previous byte, position | `codeOneBlock`, `writeEndMarker`, `flush` / `doDecode` | the two goroutines | both sides use the same context for every symbol; output = input | two pieces of code written differently that must move in step; damaged streams |
| Symbol coders, `lzma_lit_coder.go`, `lzma_len_coder.go`, `range_bit_tree_coder.go` | arrays of probabilities | encode and decode of literals, lengths, distances | packet layer | each bit decoded with the probability it was coded with; no index out of its array | shared arrays with computed origins; match-byte literals |
| Range coder, `range_coder.go` | encoder: `low`, `rrange`, `cache`, `cacheSize`; decoder: `code`, `rrange` | `encode`, `encodeDirectBits`, `shiftLow`, `flush` / `decodeBit`, `decodeDirectBits` | symbol coders | decoded bits = encoded bits; every byte flushed is read, none is missing | carries through runs of 0xFF; 32- and 64-bit arithmetic that wraps on purpose |
| Header, `lzma_decoder.go:166-191, 306-328`, `lzma_encoder.go:84-129, 989-1034` | `props`, `dictSize`, `unpackSize` | `checkValues`, header written; `decodeProps`, header read | goroutines, once | what is read is what was asked; illegal properties are refused | signed size; off-by-one tests |
| Reader session, `lzma_decoder.go:306-363` | an `io.Pipe`, a goroutine | `Read`, `Close` | caller | no byte skipped; EOF means the end; no goroutine left over | Close during a Write; errors at every step |
| Writer session, `lzma_encoder.go:56-83, 980-1134` | a `syncPipe` (an `io.Pipe` and a channel for one token), a goroutine | `Write`, `Close` | caller | when Close returns, w has everything and is left alone; nothing hangs | two orders of pipe close and token; failure of w at any time |
| Command line, `lzma_go/main.go` | two files, two pipes, three goroutines | compress, decompress, remove the input | user | an input is removed only when its output is complete; the process ends | failures in one goroutine and the end of another; `log.Fatal` against deferred calls |
| `min`, `max`, `util.go` | none | | everywhere | | |

`PROJECT.json` lists the hazards of this code at their lines and the property
that would show each of them going wrong.

## 2. The modules

```
LzHistory <~ OutWindow                      (<~ : is implemented by)
RangeEncoder -- RangeCoder                  (-- : is extended by)
SymbolCoding -- SymbolPrices --.
                       Header -- Stream
LzParse -- PacketCodec
LzParse <~ Optimum, which uses MatchFinder <~ BinTree
WriterSession --.
ReaderSession -- Pipeline
InWindow, CommandLine
```

**`LzHistory`** is an abstract specification: the decoded stream is an unbounded
sequence, a repeat appends earlier bytes of it one by one, the writer always has
a prefix of it. It has no buffer, no index and no wrap.

**`OutWindow`** is `lzOutWindow`. `buf`, `pos`, `streamPos` are the fields;
`PutByte`, `CopyBlock`+`CopyByte` and `Finish` are `putByte`, `copyBlock` (its
entry and one turn of its loop) and the flush at the end of `doDecode`; `Flush`
is the body of `flush`, with the Write that succeeds, and the one that fails
after any number of bytes. `Back` is the index expression `getByte` and
`copyBlock` share, in arithmetic modulo `Modulus`. The module implements
`LzHistory`: `history` is the history, `sink` the sink.

**`RangeEncoder`** is `rangeEncoder`, byte and word widths being constants.
`Encode` is `encode` with the probability's update, `EncodeDirect` a turn of
`encodeDirectBits`, `ShiftLow` is `shiftLow`, `StartFlush`/`FlushByte` are
`flush`. `exact` is a history variable: the number that `low`, `cache`, the
pending 0xFF bytes and the bytes written stand for, kept without any of them.
**`RangeCoder`** composes it with `rangeDecoder`, which reads the bytes as they
appear: `ReadStart` is `newRangeDecoder`, `DecodeBit` and `DecodeDirect` are the
two decoders. The decoder is told which context each bit has, which the packet
layer knows.

**`Header`** is the thirteen bytes: `Legal` is `checkValues`, `Write` the
encoder's header, `Read` is `decodeProps` and the size. Headers from elsewhere
are initial states. **`SymbolCoding`** takes one symbol (a literal, a literal
against a match byte, a length, a distance, the end marker) to a tape of bits,
each with the array and index of its probability, and back. `Literal`,
`MatchedLiteral`, `Length`, `PosSlot`, `SlotAndFooter` are the encoders,
`ReadTree`, `ReadMatched`, `ReadLength`, `ReadDistance` the decoders. `Steps` is what
a loop's variable is after each turn, a recursive function; a decoder's loop is
driven by the bits in front of it on the tape (`NextBits`), and leaves what it
did not take (`Took`) and what it asked for (`Asked`).
**`SymbolPrices`** is the `getPrice*` functions and the tables the encoder fills
with them. A price is the sequence of the bits it adds up the prices of, each
with its probability's array and index: so a price can be compared with what the
coder sends. **`Stream`** puts a symbol behind a header, with the sub-coder of
`litCoder` that both sides take for a literal.

**`LzParse`** is the abstract specification of what an encoder may choose:
packets that describe the next bytes of the input, by true repeats within the
dictionary or at one of the last four distances, until nothing is left.
**`PacketCodec`** extends it by the other half: its packets go through a channel
to `doDecode`. `enc` and `dec` each hold `state`, the repeat distances,
`prevByte` and the position. A symbol carries the context it was encoded in;
`Read` gives the decoder that symbol if it asks in the same context and *any*
symbol if it does not, which is what a range decoder with the wrong probability
delivers. So a divergence of the two sides, however small, shows in what is
decoded. `Damage` replaces the rest of the stream by anything.

**`Optimum`** is `readMatchDistances`, `getOptimum`, `backward` and what
`codeOneBlock` does with the packet it is given. `Begin` is the part of
`getOptimum` before its main loop, `Search` one turn of that loop with every
candidate it prices, `EndSearch` its exits, `NextOfPath` a later call that takes
the next packet of the path. `BackTurn` is one turn of `backward`, which rewrites
the links of `optimum` in place. An entry is exactly the code's: `posPrev`,
`backPrev`, `prev1IsChar`, `prev2`, `posPrev2`, `backPrev2`. Prices are
abstracted: of the candidates for a place (and the entry it has) any may be the
cheapest, whichever the real prices make it. The match finder is
`MatchFinder`; the packets implement `LzParse`.

**`MatchFinder`** is the abstract specification of the match finder: any report
of true matches with increasing lengths. **`BinTree`** is `lzBinTree` and
implements it: `GetMatches`, `Skip` (a turn of `skip`'s loop) and `PassLast` (a
position too close to the end) are its calls, `Walk` is the loop through the
tree with both pointers (`Visit` one turn of it, which does nothing more once the
walk is over), `Replace` the exchange of an equal node, `MovePos` includes
`normalize`. The exclusive or that the hashes are made of is a constant, of which
`HashAssumption` says what the code's has: a hash of two or three bytes, cut to
2^10 or 2^16, tells the later bytes once the first is known, because they are in
its low bits as they are.

**`InWindow`** is `lzInWindow` driven by `movePos` and by the renumbering of the
match finder: `ReadSome`/`ReadEnd`/`ReadFails`/`BlockFull` are the outcomes of a
turn of `readBlock`, `MovePos` is `movePos` with `moveBlock`, `Prime` and
`Normalize` are the two calls of `reduceOffsets`. Bytes are known by their place
in the input, which is what a position must keep meaning.

**`WriterSession`** and **`ReaderSession`** are the two goroutines with their
callers. Bytes are counted, not carried: that they are the right ones is the
business of the modules above. `io.Pipe` is modelled as documented: no buffer, a
Write waits until Reads have taken its bytes or an end is closed. In
`WriterSession`, `BreakPipe` and `SendToken` are the two steps of
`syncPipeReader.CloseWithError`, `Close` and `CloseReturns` those of
`syncPipeWriter.Close`. **`Pipeline`** runs both at once: what the encoder has
given to w reaches r in pieces (`Deliver`), with its end (`DeliverEnd`), as a
stump when the encoder failed and its caller closed w (`DeliverStump`), or breaks
off anywhere (`Break`); or some of it is changed on its way (`Damage`). These five
are the environment; they stand for what callers do with w and r. Nothing in the
code checks what it reads, so damaged code decodes to any packets (`Decodable`),
which may be found wrong, hold an end marker (`EndMarker`), or go on beyond the end
of a whole r; and a damaged header may be accepted with another size and window
(`unpackSize`, `winSize`). Any of these but the first ends as a success.

**`CommandLine`** is `main` once its flags are accepted: the feeder, the codec and
main itself in a chain of two pipes, each action with its failure; `log.Fatal`
(`Fatal`) ends the process with no deferred call. The codec is taken by what the
sessions and the range coder promise: `NeedsInput` (the decoder reads all of the
stream and nothing behind it) is `RangeCoder`'s `ReadsExactlyFlushed`. A file that
is damaged, of any length, may end the decoder at any place behind the header with
an error or without (`DecoderEnds`, `DecoderStarves`, `DecoderFails`).

The `MC*` modules give TLC the sets a cfg cannot write down. The modules named
`...Proofs` hold the proofs of the modules they extend (section 5; the last part of
`PipelineProofs` is about `CommandLine`, which names its specification `ToolSpec`).
Operators marked `Mutant:` in comments
are plausible mistakes; `PROJECT.json` says which definition each of them
stands in for and which property notices.

How the modules rest on each other: `Optimum` takes from `BinTree` that reports
are legal (`ReportsRealMatches`); `PacketCodec` takes from `Optimum` that the
packets are a parse (`ImplementsParse`), from `RangeCoder` and `SymbolCoding` that
a symbol read in the right context is the symbol written, from `OutWindow` that a
copy appends the bytes of the history, and from `Header` that both sides use the
same properties, dictionary and size; `BinTree` and `Optimum` take from
`InWindow` that a position keeps meaning the same byte; the sessions take from
`OutWindow` and `InWindow` that counting bytes is enough; `CommandLine` takes
from the sessions how a codec may end.

## 3. The runs

| Run | Bounds | Why they are enough |
|---|---|---|
| `out_window` | window of 4 bytes = half of the position range (8), two byte values, 9 bytes out, matches to 3 | the window wraps twice, a match may start and end on either side of the wrap and be longer than its distance; at exactly half the range the smallest error of the index shows |
| `range_coder` | base 4, three bytes in a word, one adaptive context and direct bits, every sequence of up to 6 bits | carries occur across none, one and several pending full bytes; the flush makes four more shifts; the constants meet the assumption the proofs make of the real ones |
| `packets` | every input of up to 5 bytes over {0, 1} and one of eleven zeros, dictionary 3, matches to 3, decoder up to 2 packets behind, damage at any time | every kind of packet, both ends (size, marker), contexts that differ by position, length and previous byte; in the long input all four repeat distances are set by matches and each is repeated; a damaged stream can be decoded to beyond the dictionary |
| `stream` | headers: 3 bytes each of dictionary (4 in the code) and size (8), all properties to one beyond legal, all first bytes of foreign headers; symbols: the code's own constants, all literals plain and against 8 match bytes, all lengths, distances 0..300 and the edges of every slot up to 2^29 | each field crosses a byte boundary and its sign; symbols are exhaustive except for distances inside a slot, which differ only in bits whose treatment is the same |
| `in_window` | 8 slots, inputs of up to 24 bytes in pieces of any size, renumbering at position 7 | the block moves several times before and after the end of the input, positions are renumbered several times, `bufOffset` wraps below zero |
| `bin_tree` | every input of up to 13 bytes over {0, 1}, dictionary 7, matches to 5, walks of at most 2 nodes and uncut ones, renumbering at position 10 | the cycle wraps and old links are overwritten, positions are renumbered several times; all three hashes collide for different bytes; nodes are replaced, have two subtrees, and fall out of the dictionary with children |
| `parser` | every input of up to 5 bytes over {0, 1}, 64 longer ones that repeat, three chosen; `fastBytes` 4, matches to 5, a table of 8 places, reports of at most 2 matches | matches longer than `fastBytes`, paths cut at the end of the table, all four repeats, and entries for match-literal-repeat chains all occur; the chosen inputs make the rarer ones occur together |
| `pipeline` | 3 bytes, writes to 3, 2 bytes ahead and refill below 1, packets to 2, output window 2, reads of 1; damaged code decodes to up to 3 bytes, a damaged header says no size or 2, and a window of 1 | several refills, a full and a partial output window, failure of w at each write, every cut of what lies between; a Write larger than the encoder's window waits in the pipe when the encoder fails; the decoder writes in the middle and at the end, and its Write is cut off with some bytes taken; a damaged stream may end before, at and behind its size, in a smaller window |
| `command` | 3 pieces of data, 2 behind the end of a stream, files cut at every length, damaged files of every length | each pipe has a write in progress at each failure; the codec is ahead of and behind both neighbours |
| `out_window_large`, `pipeline_loss`, `command_link` | as the run of the same module (`pipeline_loss`: one byte more everywhere, since it needs no liveness) | each shows a disagreement of section 6 |

What each run checks:

- `out_window`: `TypeOK`, `WindowHoldsHistory` (an accepted distance reaches the
  right byte), `NothingLostOrRepeated` (the writer has a prefix, the rest is in
  the window, and at the end there is no rest), and `RefinesHistory`, the
  refinement of `LzHistory`.
- `range_coder`: `CarryExact` (what was written, what waits and `low` add up to
  the exact number: no carry is lost), `NoSecondCarry`, `Normalised` (one shift
  per bit suffices), `CodeInRange` (the sign bit that `decodeDirectBits` uses is
  the comparison it stands for), `DecodesWhatWasSent`, and the
  liveness property `ReadsExactlyFlushed`: `flush` writes exactly the bytes the
  decoder reads.
- `packets`: `Lockstep` (whenever the decoder has caught up, its state is the
  encoder's), `DecodesInput`, `RepsStayInside` (on a damaged stream too, no kept
  distance leaves what was decoded or the dictionary), and `Delivered`: the
  decoder ends.
- `stream`: `HeaderRoundTrip`, `AcceptsExactlyLegal`, `LiteralsHaveCoders` (no
  header that is accepted leads to a literal without a sub-coder, and both sides
  take the same one), `RoundTrip`, `IndexInRange`, and `PricesWhatIsSent` (the
  price of a symbol is made of the very bits and probabilities it is sent with;
  no table is read where it was never filled).
- `in_window`: `WindowHoldsInput`, `LooksAhead` (the encoder never takes a pause
  of the reader for the end, nor runs short of look-ahead), `ComparesInput`
  (`getMatchLen` compares bytes of the input only), `InputSeen`.
- `bin_tree`: `ReportsRealMatches`, the refinement of `MatchFinder`; and
  `FindsNearest`: an uncut walk misses no length and gives the nearest distance,
  which shows the trees are kept whole through skips, replacements and
  renumbering.
- `parser`: `ImplementsParse`, the refinement of `LzParse` for all prices;
  `PricesWhatIsCoded` (the state and repeat distances `getOptimum` assumes at a
  place are those the coder has when it gets there by the path `backward` lays
  out); `StaysInTables`.
- `pipeline`: `SealedAtEnd` (a pause of the caller is not the end of the input),
  `CloseMeansWritten`, `QuietAfterClose` (w is left alone); `EofIsTheEnd` (a clean
  EOF on one side is all of what was written on the other, unless r ended early or
  its code was damaged), `LosesLessThanAWindow` (what an error costs a caller who
  reads on; of damaged streams too); `CallsReturn`, `CloseFreesGoroutine`,
  `ReadingEnds`, whatever fails, is damaged or is lost.
- `command`: `RemovedOnlyIfWhole` (when the input is gone, the codec ended without an
  error and all it made is in the output; unless the input was a cut or damaged
  stream, that is everything), `NothingLeftInPipe` (no write is broken by main's
  closing of the pipe behind an intact stream), `Exits`.

Deadlock is not checked where a run's behaviours end: a stream is finished, a
caller has closed, a process has exited, a bound is reached. That nothing stops
*early* is what the liveness properties say.

Bounds on counters are constants marked "bound" in the modules (`MaxOut`,
`MaxBits`, `MaxInput`, `MaxAhead`, `MaxDist`, ...), and stand in guards or in the
initial states.

## 4. Fairness

Weak fairness of each goroutine's own steps: the Go scheduler runs a goroutine
that can run, and `r`, `w` and files answer each call (with data or an error). In
`RangeCoder` this is `FlushByte`, a loop that runs to its end, and the decoder
while bytes are there; in `PacketCodec` the two loops; in `InWindow` the loop of
the encoder and the reads. In `Pipeline` it is both goroutines, delivery of what
w has got, calls already made that can return (`WriteFails`, `CloseReturns`), and
the reading caller, who reads until there is an error and is never obliged to
close; nobody makes the writing caller write or close. In `CommandLine` it is
each of the three goroutines, as a whole. No strong fairness is used anywhere.
That a decoder of damaged code ends is due to the bounds on what such code decodes
to (`MaxDamaged`; `Size + Extra` in `CommandLine`). They stand for this: each
decoded bit narrows the range, to at most 2017/2048 of it or so (`decodeBit` keeps
every probability within 31..2017), so that a byte of code is used up after
finitely many bits.

## 5. The proofs

`OutWindowProofs`, for every size, byte set and bound that `WindowAssumption`
allows:

- `Typing`, `WindowCorrect`, `WritesInOrder`: the three invariants of
  the run; `Refinement`: the window implements `LzHistory`. All assume `HalfRange`
  (2 x window <= range of a position); `out_window_large` shows that it is needed.
- `IInv` strengthens the invariants. `WindowHoldsHistory` alone is not
  inductive: it speaks of the index the code computes, and says nothing of a copy
  in progress. `InWindow` says where the last bytes lie without the wrapped
  index; `CopyInProgress` that the source index runs in step with the position,
  at the copy's distance, whatever wrap or flush happens between; `Unwritten` and
  `Written` that the bytes from `streamPos` on are the end of the history the
  writer lacks. `BackCorrect` is where `HalfRange` enters: the code's index is
  the meant one. `FlushStep` and `StoreStep` carry the four through a write that
  succeeds, fails or is short.
- The refinement maps `history`, `distance`, `length`, `sink` and `phase` to
  themselves and hides `buf`, `pos`, `streamPos` and `from`. `PutByte`,
  `CopyBlock`, `CopyByte` and `Finish` map to `Literal`, `StartRepeat`,
  `RepeatByte` and `Finish`, the third by `CopyReads` (the
  slot a copy reads holds the byte the history would repeat).

`RangeCoderProofs`, of the encoder alone, for every width that `RangeAssumption` allows:

- `Typing`, `OneShiftIsEnough` (`Normalised`), `CarryFits` (`NoSecondCarry`), and
  `CodeWidths`: 2^8, 2^24, 2^11 and 2^5 of `range_coder.go` meet the assumption,
  so that the theorems are about this code.
- The argument: `MovedBounds` keeps a probability in [31, 2017]; `BoundSplit`
  and `HalfSplit` bound both parts of a split range from below by Top/Base, so
  one shift restores Top. `IInv` adds that `low + rrange` never exceeds twice the
  word: the interval only shrinks until a shift multiplies it, and
  `NarrowStep` shows that the shift keeps the bound and that a cached 0xFF left
  by a carry cannot meet another one.

And of encoder and decoder, for every width that `RangeAssumption` and `WordAssumption`
allow and any sequence of bits and contexts:

- `NoCarryLost` (`CarryExact`), `CodeStaysInRange` (`CodeInRange`),
  `DecoderFollows` (`DecodesWhatWasSent`), `FlushesExactly` (the part of
  `ReadsExactlyFlushed` that is no liveness), and `CodeWord`: with bytes of 8 bits, words of four of them and a Top of 2^24,
  `WordAssumption` holds (four full bytes make 0xFFFFFFFF).
- `Value`, the number that bytes make, is a recursive function. Its equation
  (`SumsExist`, `ValueIs`, `ValueAppend`) and what a run of equal bytes makes
  (`Runs`) are inductions in the form the provers take: the set of lengths at which
  the formula fails would have a least member.
- Of the encoder, `Carried` says that the bytes written, the cached one, the pending
  0xFF bytes and `low` make the number `exact`. `ShiftCarries` is the case that
  matters, a carry that turns every pending 0xFF into a zero and adds one in front.
  `PrefixBounds` follows: what has been written is the leading digits of `exact`,
  and no later bit changes them.
- `DecodesWhatWasSent` compares the decoder with an encoder that may be far ahead
  of it. So `CInv` has a history: a function `H` from the number of bits to the
  situation the encoder was in after them (low, range, probabilities, shifts).
  `Traces` says that each is made of the one before by the bit sent, `Leads` that
  the last is the encoder's, and `Encloses` that each interval still holds all that
  has been encoded since. `Follows` says that the decoder is in the situation the
  encoder was in after as many bits, and that its code is what the bytes it has read
  make less that situation's low. With this, `PrefixWithin` puts the code below the
  range and `NextPart` on the side of the bound that the bit sent is on; `SignBit`
  shows that the sign of the wrapped difference tells the side.
- `Flushed` says that each shift of `flush` adds a zero at the end of `low`, so that
  after the last nothing is pending: every byte is written, and the decoder, which
  has read one for each shift and those it started with, has read them all.

`InWindowProofs`, for every size of the buffer, reserve and limits that
`InWindowAssumption` allows and every way of cutting the input:

- `HoldsInput` (`WindowHoldsInput`), `SeesAhead` (`LooksAhead`), `Compares`
  (`ComparesInput`).
- None of them is inductive: they speak of the slots and limits at the position
  the encoder is at, and a move, a refill or a renumbering changes the buffer
  under it. `IInv` says which place of the input every slot holds that has been
  filled and not been moved away (`Holds`), how much is kept behind the position
  through a move (`KeepsBehind`), how `posLimit` follows what has been read, before
  and after the end of the input is known (`EndKnown`, `Limits`), and where
  `bufOffset` puts the origin after `reduceOffsets` (`Positions`). The assumption
  that the reserve is positive is the `+ 256` of `lz_window.go`'s winSizeReserv.

`PacketCodecProofs`, for every input, dictionary, length and number of packets
under way:

- `InLockstep` (`Lockstep`), `Decodes` (`DecodesInput`), `StaysInside`
  (`RepsStayInside`).
- `Lockstep` speaks of the moments at which nothing is under way. In between,
  `IInv` says that the packets under way lead from the decoder's state to the
  encoder's: there is a chain of states (`Chain`), one more than there are packets,
  the first the decoder's, the last the encoder's, and each packet is one that
  the encoder would have sent in its state and that makes of it the next
  (`LiteralMove`, `ShortRepMove`, `RepMove`, `MatchMove`), or is the end marker, and
  last. An encoder's step adds a link (`LinkAppend`), a decoder's takes one off
  (`LinkTail`). The decoder does not see the state a packet was sent in: it asks in
  contexts of its own, and `ReadIs` shows that these are the encoder's, so that it
  reads the symbol that was sent. That a copy longer than its distance gives the
  bytes of the input is `Periodic`, an induction over the bytes copied: the set of
  bytes that would be wrong has no least member.
- `Inside` does not mention the encoder, and so survives `Damage`.

`PipelineProofs`, for every amount of data, window, and size of packets, reads and
writes:

- `Seals` (`SealedAtEnd`), `CloseWrites` (`CloseMeansWritten`), `Quiet`
  (`QuietAfterClose`, an action property), `LosesLittle` (`LosesLessThanAWindow`),
  `EofEnds` (`EofIsTheEnd`).
- `IInv` has three parts. `WriterInv`: what the caller has written is coded, in the
  encoder's buffer or on its way (`Accounted`); the encoder has seen the end only
  if the caller closes (`EndSeen`); the phase of each side while the other waits
  (`CallerWaits`, `Sealing`). `ReaderInv`: what has been decoded is delivered, in
  the pipe, or in the window, less than which is lost (`Counted`), and what each
  end means (`Ends`, `AtItsEnd`, `Closing`). `Between`: what r has given is a prefix
  of what w has got, and its end is that of w unless it was cut. `EofIsTheEnd`
  needs all three: EOF means that the decoder has seen the end of the stream, this
  that w got it, and this that everything written had been coded. `AtItsEnd`, on which
  that rests, speaks of code that has not been damaged; `Counted`, and with it
  `LosesLessThanAWindow`, of all.
- `Declared` is what is asked of the caller: one who declares a size writes no more
  than that (section 7).

`PipelineProofs` also, of the command line tool, for every amount of data:

- `InputIsSafe` (`RemovedOnlyIfWhole`), `NoWriteBroken` (`NothingLeftInPipe`),
  `RegularSize` (`HeaderTellsSize`). The first and the last assume that no input is
  a symbolic link; `command_link` shows that it is needed.
- `ToolInv` counts the pieces: what the feeder has read is in the first pipe or with
  the codec, what the codec has made is in the second or in the output
  (`Conserved`). `FirstClosed` and `SecondClosed` say what the closing of each pipe
  means for who sees it: EOF on the first, that the file was read to its end; on the
  second, that the codec has made all there is, or that the stream was cut or damaged.
  `Removing`: main acts on the second.

`StreamProofs`, for every number of bytes that dictionary and size take, every level,
and every size that fits in its bytes (uint32 and int64 in the code):

- `AcceptsLegal` (`AcceptsExactlyLegal`), `HeaderComesBack` (`HeaderRoundTrip`),
  `HaveCoders` (`LiteralsHaveCoders`). The invariant ties the bytes of the header to
  the arguments they were made of (`FirstByte`, `OtherBytes`) and to what the decoder
  makes of them (`Verdict`). `AcceptedIsLegal` is the arithmetic of the first byte in
  both directions, `SubCoderExists` that of `getSubCoder`. The others rest on
  `JoinLittle`: the bytes of a number, put back below what is left of it above them,
  are the number, as the equation of `Shifted` (`ShiftOne`) and that of `Joined`
  undo each other. `SizeBack` adds the sign, which the last byte holds.

`StreamProofs` also, for every number of bits in a literal, in each tree of lengths and in a slot, every split of the slots, and any
symbols that fit (`SymbolAssumption`, `PriceAssumption`):

- `SymbolComesBack` (`RoundTrip`), `InItsArray` (`IndexInRange`), `CostsWhatIsSent`
  (`PricesWhatIsSent`). `SymbolInv` says what the tape holds while a symbol is
  encoded, and what the decoder has made of it once it is decoded.
- The loops are `Steps`, whose equation (`FollowsExists`, `StepsFollow`) is an
  induction by least counterexample, as are the laws of `Shr` and `TwoTo`. Each
  decoder is proved to give the symbol back from a tape that begins with what its
  encoder made and goes on in any way (`TreeReads`, `ReverseReads`, `DirectReads`,
  `MatchedReads`), to ask for each bit at the probability it was coded with and
  to leave the rest: so that they can be put one after another for a length
  (`LengthReads`) and a distance (`DistanceReads`).
- The node of a tree after j bits is a 1 and the first j bits of the symbol; the
  literal against a match byte adds which half of the sub-coder: up to the first
  bit that differs it is chosen by the match byte on both sides, from there it is the
  plain tree. `FirstDifference` is the same fact for its price, which the code adds
  up in two loops.
- A distance: `Base` doubles every two slots (`SlotStep`), so that a distance lies in
  one slot (`OneSlot`), and the slot the encoder finds in its table, once or after a
  shift, is that one (`PosSlotIs`, `PosSlot2Is`). `PosRun` shows that the runs of
  `posCoders` that the slots use are disjoint and end where the array does, which
  is why `Base - slot - 1` is an origin.

`OptimumProofs`, for every input, dictionary, fastBytes, greatest length and table
size that `OptimumAssumption` allows, any reports of the match finder and whichever
candidate each comparison of prices prefers:

- `TablesAreEnough` (`StaysInTables`), `PathsArePricedAsCoded`
  (`PricesWhatIsCoded`), and `ParserImplementsParse` (`ImplementsParse`): what
  `codeOneBlock` codes is a parse of the input.
- None of them says what `optimum` holds while `getOptimum` runs. `Table` does: every
  entry below the end leads to its place from the context of an earlier one, by one
  packet or by the two or three that `prev1IsChar` and `prev2` stand for, and each of
  these fits (`Leads`, `Fits`: a literal, a true repeat at a distance inside the
  dictionary, or one at one of the four distances of that context). The first table
  is of this kind (`FirstTable`), each kind of candidate is (`RepCandidates`,
  `MatchCandidates`, `PairCandidate`, `CharRepCandidate`), and replacing entries by
  such candidates keeps it (`TableGrows`, `RelaxIs`). `ContextIs` shows that
  what `getOptimum` recomputes for a place (state and distances) is the context
  the entry leads to.
- `backward` rewrites the links it has still to follow. `Rested` and `Pending` say
  which entries are already turned round and what the pair of entries in front of it
  stands for (`PendingPair`: a literal and a repeat behind a match, with the
  `posPrev2` it came from); `BackwardLays` makes of it that the packets that follow,
  taken in turn, are a way from the start of the search to its end (`Way`).
- `IInv` adds what is left between calls: of the path, that its rest is a way from the
  encoder's context (`OnPath`); of the report kept in `matchDistances`, that it is on
  the position behind the path (`KeptReport`), however far `additionalOffset` is
  ahead (`AheadIs`). `CodeParses` and `StepKeeps` then map each step to a packet of
  `LzParse` or to a stutter.

`BinTreeProofs`, for every input, dictionary, size of the tables, `cutValue` and
bound on positions, and any tables that `HashAssumption` allows:

- `TreesStayInOrder` and `FinderReportsRealMatches` (`ReportsRealMatches`): the match
  finder implements `MatchFinder`, even where walks are cut short.
- A walk does not compare a node with the new string from the first byte. It takes
  it that they are the same as far as the lesser of `len0` and `len1`
  (`NeedNotCompare`), which holds because everything below a node lies between the
  nodes passed on the way down. So `IInv` has to say what is below a node: for each
  place c of the input and each side s there is a set `Sub[c][s]` of older places on
  that side of c, and every link that is followed leads into it (`InOrder`). That
  all of it can be reached is not said: it is not so after a walk that was cut.
- The sets are of places in the input, which do not change when positions are
  renumbered, slots used again and old nodes fall out with what is below them
  (`PositionsMove`, `SlotsMove`). The order is that of the first `lenLimit` bytes,
  which near the end of the input get fewer: it is weak, and stays true of less
  (`SideLess`).
- While a walk is under way two links are open. `Descends` says which places they
  belong to and what may still be linked there (`Fitting`). A turn that goes on
  takes from `Sub[c]` what is on the far side of the new string and leaves it to the
  other link (`TurnDescends`); a walk that ends links nothing (`CutShort`) or what
  was below an equal node (`Replaces`).
- The reports of two and three bytes rest on `HeadsKnown` (a position in the small
  tables has the hash it is kept under) and `Hits`. Where the last of them is the root
  of the tree it is taken back and left to the walk; `RootAhead` shows that the walk
  gives it again or a longer one, so that lengths increase all the same.

Model-checked only:

- All liveness (TLAPS has no ENABLED).
- `FindsNearest`: that a walk which is not cut short misses nothing. It needs the
  converse of `InOrder`, that what is in `Sub` and has not been replaced by its equal
  is reached.

## 6. Disagreements found

1. **Large windows** (`out_window_large`). `copyBlock` and `getByte`
   (`lz_window.go:49-52, 75-78`) recognise a wrapped index by `pos >= winSize`.
   A window above 2^31 bytes, which `decodeProps` accepts, makes wrapped indices
   that pass for valid ones, and a match reads the wrong slot.
2. **Truncated streams** (`pipeline_loss`). A stream that stops in the middle
   of a packet reaches the caller as a plain `io.EOF`
   (`range_coder.go:82`, `lzma_decoder.go:360`): the data looks complete. The
   command line tool takes it for that, writes a part of the data and removes the
   compressed file (`main.go:254`). Damage that is not noticed ends the same way:
   with an early end marker or the full size, as nil (`lzma_decoder.go:281,
   298-304`), or beyond the end of r inside a packet, as `io.EOF`. Of whether they
   got the whole, `EofIsTheEnd` and `RemovedOnlyIfWhole` therefore say nothing for
   streams that were cut or damaged; the code has no check that they could state
   (TODO at `lzma_decoder.go:100-112`).
3. **Late errors of the writer** (`pipeline_loss`). An error of the encoder after
   the caller's last Write, such as a failed final flush, is returned by no call:
   `syncPipeWriter.Close` (`lzma_encoder.go:72-77`) returns what
   `PipeWriter.Close` does, nil. The run's counterexample has both: the encoder
   fails, Close returns nil, and the Reader of what w has got ends with a clean
   EOF.
4. **Sizes of symbolic links** (`command_link`). The tool declares the size that
   `os.Lstat` gives (`main.go:220`), of a link its own length; the stream then
   says so in its header, and a decoder stops there.

## 7. Not modelled

- The numbers: `probPrices`, and the ages of the price tables (`distPriceCount`,
  `alignPriceCount`, the counters of `lenPriceTableCoder`). `Optimum` is checked
  for arbitrary outcomes of every comparison of prices, so neither can make a
  stream wrong. `tempPrices`, shared by all encoders of a process
  (`lzma_encoder.go:799`), holds prices too.
- Other shared tables (`gFastPos`, `crcTable`, `probPrices`) that each encoder
  fills again: they get the values they have.
- The match finder "bt2" (`lzma_encoder.go:1035-1043`): every level selects
  "bt4", so the branches for two hash bytes cannot be reached.
- `codeOneBlock`'s return to its caller every 2^12 bytes, which calls it again.
- `processedSize` of the range encoder: nothing reads it.
- What the bytes of a damaged stream come to, but for distances (`PacketCodec`): the
  sessions and the tool count them. A match may then run past the declared size, and
  all of it is written (`lzma_decoder.go:100-112` says so); no property forbids it.
- A caller of `NewWriterSize*` who declares a size and closes after another
  number of bytes, except through the command line tool (item 4 of section 6).
- A second `Close` of a writer, which waits forever for a token sent once:
  `io.Closer` leaves a second call undefined.
- Of the command line: flags, file names, the checks of the two files and the
  removal of an old output (`-f`), all before any goroutine starts; the error of
  `outFile.Close`, which is dropped (`main.go:192`); and other processes, which
  could create the output between its `Lstat` and `os.Create`.

## 8. Plan

Proved are every invariant that a run checks, the action property `QuietAfterClose`
and three refinements; section 5 lists what stays with TLC and why. What is left:

1. `FindsNearest`: a chain of links from the head to each place that has not been
   replaced, kept through a walk.
