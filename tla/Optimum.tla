------------------------------ MODULE Optimum ------------------------------
(***************************************************************************)
(* The optimal parser of the encoder (lzma_encoder.go): readMatchDistances,*)
(* getOptimum and backward, and what codeOneBlock does with the packet it  *)
(* is given. getOptimum looks for a cheapest path through the next bytes:  *)
(* optimum[i] is the last packet of the best way found so far to the i-th  *)
(* of them; some entries stand for two or three packets at once (a literal *)
(* and a repeat after it, with or without a match before it). backward     *)
(* then turns the links of the best path round, in place, and codeOneBlock *)
(* takes one packet of it after another, while the match finder has run    *)
(* ahead by additionalOffset.                                              *)
(*                                                                         *)
(* Prices are abstracted: of the old entry and all the new candidates for  *)
(* a place any one may turn out the cheapest. The match finder is its      *)
(* specification, MatchFinder.                                             *)
(***************************************************************************)
EXTENDS Integers, Sequences, FiniteSets, SequencesExt

CONSTANTS Byte,       \* the values of a byte, 0 among them
          DictSize,   \* 1 << cl.dictSize
          FastBytes,  \* cl.fastBytes
          MaxLen,     \* kMatchMaxLen
          NumOpts,    \* kNumOpts
          MaxReport,  \* bound: matches in a report
          Inputs,     \* bound: what is encoded is one of these
          MaxInput    \* bound: their length

ASSUME OptimumAssumption ==
  /\ DictSize \in Nat \ {0} /\ MaxInput \in Nat
  /\ {FastBytes, MaxLen, NumOpts, MaxReport} \subseteq Nat
  /\ \A s \in Inputs : s \in Seq(Byte) /\ Len(s) <= MaxInput
  /\ 2 <= FastBytes /\ FastBytes <= MaxLen /\ FastBytes < NumOpts

VARIABLES input, size, ended,
          state, prevByte, repDistances, nowPos,   \* of codeOneBlock
          at,                \* how many bytes the match finder has passed
          additionalOffset,  \* by how many it is ahead of nowPos
          matches,           \* matchDistances, if the next getOptimum needs it
          longestMatchLen,   \* 0 if longestMatchFound is false
          optimum,           \* its entries from 0 to lenEnd
          context,           \* of them: state and backs0..backs3, from 0 to cur
          endIndex, curIndex,  \* optimumEndIndex, optimumCurrentIndex
          searching          \* getOptimum is between two turns of its main loop

coderVars  == <<input, size, ended, state, prevByte, repDistances, nowPos>>
finderVars == <<at, additionalOffset, matches, longestMatchLen>>
searchVars == <<optimum, context, endIndex, curIndex, searching>>
vars == <<coderVars, finderVars, searchVars>>

Parse == INSTANCE LzParse WITH
  enc <- [state |-> state, reps |-> repDistances, prev |-> prevByte, pos |-> nowPos]

Finder == INSTANCE MatchFinder WITH MaxMatch <- FastBytes, found <- matches

Reps == Parse!Reps
Char == -1                     \* backPrev of a literal, 0xFFFFFFFF
NumReps == 4                   \* kNumRepDistances: backPrev of a match is its
                               \* distance plus this, of a repeat its number
Least(a, b) == IF a < b THEN a ELSE b
Most(S) == CHOOSE x \in S : \A y \in S : y <= x
Extended(f, x, e) == [y \in DOMAIN f \cup {x} |-> IF y = x THEN e ELSE f[y]]

Init == /\ input \in Inputs
        /\ size \in {-1, Len(input)} /\ ended = FALSE
        /\ state = 0 /\ prevByte = 0 /\ nowPos = 0
        /\ repDistances = [i \in Reps |-> 0]
        /\ at = 0 /\ additionalOffset = 0
        /\ matches = << >> /\ longestMatchLen = 0
        /\ optimum = << >> /\ context = << >>
        /\ endIndex = 0 /\ curIndex = 0 /\ searching = FALSE
-----------------------------------------------------------------------------
(* What the parser asks of the window and of the match finder, which has   *)
(* passed q bytes.                                                         *)

ByteBack(q, i) == input[q + 1 + i]             \* getIndexByte
Left(q) == Len(input) - q                      \* getNumAvailableBytes

\* getMatchLen: from position q + index on, at distance d.
MatchLen(q, index, d, limit) ==
  LET most == Least(limit, Left(q) - index)
      same(n) == \A i \in 0..(n - 1) :
                   ByteBack(q, index + i) = ByteBack(q, index + i - d - 1)
  IN  Most({n \in 0..most : same(n)})

\* The reports the match finder may give on the next byte.
Reports ==
  LET real == {m \in [len : 2..FastBytes, dist : 0..(DictSize - 1)] :
                 Finder!RepeatsAt(at, m.dist, m.len)}
  IN  {r \in SeqOf(real, MaxReport) : \A i, j \in DOMAIN r : i < j => r[i].len < r[j].len}

\* readMatchDistances: the length of the longest match, which is extended when
\* it is as long as the match finder looks.
Longest(q, report) ==
  IF report = << >> THEN 0
  ELSE LET last == Last(report)
       IN  IF last.len = FastBytes
           THEN last.len + MatchLen(q, last.len - 1, last.dist, MaxLen - last.len)
           ELSE last.len

\* The first match reported that has n bytes, and its distance.
FirstOf(report, n) == CHOOSE k \in DOMAIN report : /\ report[k].len >= n
                                                   /\ \A j \in 1..(k - 1) : report[j].len < n
DistanceFor(report, n) == report[FirstOf(report, n)].dist
-----------------------------------------------------------------------------
(* codeOneBlock. It returns every 1 << 12 bytes and is called again, which *)
(* changes nothing.                                                        *)

\* The state and the repeat distances after a packet of n bytes.
AfterPacket(c, n, back) ==
  [state |-> CASE n = 1 /\ back = Char -> Parse!AfterLiteral(c.state)
               [] n = 1 /\ back # Char -> Parse!AfterShortRep(c.state)
               [] n > 1 /\ back \in Reps -> Parse!AfterRep(c.state)
               [] OTHER -> Parse!AfterMatch(c.state),
   reps  |-> CASE back = Char -> c.reps
               [] back \in Reps -> Parse!ToFront(c.reps, back)
               [] OTHER -> Parse!Pushed(c.reps, back - NumReps)]
Coder == [state |-> state, reps |-> repDistances]

\* A packet of n bytes at nowPos, when the match finder has passed q bytes and
\* is `ahead' of nowPos.
Code(n, back, q, ahead) ==
  /\ state' = AfterPacket(Coder, n, back).state
  /\ repDistances' = AfterPacket(Coder, n, back).reps
  /\ prevByte' = ByteBack(q, n - 1 - ahead)
  /\ nowPos' = nowPos + n
  /\ at' = q /\ additionalOffset' = ahead - n
  /\ UNCHANGED <<input, size, ended>>

\* Nothing is left to code, nor to look at.
AtEnd == additionalOffset = 0 /\ Left(at) = 0

FirstByte ==
  /\ nowPos = 0 /\ ~AtEnd
  /\ Code(1, Char, at + 1, 1)
  /\ UNCHANGED <<matches, longestMatchLen, searchVars>>

\* flush, with writeEndMarker.
Flush ==
  /\ ~ended /\ AtEnd
  /\ ended' = TRUE
  /\ state' = IF size = -1 THEN Parse!AfterMatch(state) ELSE state
  /\ UNCHANGED <<input, size, prevByte, repDistances, nowPos, finderVars, searchVars>>

\* The next packet of the path found before.
NextOfPath ==
  /\ endIndex # curIndex
  /\ LET next == optimum[curIndex].posPrev
     IN  /\ Code(next - curIndex, optimum[curIndex].backPrev, at, additionalOffset)
         /\ curIndex' = next
         /\ optimum' = IF next = endIndex THEN << >> ELSE optimum
  /\ UNCHANGED <<matches, longestMatchLen, context, endIndex, searching>>
-----------------------------------------------------------------------------
(* The entries of optimum. *)

Entry(from, back) == [posPrev |-> from, backPrev |-> back, prev1IsChar |-> FALSE,
                      prev2 |-> FALSE, posPrev2 |-> 0, backPrev2 |-> 0]
\* A literal at cur, then a repeat of the last distance.
CharRep(cur) == [Entry(cur + 1, 0) EXCEPT !.prev1IsChar = TRUE]
\* n bytes with `back' at cur, a literal, a repeat of the same distance.
PairRep(cur, n, back) ==
  [Entry(cur + n + 1, 0) EXCEPT !.prev1IsChar = TRUE, !.prev2 = TRUE,
                                !.posPrev2 = cur, !.backPrev2 = back]
\* Of price kInfinityPrice.
Infinite == Entry(-1, Char)

Target(place, entry) == [place |-> place, entry |-> entry]
Furthest(lenEnd, C) == Most({lenEnd} \cup {c.place : c \in C})

\* Of what opt holds at a place and the candidates C for it any can be the
\* cheapest.
Cheapest(opt, C, place) ==
  LET old == IF place \in DOMAIN opt THEN {opt[place]} \ {Infinite} ELSE {}
      all == old \cup {c.entry : c \in {x \in C : x.place = place}}
  IN  IF all = {} THEN {Infinite} ELSE all

\* The ways optimum can stand when the candidates C have been compared with
\* what opt holds in places lo..hi.
Relaxed(opt, C, lo, hi) ==
  LET ways[n \in 0..(hi - lo + 1)] ==
        IF n = 0 THEN {opt}
        ELSE {Extended(w, lo + n - 1, e) :
                w \in ways[n - 1], e \in Cheapest(opt, C, lo + n - 1)}
  IN  ways[hi - lo + 1]

\* Mutant: a match before a literal and a repeat is not put back.
BackTurnNoPrev2(b) ==
  LET e  == b.opt[b.cur]
      o1 == IF e.prev1IsChar
            THEN [b.opt EXCEPT ![b.posMem] = Entry(b.posMem - 1, Char)] ELSE b.opt
  IN  [opt |-> [o1 EXCEPT ![b.posMem].backPrev = b.backMem, ![b.posMem].posPrev = b.cur],
       cur |-> b.posMem, posMem |-> o1[b.posMem].posPrev, backMem |-> o1[b.posMem].backPrev]

\* One turn of backward's loop: the packets an entry stands for are laid out,
\* and the entry before it gets the link that led back to it.
BackTurn(b) ==
  LET e  == b.opt[b.cur]
      o1 == IF e.prev1IsChar
            THEN [b.opt EXCEPT ![b.posMem] = Entry(b.posMem - 1, Char)] ELSE b.opt
      o2 == IF e.prev1IsChar /\ e.prev2
            THEN [o1 EXCEPT ![b.posMem - 1].prev1IsChar = FALSE,
                            ![b.posMem - 1].posPrev = e.posPrev2,
                            ![b.posMem - 1].backPrev = e.backPrev2] ELSE o1
  IN  [opt |-> [o2 EXCEPT ![b.posMem].backPrev = b.backMem, ![b.posMem].posPrev = b.cur],
       cur |-> b.posMem, posMem |-> o2[b.posMem].posPrev, backMem |-> o2[b.posMem].backPrev]

\* backward: the path to cur > 0, its links turned round. Each turn is at an
\* earlier place, and the last comes to place 0.
Backward(cur) ==
  LET turn[n \in 0..cur] ==
        IF n = 0 THEN [opt |-> optimum, cur |-> cur, posMem |-> optimum[cur].posPrev,
                       backMem |-> optimum[cur].backPrev]
        ELSE IF turn[n - 1].cur > 0 THEN BackTurn(turn[n - 1]) ELSE turn[n - 1]
  IN  turn[cur].opt

\* getOptimum returns the first packet of the path to cur.
TakePath(cur, q, ahead) ==
  LET path == Backward(cur)
      first == path[0].posPrev
  IN  /\ Code(first, path[0].backPrev, q, ahead)
      /\ endIndex' = cur /\ curIndex' = first
      /\ optimum' = IF first = cur THEN << >> ELSE path
      /\ context' = << >> /\ searching' = FALSE

\* A packet without a search.
TakePacket(n, back, q, ahead) ==
  /\ Code(n, back, q, ahead)
  /\ endIndex' = 0 /\ curIndex' = 0
  /\ UNCHANGED <<optimum, context, searching>>
-----------------------------------------------------------------------------
(* getOptimum up to its main loop: q bytes have been passed, `ahead' of    *)
(* them beyond nowPos, and the longest match has lenMain bytes.            *)

\* The candidates for every place but the first.
FirstTargets(report, repLens, lenMain) ==
  LET startLen == IF repLens[0] >= 2 THEN repLens[0] + 1 ELSE 2
  IN  (UNION {{Target(n, Entry(0, i)) : n \in 2..repLens[i]} : i \in Reps})
      \cup {Target(n, Entry(0, DistanceFor(report, n) + NumReps)) : n \in startLen..lenMain}

Choose(report, q, ahead, lenMain) ==
  LET repLens == [i \in Reps |-> MatchLen(q, -1, repDistances[i], MaxLen)]
      best == CHOOSE i \in Reps : \A j \in Reps : \/ repLens[j] < repLens[i]
                                                  \/ repLens[j] = repLens[i] /\ i <= j
      lenEnd == Most({repLens[best], lenMain})
      same == ByteBack(q, -1) = ByteBack(q, -repDistances[0] - 2)
      single == {Char} \cup (IF same THEN {0} ELSE {})   \* a literal or a short repeat
  IN  CASE Left(q) + 1 < 2 -> TakePacket(1, Char, q, ahead)
        [] OTHER ->
      CASE repLens[best] >= FastBytes ->
             TakePacket(repLens[best], best, q + repLens[best] - 1, ahead + repLens[best] - 1)
        [] OTHER ->
      CASE lenMain >= FastBytes ->
             TakePacket(lenMain, Last(report).dist + NumReps,
                        q + lenMain - 1, ahead + lenMain - 1)
        [] lenMain < FastBytes /\ lenEnd < 2 ->
             \E back \in single : TakePacket(1, back, q, ahead)
        [] lenMain < FastBytes /\ lenEnd >= 2 ->
             /\ optimum' \in Relaxed(<< >>, {Target(0, Infinite)}
                                       \cup {Target(1, Entry(0, back)) : back \in single}
                                       \cup FirstTargets(report, repLens, lenMain), 0, lenEnd)
             /\ context' = [i \in {0} |-> Coder]
             /\ endIndex' = 0 /\ curIndex' = 0 /\ searching' = TRUE
             /\ at' = q /\ additionalOffset' = ahead
             /\ UNCHANGED coderVars

\* The match finder is asked, unless it was for the last path and its answer
\* has been kept.
Begin ==
  LET kept == longestMatchLen > 0
      one  == IF kept THEN 0 ELSE 1
  IN  /\ endIndex = curIndex /\ ~searching /\ nowPos > 0 /\ ~AtEnd
      /\ \E report \in IF kept THEN {matches} ELSE Reports :
           Choose(report, at + one, additionalOffset + one,
                  IF kept THEN longestMatchLen ELSE Longest(at + one, report))
      /\ matches' = << >> /\ longestMatchLen' = 0
-----------------------------------------------------------------------------
(* The main loop of getOptimum. *)

\* Mutant: the fourth distance comes to the front and the third stays.
RepsMovedThreeOnly(b, k) ==
  IF k = 3 THEN [b EXCEPT ![0] = b[3], ![1] = b[0], ![3] = b[1]]
  ELSE [i \in Reps |-> IF i = 0 THEN b[k] ELSE IF i <= k THEN b[i - 1] ELSE b[i]]

\* reps after a repeat of number k, and after a match at distance d.
RepsMoved(b, k) ==
  CASE k = 0 -> b
    [] k = 1 -> [b EXCEPT ![0] = b[1], ![1] = b[0]]
    [] k = 2 -> [b EXCEPT ![0] = b[2], ![1] = b[0], ![2] = b[1]]
    [] k = 3 -> [b EXCEPT ![0] = b[3], ![1] = b[0], ![2] = b[1], ![3] = b[2]]
NewFirst(b, d) == [i \in Reps |-> IF i = 0 THEN d ELSE b[i - 1]]

\* The state and the repeat distances at cur, from those where its entry begins.
ContextAt(cur) ==
  LET e      == optimum[cur]
      both   == e.prev1IsChar /\ e.prev2
      before == IF e.prev1IsChar THEN e.posPrev - 1 ELSE e.posPrev
      origin == IF both THEN e.posPrev2 ELSE before
      s1     == CASE ~both -> context[origin].state
                  [] both /\ e.backPrev2 < NumReps -> Parse!AfterRep(context[origin].state)
                  [] OTHER -> Parse!AfterMatch(context[origin].state)
      s2     == IF e.prev1IsChar THEN Parse!AfterLiteral(s1) ELSE s1
      back   == IF both THEN e.backPrev2 ELSE e.backPrev
      b      == context[origin].reps
  IN  IF before = cur - 1
      THEN [state |-> IF e.backPrev = 0 THEN Parse!AfterShortRep(s2) ELSE Parse!AfterLiteral(s2),
            reps |-> context[cur - 1].reps]
      ELSE [state |-> IF both \/ back < NumReps THEN Parse!AfterRep(s2) ELSE Parse!AfterMatch(s2),
            reps |-> IF back < NumReps THEN RepsMoved(b, back) ELSE NewFirst(b, back - NumReps)]

\* What optimum[cur + 1] can become at first: as it was, a literal, or a short
\* repeat, unless a repeat of the last distance from further back leads there.
NextChoices(cur, same) ==
  LET old     == {[entry |-> e, isChar |-> FALSE] : e \in {optimum[cur + 1]} \ {Infinite}}
      charred == old \cup {[entry |-> Entry(cur, Char), isChar |-> TRUE]}
  IN  charred \cup {[entry |-> Entry(cur, 0), isChar |-> TRUE] :
                      n \in {n \in charred : same /\ ~(n.entry.posPrev < cur
                                                       /\ n.entry.backPrev = 0)}}

\* Mutant: only the input limits how far the parser looks.
AvailableFullInput(cur, q) == Left(q) + 1

\* availableBytesFull: up to the last entry of optimum, or of the input.
AvailableFull(cur, q) == Least(NumOpts - 1 - cur, Left(q) + 1)

\* After n bytes at distance d and a literal, how many the same distance repeats.
SecondLen(cur, q, n, d) ==
  MatchLen(q, n, d, Least(AvailableFull(cur, q) - 1 - n, FastBytes))

\* n bytes with `back', then a literal and a repeat of the same distance d.
PairTargets(cur, q, n, d, back) ==
  LET n2 == IF n < AvailableFull(cur, q) THEN SecondLen(cur, q, n, d) ELSE 0
  IN  IF n2 >= 2 THEN {Target(cur + n + 1 + n2, PairRep(cur, n, back))} ELSE {}

CharRepTargets(cur, q, d) ==
  LET n2 == SecondLen(cur, q, 0, d)
  IN  IF n2 >= 2 THEN {Target(cur + 1 + n2, CharRep(cur))} ELSE {}

RepTargets(cur, q, reps, repLens) ==
  UNION {{Target(cur + n, Entry(cur, i)) : n \in 2..repLens[i]}
         \cup IF repLens[i] >= 2 THEN PairTargets(cur, q, repLens[i], reps[i], i) ELSE {}
         : i \in Reps}

\* report cut to newLen bytes.
Truncated(report, newLen) ==
  LET k == FirstOf(report, newLen)
  IN  [SubSeq(report, 1, k) EXCEPT ![k].len = newLen]

MatchTargets(cur, q, report, startLen) ==
  {Target(cur + n, Entry(cur, DistanceFor(report, n) + NumReps)) :
     n \in startLen..(IF report = << >> THEN 0 ELSE Last(report).len)}
  \cup UNION {PairTargets(cur, q, m.len, m.dist, m.dist + NumReps) :
                m \in {report[i] : i \in {j \in DOMAIN report : report[j].len >= startLen}}}

\* Every way the entries after cur can be improved.
Relax(cur, q, report) ==
  LET here  == context'[cur]
      full  == AvailableFull(cur, q)
      avail == Least(full, FastBytes)
      same  == ByteBack(q, -1) = ByteBack(q, -here.reps[0] - 2)
      repLens == [i \in Reps |-> MatchLen(q, -1, here.reps[i], avail)]
      startLen == IF repLens[0] >= 2 THEN repLens[0] + 1 ELSE 2
      cut   == IF report # << >> /\ Last(report).len > avail
               THEN Truncated(report, avail) ELSE report
      further == RepTargets(cur, q, here.reps, repLens) \cup MatchTargets(cur, q, cut, startLen)
      lenEnd == Most(DOMAIN optimum)
  IN  \E next \in NextChoices(cur, same) :
        LET opt == [optimum EXCEPT ![cur + 1] = next.entry]
            C   == further \cup IF ~next.isChar /\ ~same
                                THEN CharRepTargets(cur, q, here.reps[0]) ELSE {}
        IN  IF full < 2 THEN optimum' = opt
            ELSE optimum' \in Relaxed(opt, C, cur + 2, Furthest(lenEnd, C))

\* The turn that comes to the furthest place reached.
EndSearch ==
  LET cur == Cardinality(DOMAIN context)
  IN  /\ searching /\ cur = Most(DOMAIN optimum)
      /\ TakePath(cur, at, additionalOffset)
      /\ UNCHANGED <<matches, longestMatchLen>>

\* Another turn, unless a match is found that is taken at once: it is kept for
\* the next getOptimum.
Search ==
  LET cur == Cardinality(DOMAIN context)
      q   == at + 1
  IN  /\ searching /\ cur < Most(DOMAIN optimum)
      /\ \E report \in Reports :
           LET newLen == Longest(q, report)
           IN  \/ /\ newLen >= FastBytes
                  /\ matches' = report /\ longestMatchLen' = newLen
                  /\ TakePath(cur, q, additionalOffset + 1)
               \/ /\ newLen < FastBytes
                  /\ context' = Extended(context, cur, ContextAt(cur))
                  /\ Relax(cur, q, report)
                  /\ at' = q /\ additionalOffset' = additionalOffset + 1
                  /\ UNCHANGED <<coderVars, matches, longestMatchLen,
                                 endIndex, curIndex, searching>>

Next == FirstByte \/ NextOfPath \/ Begin \/ EndSearch \/ Search \/ Flush

Spec == Init /\ [][Next]_vars
-----------------------------------------------------------------------------
\* Whatever the prices are, what codeOneBlock codes is a parse of the input:
\* each packet repeats bytes that are there, at distances within the dictionary
\* or among the last four, and the stream ends when all of it has been coded.
\* This is what PacketCodec takes for granted of the encoder.
ImplementsParse == Parse!ParseSpec

\* The state and the repeat distances to which the packets lead that
\* codeOneBlock takes from the path in opt to `end'.
Replay(opt, end, start) ==
  LET taken[n \in 0..end] ==
        IF n = 0 THEN [place |-> 0, context |-> start]
        ELSE LET t == taken[n - 1]
                 e == opt[t.place]
             IN  IF t.place = end THEN t
                 ELSE [place |-> e.posPrev,
                       context |-> AfterPacket(t.context, e.posPrev - t.place, e.backPrev)]
  IN  taken[end].context

\* The state and the repeat distances by which getOptimum prices what follows a
\* place, and with which it asks for repeats there, are those codeOneBlock has
\* when it gets there by the path that backward would lay out.
PricesWhatIsCoded ==
  searching => LET cur == Cardinality(DOMAIN context) - 1
               IN  cur > 0 => Replay(Backward(cur), cur, context[0]) = context[cur]

\* No place beyond the table is reached, and no length is priced for which the
\* length coder keeps no price: it has them up to FastBytes.
StaysInTables ==
  searching => \A i \in DOMAIN optimum :
                 LET e == optimum[i]
                 IN  /\ i < NumOpts
                     /\ i > 0 /\ e # Infinite =>
                          /\ i - e.posPrev <= FastBytes
                          /\ e.prev1IsChar /\ e.prev2 => e.posPrev - 1 - e.posPrev2 <= FastBytes
=============================================================================
