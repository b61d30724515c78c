------------------------------ MODULE LzParse ------------------------------
(***************************************************************************)
(* The packets an encoder may choose, whatever it costs to code them: each *)
(* describes the next bytes of the input, as a literal or as bytes already *)
(* seen, and when no byte is left the stream ends. That is all that the    *)
(* optimal parser (Optimum) has to promise, and all that the packet layer  *)
(* (PacketCodec) relies on. What codeOneBlock (lzma_encoder.go) keeps from *)
(* packet to packet follows from the packets.                              *)
(***************************************************************************)
EXTENDS Integers, Sequences, SequencesExt

CONSTANTS Byte,         \* the values of a byte, 0 among them
          DictSize,     \* 1 << cl.dictSize
          MaxLen,       \* kMatchMaxLen
          MaxInput      \* bound: bytes encoded

MinLen == 2             \* kMatchMinLen
ASSUME ParseAssumption ==
  /\ 0 \in Byte /\ Byte \subseteq Nat
  /\ DictSize \in Nat \ {0} /\ MaxInput \in Nat
  /\ MaxLen \in Nat /\ MaxLen >= MinLen

VARIABLES input,    \* what the caller of Writer writes
          size,     \* what the header says: its length, or -1
          enc,      \* of the encoder: state, reps (repDistances), prev
                    \* (prevByte) and pos (nowPos)
          ended     \* encoder.flush has been called

encVars == <<input, size, enc, ended>>

Reps == 0..3

\* The automaton of the last packets: stateUpdateChar and its companions.
AfterLiteral(s) == CASE s < 4 -> 0 [] 4 <= s /\ s < 10 -> s - 3 [] OTHER -> s - 6
IsCharState(s) == s < 7
AfterMatch(s) == IF IsCharState(s) THEN 7 ELSE 10
AfterRep(s) == IF IsCharState(s) THEN 8 ELSE 11
AfterShortRep(s) == IF IsCharState(s) THEN 9 ELSE 11

Start == [state |-> 0, reps |-> [i \in Reps |-> 0], prev |-> 0, pos |-> 0]

ParseInit == /\ input \in Seq(Byte) /\ Len(input) <= MaxInput
             /\ size \in {-1, Len(input)}
             /\ enc = Start /\ ended = FALSE

\* n bytes of the input at nowPos are what lies d + 1 before them.
Repeats(d, n) == /\ d < enc.pos /\ enc.pos + n <= Len(input)
                 /\ \A i \in 1..n : input[enc.pos + i] = input[enc.pos + i - d - 1]

\* A packet of n bytes has been encoded: prevByte is the last of them.
Advance(n, state, reps) ==
  /\ ~ended
  /\ enc' = [state |-> state, reps |-> reps,
             prev |-> input[enc.pos + n], pos |-> enc.pos + n]
  /\ UNCHANGED <<input, size, ended>>

\* A literal; also the first byte, which codeOneBlock codes before its loop.
Literal == /\ enc.pos < Len(input)
           /\ Advance(1, AfterLiteral(enc.state), enc.reps)

\* length == 1 and pos == 0: one byte, at the last distance.
ShortRep == /\ Repeats(enc.reps[0], 1)
            /\ Advance(1, AfterShortRep(enc.state), enc.reps)

\* The loop over repDistances: the one repeated goes to the front.
ToFront(reps, k) == [i \in Reps |-> CASE i = 0 -> reps[k]
                                    [] 0 < i /\ i <= k -> reps[i - 1]
                                    [] OTHER -> reps[i]]

Rep(k, n) == /\ Repeats(enc.reps[k], n)
             /\ Advance(n, AfterRep(enc.state), ToFront(enc.reps, k))

\* The loop over repDistances when the distance is a new one.
Pushed(reps, d) == [i \in Reps |-> IF i = 0 THEN d ELSE reps[i - 1]]

\* A match the match finder found: within the dictionary.
Match(d, n) == /\ Repeats(d, n) /\ d < DictSize
               /\ Advance(n, AfterMatch(enc.state), Pushed(enc.reps, d))

\* flush, at the end of the input: with an unknown size a match marks the end.
Flush == /\ ~ended /\ enc.pos = Len(input)
         /\ ended' = TRUE
         /\ enc' = IF size = -1 THEN [enc EXCEPT !.state = AfterMatch(@)] ELSE enc
         /\ UNCHANGED <<input, size>>

Lengths == MinLen..MaxLen
Distances == 0..(MaxInput - 1)

ParseNext == \/ Literal \/ ShortRep
             \/ \E k \in Reps, n \in Lengths : Rep(k, n)
             \/ \E d \in Distances, n \in Lengths : Match(d, n)
             \/ Flush

ParseSpec == ParseInit /\ [][ParseNext]_encVars
=============================================================================
