----------------------------- MODULE LzHistory -----------------------------
(***************************************************************************)
(* What the output window of the decoder promises, without a window: the   *)
(* decoded stream is an unbounded sequence; a repeat of `length' bytes at  *)
(* `distance' appends, one byte at a time, the byte that lies distance + 1 *)
(* positions before the end of the stream, so that it may read bytes the   *)
(* same repeat has just appended; and what the writer has received is at   *)
(* every moment a prefix of that stream, all of it when decoding ends      *)
(* without an error.                                                       *)
(***************************************************************************)
EXTENDS Integers, Sequences

CONSTANT Byte        \* the values of a decoded byte

VARIABLES history,   \* every byte decoded so far
          distance,  \* of the repeat in progress
          length,    \* bytes that repeat has still to append
          sink,      \* what the writer has received
          phase      \* "run", "done" or "thrown"

vars == <<history, distance, length, sink, phase>>

IsPrefixOf(s, t) == /\ Len(s) <= Len(t)
                    /\ \A i \in 1..Len(s) : s[i] = t[i]

Init == /\ history = << >> /\ sink = << >>
        /\ distance = 0 /\ length = 0
        /\ phase = "run"

\* The writer receives some more of the stream, perhaps nothing; it may fail.
Deliver == /\ Len(sink') >= Len(sink)
           /\ IsPrefixOf(sink', history')
           /\ phase' \in {"run", "thrown"}

Literal == /\ phase = "run" /\ length = 0
           /\ \E b \in Byte : history' = Append(history, b)
           /\ Deliver
           /\ UNCHANGED <<distance, length>>

StartRepeat == /\ phase = "run" /\ length = 0
               /\ distance' \in 0..(Len(history) - 1)
               /\ length' \in Nat
               /\ UNCHANGED <<history, sink, phase>>

RepeatByte == /\ phase = "run" /\ length > 0
              /\ history' = Append(history, history[Len(history) - distance])
              /\ length' = length - 1
              /\ Deliver
              /\ UNCHANGED distance

Finish == /\ phase = "run" /\ length = 0
          /\ \/ phase' = "done" /\ sink' = history
             \/ /\ phase' = "thrown"
                /\ Len(sink') >= Len(sink)
                /\ IsPrefixOf(sink', history)
          /\ UNCHANGED <<history, distance, length>>

Next == Literal \/ StartRepeat \/ RepeatByte \/ Finish

Spec == Init /\ [][Next]_vars
=============================================================================
