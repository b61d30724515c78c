---------------------------- MODULE MatchFinder ----------------------------
(***************************************************************************)
(* What the match finder promises the parser, without trees and tables:    *)
(* asked at each position of the input in turn, it reports some of the     *)
(* repeats of what has gone before, or is told to pass over the position.  *)
(* How many it reports, and which, is its own business; but each one is    *)
(* real, is within the dictionary and does not reach beyond the input, and *)
(* each is longer than the one before it: readMatchDistances takes the     *)
(* last one for the longest, and getOptimum steps from length to length.   *)
(***************************************************************************)
EXTENDS Integers, Sequences

CONSTANTS DictSize,  \* historySize
          MaxMatch   \* matchMaxLen: fastBytes

VARIABLES input,     \* the whole of it
          at,        \* bytes passed: the next position is input[at + 1]
          found      \* the report on the last one, shortest match first

vars == <<input, at, found>>

\* The n bytes from position p + 1 on are those that lie d + 1 before them.
RepeatsAt(p, d, n) ==
  /\ d < p /\ p + n <= Len(input)
  /\ \A i \in 1..n : input[p + i] = input[p + i - d - 1]

Legal(report) ==
  /\ \A i \in 1..Len(report) :
       /\ report[i].len \in 2..MaxMatch
       /\ report[i].dist \in 0..(DictSize - 1)
       /\ RepeatsAt(at, report[i].dist, report[i].len)
  /\ \A i, j \in 1..Len(report) : i < j => report[i].len < report[j].len

Init == at = 0 /\ found = << >>

Pass == /\ at < Len(input) /\ at' = at + 1
        /\ Legal(found')
        /\ UNCHANGED input

Next == Pass

Spec == Init /\ [][Next]_vars
=============================================================================
