--------------------------- MODULE OptimumProofs ---------------------------
(***************************************************************************)
(* Proofs about Optimum, for every input, dictionary, fastBytes, greatest  *)
(* length and size of the table, whatever any comparison of prices gives:  *)
(* what codeOneBlock codes is a parse of the input, every place is priced  *)
(* with the state it is coded in, and no table is left.                    *)
(*                                                                         *)
(* A packet that fits (Fits) leads from one context to the next. The table *)
(* the search keeps is sound (Table) when each entry leads to its place by *)
(* packets that fit from an earlier context; backward makes of it a way    *)
(* (Way), packet by packet, and what is left of a way is what codeOneBlock *)
(* has still to take.                                                      *)
(***************************************************************************)
EXTENDS Optimum, FiniteSetTheorems, WellFoundedInduction, TLAPS

(***************************************************************************)
(* Numbers, sets of them, and functions.                                   *)
(***************************************************************************)
\* A set of numbers that is not empty has a least one: induction, for the provers.
LEMMA Least1 ==
  ASSUME NEW T, T \subseteq Nat, T # {}
  PROVE  \E x \in T : \A y \in T : x <= y
<1>1. PICK x \in T : \A y \in T : ~ (<<y, x>> \in OpToRel(<, Nat))
  BY NatLessThanWellFounded, WFMin
<1>2. \A y \in T : ~(y < x)
  BY <1>1 DEF OpToRel
<1> QED
  BY <1>2

LEMMA UpTo ==
  ASSUME NEW n \in Nat, NEW T, 0 \in T, \A i \in 1..n : i - 1 \in T => i \in T
  PROVE  0..n \subseteq T
<1> DEFINE U == {i \in 0..n : i \notin T}
<1>1. ASSUME U # {} PROVE FALSE
  <2>1. PICK x \in U : \A y \in U : x <= y
    <3>1. U \subseteq Nat
      OBVIOUS
    <3> HIDE DEF U
    <3> QED
      BY <1>1, <3>1, Least1
  <2>2. x \in 1..n /\ x - 1 \in 0..n /\ x \notin T
    OBVIOUS
  <2>3. x - 1 \in T
    BY <2>1, <2>2
  <2> QED
    BY <2>2, <2>3
<1> QED
  BY <1>1

\* A set of numbers with a bound has a greatest.
LEMMA MostIs ==
  ASSUME NEW S, S \subseteq Nat, S # {}, NEW bound \in Nat, \A x \in S : x <= bound
  PROVE  Most(S) \in S /\ \A x \in S : x <= Most(S)
<1> DEFINE T == {n \in Nat : \A x \in S : x <= n}
<1>1. PICK n \in T : \A m \in T : n <= m
  <2>1. T \subseteq Nat /\ bound \in T
    OBVIOUS
  <2> HIDE DEF T
  <2> QED
    BY <2>1, Least1
<1>2. n \in S
  <2> SUFFICES ASSUME n \notin S PROVE FALSE
    OBVIOUS
  <2>1. \A x \in S : x <= n - 1
    BY <1>1
  <2>2. n - 1 \in Nat
    <3>1. PICK x \in S : TRUE
      OBVIOUS
    <3>2. x \in Nat /\ x <= n - 1
      BY <2>1
    <3> QED
      BY <1>1, <3>2
  <2> QED
    BY <1>1, <2>1, <2>2
<1>3. \E x \in S : \A y \in S : y <= x
  BY <1>1, <1>2
<1> QED
  BY <1>3 DEF Most

LEMMA LeastIs ==
  ASSUME NEW a \in Int, NEW b \in Int
  PROVE  /\ Least(a, b) \in {a, b}
         /\ Least(a, b) <= a /\ Least(a, b) <= b
BY DEF Least

(***************************************************************************)
(* Packets. The input and the position they are at are parameters of what  *)
(* is said of them, so that it can be said of the next state too.          *)
(***************************************************************************)
\* n bytes after the first p of s are what lies d + 1 before them.
Repeated(s, p, d, n) == /\ d < p /\ p + n <= Len(s)
                        /\ \A i \in 1..n : s[p + i] = s[p + i - d - 1]

\* A packet codeOneBlock may code when it has coded p bytes.
Fits(s, p, n, back, c) ==
  \/ n = 1 /\ back = Char /\ p < Len(s)
  \/ n = 1 /\ back = 0 /\ Repeated(s, p, c.reps[0], 1)
  \/ n \in 2..MaxLen /\ back \in Reps /\ Repeated(s, p, c.reps[back], n)
  \/ n \in 2..MaxLen /\ back - NumReps \in 0..(DictSize - 1) /\ back \in Nat
     /\ Repeated(s, p, back - NumReps, n)

\* Every distance that may be repeated is one that there is.
Before(p) == 0..(p - 1)
Sound(c, p) == c.reps \in [Reps -> Before(p)]

LEMMA MatchLenIs ==
  ASSUME input \in Seq(Byte), NEW q \in Nat, NEW index \in Int, q + index \in Nat,
         q + index <= Len(input), NEW limit \in Nat, NEW d \in Nat, d < q + index
  PROVE  /\ MatchLen(q, index, d, limit) \in 0..limit
         /\ Repeated(input, q + index, d, MatchLen(q, index, d, limit))
<1> DEFINE most == Least(limit, Left(q) - index)
           same(n) == \A i \in 0..(n - 1) :
                        ByteBack(q, index + i) = ByteBack(q, index + i - d - 1)
           S == {n \in 0..most : same(n)}
           m == MatchLen(q, index, d, limit)
<1>1. Len(input) \in Nat
  OBVIOUS
<1>2. most \in Nat /\ most <= limit /\ q + index + most <= Len(input)
  <2>1. Left(q) - index \in Nat /\ q + index + (Left(q) - index) = Len(input)
    BY <1>1 DEF Left
  <2> DEFINE left == Left(q) - index
  <2>2. left \in Nat /\ q + index + left = Len(input)
    BY <2>1
  <2> HIDE DEF left
  <2>3. most = Least(limit, left)
    BY DEF left
  <2> QED
    BY ONLY <1>1, <2>2, <2>3, limit \in Nat, q \in Nat, index \in Int DEF Least
<1> HIDE DEF most
<1>3. 0 \in S /\ S \subseteq Nat /\ \A n \in S : n <= most
  BY <1>2
<1>4. m \in S
  <2>1. m = Most(S)
    BY DEF MatchLen, most
  <2> HIDE DEF S, m
  <2> QED
    BY <1>2, <1>3, <2>1, MostIs
<1> HIDE DEF m
<1>5. \A i \in 1..m : input[q + index + i] = input[q + index + i - d - 1]
  <2> SUFFICES ASSUME NEW i \in 1..m
               PROVE  input[q + index + i] = input[q + index + i - d - 1]
    OBVIOUS
  <2>1. m \in Nat /\ same(m)
    BY <1>4
  <2>2. i - 1 \in 0..(m - 1)
    BY <2>1
  <2>3. ByteBack(q, index + (i - 1)) = ByteBack(q, index + (i - 1) - d - 1)
    BY <2>1, <2>2
  <2>4. q + 1 + (index + (i - 1)) = q + index + i
        /\ q + 1 + (index + (i - 1) - d - 1) = q + index + i - d - 1
    BY <2>2
  <2> QED
    BY <2>3, <2>4 DEF ByteBack
<1>6. m \in Nat /\ m <= most
  BY <1>4
<1> QED
  BY <1>1, <1>2, <1>5, <1>6 DEF Repeated, m

\* Fewer bytes are repeated too.
LEMMA RepeatedLess ==
  ASSUME NEW s, NEW p \in Nat, NEW d \in Int, NEW n \in Nat, NEW m \in Nat, m <= n,
         Len(s) \in Nat, Repeated(s, p, d, n)
  PROVE  Repeated(s, p, d, m)
<1>1. \A i \in 1..m : i \in 1..n
  OBVIOUS
<1>2. d < p /\ p + n <= Len(s)
      /\ \A i \in 1..n : s[p + i] = s[p + i - d - 1]
  BY Zenon DEF Repeated
<1>3. p + m <= Len(s)
  BY <1>2
<1>4. \A i \in 1..m : s[p + i] = s[p + i - d - 1]
  BY <1>1, <1>2, Zenon
<1> QED
  BY <1>2, <1>3, <1>4, Zenon DEF Repeated

\* What a packet does to state and repeat distances, by its kind.
LEMMA FourReps == Reps = 0..3 /\ 0 \in Reps /\ Char = -1 /\ NumReps = 4
BY DEF Reps, Parse!Reps, Char, NumReps

LEMMA ToFrontSame ==
  ASSUME NEW S, NEW f \in [Reps -> S]
  PROVE  Parse!ToFront(f, 0) = f
<1>1. \A i \in Reps : (CASE i = 0 -> f[0] [] 0 < i /\ i <= 0 -> f[i - 1] [] OTHER -> f[i]) = f[i]
  BY FourReps
<1>2. Parse!ToFront(f, 0) = [i \in Reps |-> f[i]]
  BY <1>1 DEF Parse!ToFront, Reps
<1> QED
  BY <1>2

LEMMA AfterIs ==
  ASSUME NEW p \in Nat, NEW c, Sound(c, p), NEW n \in Nat, n >= 2
  PROVE  /\ AfterPacket(c, 1, Char) = [state |-> Parse!AfterLiteral(c.state), reps |-> c.reps]
         /\ AfterPacket(c, 1, 0) = [state |-> Parse!AfterShortRep(c.state), reps |-> c.reps]
         /\ \A back \in Reps :
              AfterPacket(c, n, back) = [state |-> Parse!AfterRep(c.state),
                                         reps  |-> Parse!ToFront(c.reps, back)]
         /\ \A back \in Nat : back \notin Reps =>
              AfterPacket(c, n, back) = [state |-> Parse!AfterMatch(c.state),
                                         reps  |-> Parse!Pushed(c.reps, back - NumReps)]
<1>1. AfterPacket(c, 1, Char) = [state |-> Parse!AfterLiteral(c.state), reps |-> c.reps]
  BY FourReps DEF AfterPacket
<1>2. AfterPacket(c, 1, 0) = [state |-> Parse!AfterShortRep(c.state), reps |-> c.reps]
  <2>1. Parse!ToFront(c.reps, 0) = c.reps
    BY ToFrontSame DEF Sound
  <2> QED
    BY FourReps, <2>1 DEF AfterPacket
<1>3. ASSUME NEW back \in Reps
      PROVE  AfterPacket(c, n, back) = [state |-> Parse!AfterRep(c.state),
                                        reps  |-> Parse!ToFront(c.reps, back)]
  BY FourReps DEF AfterPacket
<1>4. ASSUME NEW back \in Nat, back \notin Reps
      PROVE  AfterPacket(c, n, back) = [state |-> Parse!AfterMatch(c.state),
                                        reps  |-> Parse!Pushed(c.reps, back - NumReps)]
  <2>1. back # Char /\ n # 1
    BY FourReps
  <2> QED
    BY <1>4, <2>1 DEF AfterPacket
<1> QED
  BY <1>1, <1>2, <1>3, <1>4

LEMMA MovedReps ==
  ASSUME NEW p \in Nat, NEW f \in [Reps -> Before(p)], NEW q \in Nat, p <= q
  PROVE  /\ f \in [Reps -> Before(q)]
         /\ \A k \in Reps : Parse!ToFront(f, k) \in [Reps -> Before(q)]
         /\ \A d \in Before(q) : Parse!Pushed(f, d) \in [Reps -> Before(q)]
<1>1. \A i \in Reps : f[i] \in Before(q)
  BY DEF Before
<1>2. f \in [Reps -> Before(q)]
  BY <1>1
<1>3. ASSUME NEW k \in Reps PROVE Parse!ToFront(f, k) \in [Reps -> Before(q)]
  <2>1. \A i \in Reps : 0 < i => i - 1 \in Reps
    BY FourReps
  <2>2. \A i \in Reps : (CASE i = 0 -> f[k] [] 0 < i /\ i <= k -> f[i - 1] [] OTHER -> f[i])
                        \in Before(q)
    BY <1>1, <2>1
  <2> QED
    BY <2>2 DEF Parse!ToFront, Reps
<1>4. ASSUME NEW d \in Before(q) PROVE Parse!Pushed(f, d) \in [Reps -> Before(q)]
  <2>1. \A i \in Reps : i # 0 => i - 1 \in Reps
    BY FourReps
  <2>2. \A i \in Reps : (IF i = 0 THEN d ELSE f[i - 1]) \in Before(q)
    BY <1>1, <2>1
  <2> QED
    BY <2>2 DEF Parse!Pushed, Reps
<1> QED
  BY <1>2, <1>3, <1>4

LEMMA FitsIs ==
  ASSUME NEW s, Len(s) \in Nat, NEW p \in Nat \ {0}, NEW n, NEW back, NEW c, Sound(c, p),
         Fits(s, p, n, back, c)
  PROVE  /\ n \in Nat \ {0} /\ p + n <= Len(s) /\ back \in Int
         /\ Sound(AfterPacket(c, n, back), p + n)
<1> USE FourReps
<1>0. c.reps \in [Reps -> Before(p)]
  BY DEF Sound
<1>1. CASE n = 1 /\ back = Char /\ p < Len(s)
  <2>1. AfterPacket(c, 1, Char).reps = c.reps
    BY AfterIs, 2 \in Nat /\ 2 >= 2
  <2>2. p + 1 \in Nat /\ p <= p + 1 /\ p + 1 <= Len(s)
    BY <1>1
  <2>3. Sound(AfterPacket(c, 1, Char), p + 1)
    BY <1>0, <2>1, <2>2, MovedReps DEF Sound
  <2> QED
    BY <1>1, <2>2, <2>3
<1>2. CASE n = 1 /\ back = 0 /\ Repeated(s, p, c.reps[0], 1)
  <2>1. AfterPacket(c, 1, 0).reps = c.reps
    BY AfterIs, 2 \in Nat /\ 2 >= 2
  <2>2. p + 1 \in Nat /\ p <= p + 1 /\ p + 1 <= Len(s)
    BY <1>2 DEF Repeated
  <2>3. Sound(AfterPacket(c, 1, 0), p + 1)
    BY <1>0, <2>1, <2>2, MovedReps DEF Sound
  <2> QED
    BY <1>2, <2>2, <2>3
<1>3. CASE n \in 2..MaxLen /\ back \in Reps /\ Repeated(s, p, c.reps[back], n)
  <2>1. n \in Nat /\ n >= 2 /\ p + n \in Nat /\ p <= p + n
    BY <1>3, OptimumAssumption
  <2>2. AfterPacket(c, n, back).reps = Parse!ToFront(c.reps, back)
    BY <1>3, <2>1, AfterIs
  <2>3. p + n <= Len(s)
    BY <1>3 DEF Repeated
  <2> QED
    BY <1>0, <1>3, <2>1, <2>2, <2>3, MovedReps DEF Sound
<1>4. CASE n \in 2..MaxLen /\ back - NumReps \in 0..(DictSize - 1) /\ back \in Nat
           /\ Repeated(s, p, back - NumReps, n)
  <2>1. n \in Nat /\ n >= 2 /\ p + n \in Nat /\ p <= p + n /\ back \notin Reps
    BY <1>4, OptimumAssumption
  <2>2. AfterPacket(c, n, back).reps = Parse!Pushed(c.reps, back - NumReps)
    BY <1>4, <2>1, AfterIs
  <2>3. back - NumReps \in Before(p + n) /\ p + n <= Len(s)
    BY <1>4, <2>1 DEF Repeated, Before
  <2> QED
    BY <1>0, <1>4, <2>1, <2>2, <2>3, MovedReps DEF Sound
<1> QED
  BY <1>1, <1>2, <1>3, <1>4 DEF Fits

(***************************************************************************)
(* Paths. A way in opt goes from place to place by what posPrev and        *)
(* backPrev say once backward has turned them round; ctx is what state and *)
(* repeat distances are at its places P.                                   *)
(***************************************************************************)
Way(s, base, opt, P, ctx, from, end) ==
  /\ from \in P /\ end \in P /\ P \subseteq from..end
  /\ \A p \in P : Sound(ctx[p], base + p)
  /\ \A p \in P : p # end =>
       /\ opt[p].posPrev \in P /\ p < opt[p].posPrev
       /\ Fits(s, base + p, opt[p].posPrev - p, opt[p].backPrev, ctx[p])
       /\ ctx[opt[p].posPrev] = AfterPacket(ctx[p], opt[p].posPrev - p, opt[p].backPrev)

\* A packet before the first of a way.
LEMMA WayLonger ==
  ASSUME NEW s, NEW base \in Nat, NEW opt, NEW P, NEW ctx, NEW from \in Nat, NEW end \in Nat,
         Way(s, base, opt, P, ctx, from, end),
         NEW m \in Nat, m < from, NEW c, NEW back, NEW opt2,
         \A j \in from..end : opt2[j] = opt[j],
         opt2[m].posPrev = from, opt2[m].backPrev = back,
         Sound(c, base + m), Fits(s, base + m, from - m, back, c),
         ctx[from] = AfterPacket(c, from - m, back),
         NEW ctx2, ctx2 = [p \in P \cup {m} |-> IF p = m THEN c ELSE ctx[p]]
  PROVE  Way(s, base, opt2, P \cup {m}, ctx2, m, end)
<1> DEFINE Q == P \cup {m}
<1>1. from \in P /\ end \in P /\ P \subseteq from..end /\ m \notin P
  BY DEF Way
<1>2. m \in Q /\ end \in Q /\ Q \subseteq m..end /\ m # end
  BY <1>1
<1>3. ctx2[m] = c /\ \A p \in P : ctx2[p] = ctx[p]
  BY <1>1
<1>4. \A p \in Q : Sound(ctx2[p], base + p)
  BY <1>3 DEF Way
<1>5. ASSUME NEW p \in Q, p # end
      PROVE  /\ opt2[p].posPrev \in Q /\ p < opt2[p].posPrev
             /\ Fits(s, base + p, opt2[p].posPrev - p, opt2[p].backPrev, ctx2[p])
             /\ ctx2[opt2[p].posPrev]
                  = AfterPacket(ctx2[p], opt2[p].posPrev - p, opt2[p].backPrev)
  <2>1. CASE p = m
    BY <1>1, <1>3, <2>1
  <2>2. CASE p \in P
    <3>1. opt2[p] = opt[p] /\ ctx2[p] = ctx[p]
      BY <1>1, <1>3, <2>2
    <3>2. /\ opt[p].posPrev \in P /\ p < opt[p].posPrev
          /\ Fits(s, base + p, opt[p].posPrev - p, opt[p].backPrev, ctx[p])
          /\ ctx[opt[p].posPrev] = AfterPacket(ctx[p], opt[p].posPrev - p, opt[p].backPrev)
      BY <1>5, <2>2 DEF Way
    <3> QED
      BY <1>3, <3>1, <3>2
  <2> QED
    BY <2>1, <2>2
<1> HIDE DEF Q
<1>6. Way(s, base, opt2, Q, ctx2, m, end)
  BY <1>2, <1>4, <1>5 DEF Way
<1> QED
  BY <1>6 DEF Q

\* The rest of a way after its first packet.
LEMMA WayRest ==
  ASSUME NEW s, NEW base \in Nat, NEW opt, NEW P, NEW ctx, NEW from \in Nat, NEW end \in Nat,
         Way(s, base, opt, P, ctx, from, end), from # end,
         NEW next, next = opt[from].posPrev
  PROVE  /\ next \in (from + 1)..end
         /\ \E Q : Way(s, base, opt, Q, ctx, next, end)
<1> DEFINE Q == {p \in P : next <= p}
<1>1. from \in P /\ end \in P /\ P \subseteq from..end
  BY DEF Way
<1>2. next \in P /\ from < next
  BY <1>1 DEF Way
<1>n. next \in (from + 1)..end /\ \A p \in P : p \in from..end
  <2>1. \A p \in P : p \in from..end
    BY <1>1, Zenon
  <2>2. next \in from..end
    BY <1>2, <2>1, Zenon
  <2>3. next \in (from + 1)..end
    BY ONLY <1>2, <2>2, from \in Nat, end \in Nat
  <2> QED
    BY <2>1, <2>3
<1>3. next \in Q /\ end \in Q /\ Q \subseteq next..end /\ Q \subseteq P
  <2>1. next \in Q /\ end \in Q
    BY <1>1, <1>2, <1>n
  <2>2. ASSUME NEW p \in Q PROVE p \in next..end /\ p \in P
    <3>1. p \in P /\ next <= p
      BY <2>2
    <3>2. p \in from..end
      BY <1>n, <3>1
    <3> QED
      BY ONLY <1>n, <3>1, <3>2, from \in Nat, end \in Nat
  <2> QED
    BY <2>1, <2>2, Zenon
<1>4. ASSUME NEW p \in Q, p # end
      PROVE  /\ opt[p].posPrev \in Q /\ p < opt[p].posPrev
             /\ Fits(s, base + p, opt[p].posPrev - p, opt[p].backPrev, ctx[p])
             /\ ctx[opt[p].posPrev] = AfterPacket(ctx[p], opt[p].posPrev - p, opt[p].backPrev)
  <2>1. p \in P /\ next <= p
    BY <1>4
  <2>2. /\ opt[p].posPrev \in P /\ p < opt[p].posPrev
        /\ Fits(s, base + p, opt[p].posPrev - p, opt[p].backPrev, ctx[p])
        /\ ctx[opt[p].posPrev] = AfterPacket(ctx[p], opt[p].posPrev - p, opt[p].backPrev)
    BY <1>4, <2>1 DEF Way
  <2>3. next <= opt[p].posPrev
    BY <1>n, <2>1, <2>2
  <2> QED
    BY <2>2, <2>3
<1>5. \A p \in Q : Sound(ctx[p], base + p)
  BY <1>3 DEF Way
<1> HIDE DEF Q
<1>6. Way(s, base, opt, Q, ctx, next, end)
  BY <1>3, <1>4, <1>5 DEF Way
<1> QED
  BY <1>n, <1>6

(***************************************************************************)
(* backward.                                                               *)
(***************************************************************************)
Entries == [posPrev : Int, backPrev : Int, prev1IsChar : BOOLEAN, prev2 : BOOLEAN,
            posPrev2 : Int, backPrev2 : Int]

LEMMA EntryIs ==
  ASSUME NEW from \in Int, NEW back \in Int
  PROVE  LET e == Entry(from, back)
         IN  /\ e \in Entries /\ e.posPrev = from /\ e.backPrev = back
             /\ ~e.prev1IsChar /\ ~e.prev2
BY DEF Entries, Entry

LEMMA CharRepIs ==
  ASSUME NEW from \in Int
  PROVE  LET e == CharRep(from)
         IN  /\ e \in Entries /\ e.posPrev = from + 1 /\ e.backPrev = 0
             /\ e.prev1IsChar /\ ~e.prev2
<1> DEFINE old == Entry(from + 1, 0)
<1>1. /\ old \in Entries /\ old.posPrev = from + 1 /\ old.backPrev = 0
      /\ ~old.prev1IsChar /\ ~old.prev2
  BY EntryIs
<1>2. CharRep(from) = [old EXCEPT !.prev1IsChar = TRUE]
  BY DEF CharRep
<1> HIDE DEF old
<1> QED
  BY <1>1, <1>2 DEF Entries

LEMMA PairRepIs ==
  ASSUME NEW from \in Int, NEW back \in Int, NEW n \in Int
  PROVE  LET e == PairRep(from, n, back)
         IN  /\ e \in Entries /\ e.posPrev = from + n + 1 /\ e.backPrev = 0
             /\ e.prev1IsChar /\ e.prev2 /\ e.posPrev2 = from /\ e.backPrev2 = back
<1> DEFINE old == Entry(from + n + 1, 0)
<1>1. /\ old \in Entries /\ old.posPrev = from + n + 1 /\ old.backPrev = 0
  BY EntryIs
<1>2. PairRep(from, n, back) = [old EXCEPT !.prev1IsChar = TRUE, !.prev2 = TRUE,
                                           !.posPrev2 = from, !.backPrev2 = back]
  BY DEF PairRep
<1> HIDE DEF old
<1> QED
  BY <1>1, <1>2 DEF Entries

LEMMA InfiniteIs == Infinite \in Entries
BY EntryIs, FourReps DEF Infinite

Relink(e, from, back) == [e EXCEPT !.posPrev = from, !.backPrev = back]

LEMMA Relinked ==
  ASSUME NEW e \in Entries, NEW from \in Int, NEW back \in Int
  PROVE  LET new == Relink(e, from, back)
         IN  /\ new \in Entries /\ new.posPrev = from /\ new.backPrev = back
             /\ new.prev1IsChar = e.prev1IsChar /\ new.prev2 = e.prev2
             /\ new.posPrev2 = e.posPrev2 /\ new.backPrev2 = e.backPrev2
BY DEF Entries, Relink

\* What a turn leaves, for each kind of entry it is at.
LEMMA TurnPlain ==
  ASSUME NEW end \in Nat, NEW b, b.opt \in [0..end -> Entries],
         b.cur \in 0..end, b.posMem \in 0..end, b.backMem \in Int,
         ~b.opt[b.cur].prev1IsChar,
         NEW r, r = BackTurn(b)
  PROVE  /\ r.opt \in [0..end -> Entries]
         /\ r.cur = b.posMem
         /\ r.posMem = b.opt[b.posMem].posPrev /\ r.backMem = b.opt[b.posMem].backPrev
         /\ \A j \in 0..end : j # b.posMem => r.opt[j] = b.opt[j]
         /\ r.opt[b.posMem] = Relink(b.opt[b.posMem], b.cur, b.backMem)
<1> DEFINE m == b.posMem
           e == b.opt[m]
           new == Relink(e, b.cur, b.backMem)
           opt == [b.opt EXCEPT ![m].backPrev = b.backMem, ![m].posPrev = b.cur]
<1>1. r = [opt |-> opt, cur |-> m, posMem |-> e.posPrev, backMem |-> e.backPrev]
  BY DEF BackTurn
<1>2. e \in Entries
  OBVIOUS
<1>3. new \in Entries
  <2>1. b.cur \in Int
    OBVIOUS
  <2> QED
    BY <1>2, <2>1, Relinked
<1>4. opt = [b.opt EXCEPT ![m] = new]
  BY <1>2 DEF Entries, Relink
<1> HIDE DEF new
<1>5. opt \in [0..end -> Entries] /\ opt[m] = new /\ \A j \in 0..end : j # m => opt[j] = b.opt[j]
  BY <1>3, <1>4
<1> HIDE DEF opt
<1> QED
  BY <1>1, <1>5 DEF new

LEMMA TurnChar ==
  ASSUME NEW end \in Nat, NEW b, b.opt \in [0..end -> Entries],
         b.cur \in 0..end, b.posMem \in 1..end, b.backMem \in Int, b.posMem # b.cur,
         b.opt[b.cur].prev1IsChar, ~b.opt[b.cur].prev2,
         NEW r, r = BackTurn(b)
  PROVE  /\ r.opt \in [0..end -> Entries]
         /\ r.cur = b.posMem
         /\ r.posMem = b.posMem - 1 /\ r.backMem = Char
         /\ \A j \in 0..end : j # b.posMem => r.opt[j] = b.opt[j]
         /\ ~r.opt[b.posMem].prev1IsChar
         /\ r.opt[b.posMem].posPrev = b.cur /\ r.opt[b.posMem].backPrev = b.backMem
<1> DEFINE m == b.posMem
           old == Entry(m - 1, Char)
           new == Relink(old, b.cur, b.backMem)
           o1  == [b.opt EXCEPT ![m] = old]
           opt == [o1 EXCEPT ![m].backPrev = b.backMem, ![m].posPrev = b.cur]
<1>c. b.cur \in Int
  OBVIOUS
<1>1. r = [opt |-> opt, cur |-> m, posMem |-> o1[m].posPrev, backMem |-> o1[m].backPrev]
  BY DEF BackTurn
<1>2. old \in Entries /\ old.posPrev = m - 1 /\ old.backPrev = Char /\ ~old.prev1IsChar
  BY FourReps, SMTT(30) DEF Entry, Entries
<1> HIDE DEF old
<1>3. /\ new \in Entries /\ ~new.prev1IsChar
      /\ new.posPrev = b.cur /\ new.backPrev = b.backMem
  BY <1>2, <1>c, Relinked
<1>4. o1 \in [0..end -> Entries] /\ o1[m] = old /\ \A j \in 0..end : j # m => o1[j] = b.opt[j]
  BY <1>2
<1> HIDE DEF o1
<1>5. opt = [o1 EXCEPT ![m] = new]
  BY <1>2, <1>4 DEF Entries, Relink
<1> HIDE DEF new
<1>6. opt \in [0..end -> Entries] /\ opt[m] = new /\ \A j \in 0..end : j # m => opt[j] = b.opt[j]
  <2>1. m \in 0..end
    OBVIOUS
  <2> HIDE DEF opt, m
  <2> QED
    BY <1>3, <1>4, <1>5, <2>1
<1> HIDE DEF opt
<1> QED
  BY <1>1, <1>2, <1>3, <1>4, <1>6

LEMMA TurnPair ==
  ASSUME NEW end \in Nat, NEW b, b.opt \in [0..end -> Entries],
         b.cur \in 0..end, b.posMem \in 1..end, b.backMem \in Int, b.posMem < b.cur,
         b.opt[b.cur].prev1IsChar, b.opt[b.cur].prev2,
         NEW r, r = BackTurn(b)
  PROVE  /\ r.opt \in [0..end -> Entries]
         /\ r.cur = b.posMem
         /\ r.posMem = b.posMem - 1 /\ r.backMem = Char
         /\ \A j \in 0..end : j # b.posMem /\ j # b.posMem - 1 => r.opt[j] = b.opt[j]
         /\ ~r.opt[b.posMem].prev1IsChar
         /\ r.opt[b.posMem].posPrev = b.cur /\ r.opt[b.posMem].backPrev = b.backMem
         /\ ~r.opt[b.posMem - 1].prev1IsChar
         /\ r.opt[b.posMem - 1].posPrev = b.opt[b.cur].posPrev2
         /\ r.opt[b.posMem - 1].backPrev = b.opt[b.cur].backPrev2
<1> DEFINE m == b.posMem
           e == b.opt[b.cur]
           old == Entry(m - 1, Char)
           new == Relink(old, b.cur, b.backMem)
           below == [b.opt[m - 1] EXCEPT !.prev1IsChar = FALSE, !.posPrev = e.posPrev2,
                                         !.backPrev = e.backPrev2]
           o1  == [b.opt EXCEPT ![m] = old]
           o2  == [o1 EXCEPT ![m - 1].prev1IsChar = FALSE, ![m - 1].posPrev = e.posPrev2,
                             ![m - 1].backPrev = e.backPrev2]
           opt == [o2 EXCEPT ![m].backPrev = b.backMem, ![m].posPrev = b.cur]
<1>c. b.cur \in Int
  BY ONLY SMTT(30), b.cur \in 0..end, end \in Nat
<1>1. r = [opt |-> opt, cur |-> m, posMem |-> o2[m].posPrev, backMem |-> o2[m].backPrev]
  BY DEF BackTurn
<1>2. old \in Entries /\ old.posPrev = m - 1 /\ old.backPrev = Char /\ ~old.prev1IsChar
  BY FourReps, SMTT(30) DEF Entry, Entries
<1>m. m \in 1..end /\ m - 1 \in 0..end /\ m \in 0..end /\ m # m - 1 /\ e \in Entries
      /\ b.opt[m - 1] \in Entries
  OBVIOUS
<1> HIDE DEF old
<1>3. /\ new \in Entries /\ ~new.prev1IsChar
      /\ new.posPrev = b.cur /\ new.backPrev = b.backMem
  BY <1>2, <1>c, Relinked
<1>4. o1 \in [0..end -> Entries] /\ o1[m] = old /\ \A j \in 0..end : j # m => o1[j] = b.opt[j]
  BY <1>2
<1>5. /\ below \in Entries /\ ~below.prev1IsChar
      /\ below.posPrev = e.posPrev2 /\ below.backPrev = e.backPrev2
  BY <1>m DEF Entries
<1> HIDE DEF o1, e
<1>6. o2 = [o1 EXCEPT ![m - 1] = below]
  BY <1>m, <1>4 DEF Entries
<1> HIDE DEF below
<1>7. /\ o2 \in [0..end -> Entries] /\ o2[m] = old /\ o2[m - 1] = below
      /\ \A j \in 0..end : j # m /\ j # m - 1 => o2[j] = b.opt[j]
  <2> HIDE DEF o2, m
  <2> QED
    BY <1>m, <1>4, <1>5, <1>6
<1> HIDE DEF o2
<1>8. opt = [o2 EXCEPT ![m] = new]
  BY <1>2, <1>m, <1>7 DEF Entries, Relink
<1> HIDE DEF new
<1>9. /\ opt \in [0..end -> Entries] /\ opt[m] = new /\ opt[m - 1] = below
      /\ \A j \in 0..end : j # m /\ j # m - 1 => opt[j] = b.opt[j]
  BY <1>3, <1>m, <1>7, <1>8, ZenonT(30)
<1> HIDE DEF opt
<1> QED
  BY <1>1, <1>2, <1>3, <1>5, <1>7, <1>9 DEF e

(***************************************************************************)
(* What the entries of optimum stand for: the place they start from, the   *)
(* state and distances before their last packet, and those after it. A     *)
(* table is sound if every entry stands for packets that fit.              *)
(***************************************************************************)
Origin(e) == IF ~e.prev1IsChar THEN e.posPrev
             ELSE IF e.prev2 THEN e.posPrev2 ELSE e.posPrev - 1

Halfway(e, c) ==
  IF ~e.prev1IsChar THEN c
  ELSE AfterPacket(IF e.prev2 THEN AfterPacket(c, e.posPrev - 1 - e.posPrev2, e.backPrev2) ELSE c,
                   1, Char)

Arrived(i, e, c) == AfterPacket(Halfway(e, c), i - e.posPrev, e.backPrev)

Leads(s, base, i, e, c) ==
  /\ i - e.posPrev \in 1..FastBytes
  /\ Fits(s, base + e.posPrev, i - e.posPrev, e.backPrev, Halfway(e, c))
  /\ e.prev1IsChar => e.backPrev = 0 /\ i - e.posPrev >= 2 /\ Origin(e) < e.posPrev
  /\ e.prev1IsChar /\ e.prev2 =>
       /\ e.posPrev - 1 - e.posPrev2 \in 2..FastBytes
       /\ Fits(s, base + e.posPrev2, e.posPrev - 1 - e.posPrev2, e.backPrev2, c)

\* optimum up to `end', and the contexts of the places before cur.
Table(s, base, opt, end, ctxs, cur) ==
  /\ cur \in Nat \ {0} /\ end \in Nat /\ cur <= end /\ end < NumOpts
  /\ base \in Nat \ {0} /\ Len(s) \in Nat /\ base + end <= Len(s)
  /\ opt \in [0..end -> Entries]
  /\ \A i \in 1..end : opt[i] # Infinite =>
       /\ Origin(opt[i]) \in 0..(cur - 1)
       /\ Leads(s, base, i, opt[i], ctxs[Origin(opt[i])])
  /\ \A i \in 1..cur : opt[i] # Infinite
  /\ \A i \in 0..(cur - 1) : Sound(ctxs[i], base + i)
  /\ \A i \in 1..(cur - 1) : ctxs[i] = Arrived(i, opt[i], ctxs[Origin(opt[i])])

ContextOf(opt, ctxs, j) ==
  IF j = 0 THEN ctxs[0] ELSE Arrived(j, opt[j], ctxs[Origin(opt[j])])

(***************************************************************************)
(* The turns of backward, t being what it has after some of them: it is at *)
(* a place whose entry it has not looked at yet (Rested), or has taken an  *)
(* entry apart and has a packet of it left that starts where the entry     *)
(* does (Pending), or a literal and a packet before it (PendingPair).      *)
(***************************************************************************)
Kept(opt, t, n) == \A j \in Nat : j < n => t.opt[j] = opt[j]

Rested(opt, ctxs, t, ctx) ==
  /\ Kept(opt, t, t.cur)
  /\ ctx[t.cur] = ContextOf(opt, ctxs, t.cur)
  /\ t.cur > 0 =>
       /\ t.posMem = opt[t.cur].posPrev /\ t.backMem = opt[t.cur].backPrev
       /\ t.opt[t.cur].prev1IsChar = opt[t.cur].prev1IsChar
       /\ t.opt[t.cur].prev2 = opt[t.cur].prev2
       /\ t.opt[t.cur].posPrev2 = opt[t.cur].posPrev2
       /\ t.opt[t.cur].backPrev2 = opt[t.cur].backPrev2

Pending(s, base, opt, ctxs, cur, t, ctx) ==
  /\ t.posMem \in 0..(cur - 1) /\ t.posMem < t.cur
  /\ ~t.opt[t.cur].prev1IsChar
  /\ Kept(opt, t, t.cur)
  /\ Fits(s, base + t.posMem, t.cur - t.posMem, t.backMem, ctxs[t.posMem])
  /\ ctx[t.cur] = AfterPacket(ctxs[t.posMem], t.cur - t.posMem, t.backMem)

PendingPair(s, base, opt, ctxs, cur, t, ctx) ==
  LET m == t.cur - 1
      e == t.opt[m]
  IN  /\ t.posMem = m /\ t.backMem = Char /\ m > 0
      /\ ~t.opt[t.cur].prev1IsChar /\ ~e.prev1IsChar
      /\ Kept(opt, t, m)
      /\ e.posPrev \in 0..(cur - 1) /\ e.posPrev < m /\ base + m < Len(s)
      /\ Fits(s, base + e.posPrev, m - e.posPrev, e.backPrev, ctxs[e.posPrev])
      /\ ctx[t.cur] = AfterPacket(AfterPacket(ctxs[e.posPrev], m - e.posPrev, e.backPrev), 1, Char)

Turned(s, base, end, k, t, P, ctx) ==
  /\ t.opt \in [0..end -> Entries]
  /\ t.cur \in 0..k /\ t.posMem \in Int /\ t.backMem \in Int
  /\ Way(s, base, t.opt, P, ctx, t.cur, k)

Stage(s, base, opt, end, ctxs, cur, k, t, P, ctx) ==
  /\ Turned(s, base, end, k, t, P, ctx)
  /\ \/ Rested(opt, ctxs, t, ctx)
     \/ t.cur > 0 /\ Pending(s, base, opt, ctxs, cur, t, ctx)
     \/ t.cur > 0 /\ PendingPair(s, base, opt, ctxs, cur, t, ctx)

\* A turn from t to r comes by a packet at m, where the context is c.
ComesBy(s, base, end, t, r, m, c, ctx) ==
  /\ m \in Nat /\ m < t.cur
  /\ \A j \in 0..end : j > m => r.opt[j] = t.opt[j]
  /\ r.opt[m].posPrev = t.cur /\ r.opt[m].backPrev = t.backMem
  /\ Sound(c, base + m) /\ Fits(s, base + m, t.cur - m, t.backMem, c)
  /\ ctx[t.cur] = AfterPacket(c, t.cur - m, t.backMem)

\* It is then on the way.
LEMMA TurnWay ==
  ASSUME NEW s, NEW base \in Nat, NEW end \in Nat, NEW k \in 0..end, NEW t, NEW P, NEW ctx,
         Turned(s, base, end, k, t, P, ctx), NEW r, NEW m, NEW c,
         ComesBy(s, base, end, t, r, m, c, ctx)
  PROVE  \E P2, ctx2 : /\ Way(s, base, r.opt, P2, ctx2, m, k)
                       /\ ctx2[m] = c /\ ctx2[k] = ctx[k]
<1> DEFINE P2 == P \cup {m}
           ctx2 == [p \in P \cup {m} |-> IF p = m THEN c ELSE ctx[p]]
           from == t.cur
<1>0. /\ m \in Nat /\ m < t.cur
      /\ \A j \in 0..end : j > m => r.opt[j] = t.opt[j]
      /\ r.opt[m].posPrev = t.cur /\ r.opt[m].backPrev = t.backMem
      /\ Sound(c, base + m) /\ Fits(s, base + m, t.cur - m, t.backMem, c)
      /\ ctx[t.cur] = AfterPacket(c, t.cur - m, t.backMem)
  BY DEF ComesBy
<1>1. from \in Nat /\ k \in Nat /\ from <= k /\ m # k
  BY <1>0 DEF Turned
<1>2. \A j \in from..k : r.opt[j] = t.opt[j]
  BY <1>0, <1>1
<1>3. Way(s, base, t.opt, P, ctx, from, k)
  BY DEF Turned
<1>4. k \in P
  BY <1>3 DEF Way
<1>5. ctx2[m] = c /\ ctx2[k] = ctx[k]
  BY <1>1, <1>4
<1>6. Way(s, base, r.opt, P2, ctx2, m, k)
  <2> DEFINE opt2 == r.opt
             opt1 == t.opt
             back == t.backMem
  <2>1. /\ from \in Nat /\ k \in Nat /\ Way(s, base, opt1, P, ctx, from, k)
        /\ m \in Nat /\ m < from /\ \A j \in from..k : opt2[j] = opt1[j]
        /\ opt2[m].posPrev = from /\ opt2[m].backPrev = back
        /\ Sound(c, base + m) /\ Fits(s, base + m, from - m, back, c)
        /\ ctx[from] = AfterPacket(c, from - m, back)
    BY <1>0, <1>1, <1>2, <1>3
  <2> HIDE DEF opt1, opt2, back, from, ctx2
  <2>2. ctx2 = [p \in P \cup {m} |-> IF p = m THEN c ELSE ctx[p]]
    BY DEF ctx2
  <2>3. Way(s, base, opt2, P \cup {m}, ctx2, m, k)
    BY ONLY <2>1, <2>2, base \in Nat, WayLonger
  <2> QED
    BY <2>3 DEF opt2
<1> HIDE DEF P2, ctx2
<1> QED
  BY <1>5, <1>6

LEMMA FromPending ==
  ASSUME NEW s, NEW base, NEW opt, NEW end, NEW ctxs, NEW cur,
         Table(s, base, opt, end, ctxs, cur), NEW k \in 1..cur,
         NEW t, NEW P, NEW ctx, Turned(s, base, end, k, t, P, ctx), t.cur > 0,
         Pending(s, base, opt, ctxs, cur, t, ctx), NEW r, r = BackTurn(t)
  PROVE  /\ r.cur < t.cur
         /\ \E P2, ctx2 : /\ Stage(s, base, opt, end, ctxs, cur, k, r, P2, ctx2)
                          /\ ctx2[k] = ctx[k]
<1> DEFINE m == t.posMem
           c == ctxs[m]
<1>1. /\ cur \in Nat /\ end \in Nat /\ cur <= end /\ k \in 0..end /\ base \in Nat
      /\ \A i \in 0..(cur - 1) : Sound(ctxs[i], base + i)
      /\ \A i \in 1..(cur - 1) : ctxs[i] = Arrived(i, opt[i], ctxs[Origin(opt[i])])
  BY DEF Table
<1>2. /\ m \in 0..(cur - 1) /\ m < t.cur /\ m \in 0..end /\ t.cur \in 0..end /\ t.backMem \in Int
      /\ t.opt \in [0..end -> Entries] /\ ~t.opt[t.cur].prev1IsChar /\ t.cur \in Int
  BY SMTT(30), <1>1 DEF Pending, Turned
<1>3. /\ r.opt \in [0..end -> Entries] /\ r.cur = m
      /\ r.posMem = t.opt[m].posPrev /\ r.backMem = t.opt[m].backPrev
      /\ \A j \in 0..end : j # m => r.opt[j] = t.opt[j]
      /\ r.opt[m] = Relink(t.opt[m], t.cur, t.backMem)
  BY <1>1, <1>2, TurnPlain, SMTT(30)
<1> HIDE DEF m
<1>m. m \in Nat /\ \A j \in Nat : j < m => j \in 0..end /\ j # m /\ j < t.cur
  <2> DEFINE cu == t.cur
  <2>1. m \in 0..(cur - 1) /\ m < cu /\ cu \in Int
    BY <1>2
  <2> HIDE DEF cu
  <2>2. m \in Nat /\ \A j \in Nat : j < m => j \in 0..end /\ j # m /\ j < cu
    BY ONLY <1>1, <2>1
  <2> QED
    BY <2>2 DEF cu
<1>4. t.opt[m] = opt[m] /\ t.opt[m] \in Entries /\ Kept(opt, t, t.cur)
  <2>1. Kept(opt, t, t.cur)
    BY DEF Pending
  <2> QED
    BY <1>2, <1>m, <2>1 DEF Kept
<1>5. /\ r.opt[m].posPrev = t.cur /\ r.opt[m].backPrev = t.backMem
      /\ r.opt[m].prev1IsChar = opt[m].prev1IsChar /\ r.opt[m].prev2 = opt[m].prev2
      /\ r.opt[m].posPrev2 = opt[m].posPrev2 /\ r.opt[m].backPrev2 = opt[m].backPrev2
  BY <1>2, <1>3, <1>4, Relinked
<1>6. r.posMem \in Int /\ r.backMem \in Int
  BY <1>3, <1>4 DEF Entries
<1>7. PICK P2, ctx2 : /\ Way(s, base, r.opt, P2, ctx2, m, k)
                      /\ ctx2[m] = c /\ ctx2[k] = ctx[k]
  <2>1. m \in Nat /\ \A j \in 0..end : j > m => r.opt[j] = t.opt[j]
    BY <1>2, <1>3
  <2>2. /\ Sound(c, base + m) /\ Fits(s, base + m, t.cur - m, t.backMem, c)
        /\ ctx[t.cur] = AfterPacket(c, t.cur - m, t.backMem)
    BY <1>1, <1>2 DEF Pending, m
  <2>3. base \in Nat /\ end \in Nat /\ k \in 0..end /\ Turned(s, base, end, k, t, P, ctx)
    BY <1>1
  <2> HIDE DEF c
  <2>4. ComesBy(s, base, end, t, r, m, c, ctx)
    BY ONLY <1>2, <1>5, <2>1, <2>2 DEF ComesBy
  <2> QED
    BY ONLY <2>3, <2>4, TurnWay
<1>8. c = ContextOf(opt, ctxs, m)
  BY <1>1, <1>2 DEF ContextOf
<1>9. Kept(opt, r, m)
  BY <1>3, <1>4, <1>m DEF Kept
<1>10. Rested(opt, ctxs, r, ctx2)
  BY <1>3, <1>4, <1>5, <1>7, <1>8, <1>9 DEF Rested
<1>11. Turned(s, base, end, k, r, P2, ctx2)
  <2>1. m \in 0..k
    BY <1>2 DEF Turned
  <2> QED
    BY <1>3, <1>6, <1>7, <2>1 DEF Turned
<1>12. Stage(s, base, opt, end, ctxs, cur, k, r, P2, ctx2)
  BY <1>10, <1>11 DEF Stage
<1> QED
  BY <1>2, <1>3, <1>7, <1>12

LEMMA FromPendingPair ==
  ASSUME NEW s, NEW base, NEW opt, NEW end, NEW ctxs, NEW cur,
         Table(s, base, opt, end, ctxs, cur), NEW k \in 1..cur,
         NEW t, NEW P, NEW ctx, Turned(s, base, end, k, t, P, ctx), t.cur > 0,
         PendingPair(s, base, opt, ctxs, cur, t, ctx), NEW r, r = BackTurn(t)
  PROVE  /\ r.cur < t.cur
         /\ \E P2, ctx2 : /\ Stage(s, base, opt, end, ctxs, cur, k, r, P2, ctx2)
                          /\ ctx2[k] = ctx[k]
<1> DEFINE m == t.posMem
           e == t.opt[m]
           o == e.posPrev
           c == AfterPacket(ctxs[o], m - o, e.backPrev)
<1>1. /\ cur \in Nat /\ end \in Nat /\ cur <= end /\ k \in 0..end /\ base \in Nat \ {0}
      /\ Len(s) \in Nat /\ \A i \in 0..(cur - 1) : Sound(ctxs[i], base + i)
  BY DEF Table
<1>2. t.cur \in 0..k /\ t.cur \in Int /\ t.backMem \in Int /\ t.opt \in [0..end -> Entries]
  BY SMTT(30) DEF Turned
<1>3. /\ m = t.cur - 1 /\ t.backMem = Char /\ m > 0 /\ base + m < Len(s)
      /\ ~t.opt[t.cur].prev1IsChar /\ ~e.prev1IsChar
      /\ o \in 0..(cur - 1) /\ o < m
      /\ Fits(s, base + o, m - o, e.backPrev, ctxs[o])
      /\ ctx[t.cur] = AfterPacket(c, 1, Char)
      /\ Kept(opt, t, m)
  BY DEF PendingPair
<1> HIDE DEF m
<1>4. /\ m \in 0..end /\ t.cur \in 0..end /\ m \in Nat /\ m < t.cur /\ t.cur - m = 1 /\ m \in 0..k
      /\ \A j \in Nat : j < m => j \in 0..end /\ j # m
  <2> DEFINE cu == t.cur
  <2>1. cu \in 0..k /\ m = cu - 1 /\ m > 0
    BY <1>2, <1>3
  <2> HIDE DEF cu
  <2>2. /\ m \in 0..end /\ cu \in 0..end /\ m \in Nat /\ m < cu /\ cu - m = 1 /\ m \in 0..k
        /\ \A j \in Nat : j < m => j \in 0..end /\ j # m
    BY ONLY <1>1, <2>1
  <2> QED
    BY <2>2 DEF cu
<1>5. /\ r.opt \in [0..end -> Entries] /\ r.cur = m
      /\ r.posMem = e.posPrev /\ r.backMem = e.backPrev
      /\ \A j \in 0..end : j # m => r.opt[j] = t.opt[j]
      /\ r.opt[m] = Relink(e, t.cur, t.backMem)
  <2>1. end \in Nat /\ t.cur \in 0..end /\ t.posMem \in 0..end /\ t.backMem \in Int
        /\ t.opt \in [0..end -> Entries] /\ ~t.opt[t.cur].prev1IsChar
    BY <1>1, <1>2, <1>3, <1>4 DEF m
  <2> QED
    BY <2>1, TurnPlain, SMTT(30) DEF m
<1>6. e \in Entries /\ r.posMem \in Int /\ r.backMem \in Int
  BY ZenonT(40), <1>2, <1>4, <1>5 DEF Entries
<1>7. /\ r.opt[m].posPrev = t.cur /\ r.opt[m].backPrev = t.backMem
      /\ ~r.opt[m].prev1IsChar
  BY <1>2, <1>3, <1>5, <1>6, Relinked
<1>8. Sound(c, base + m)
  <2> DEFINE back == e.backPrev
  <2>1. o \in 0..(cur - 1) /\ Fits(s, base + o, m - o, back, ctxs[o])
    BY <1>3
  <2>2. c = AfterPacket(ctxs[o], m - o, back)
    OBVIOUS
  <2> HIDE DEF e, o, back, c
  <2>3. o \in Nat /\ base + o \in Nat \ {0} /\ Sound(ctxs[o], base + o)
        /\ (base + o) + (m - o) = base + m
    BY ONLY <1>1, <1>4, <2>1, SMTT(30)
  <2> QED
    BY ONLY <1>1, <2>1, <2>2, <2>3, FitsIs
<1>9. Fits(s, base + m, t.cur - m, t.backMem, c)
  BY <1>3, <1>4 DEF Fits
<1>10. PICK P2, ctx2 : /\ Way(s, base, r.opt, P2, ctx2, m, k)
                       /\ ctx2[m] = c /\ ctx2[k] = ctx[k]
  <2>1. \A j \in 0..end : j > m => r.opt[j] = t.opt[j]
    BY SMTT(30), <1>4, <1>5
  <2>2. ctx[t.cur] = AfterPacket(c, t.cur - m, t.backMem)
    BY <1>3, <1>4
  <2>3. base \in Nat /\ end \in Nat /\ k \in 0..end /\ Turned(s, base, end, k, t, P, ctx)
    BY <1>1
  <2> HIDE DEF c
  <2>4. ComesBy(s, base, end, t, r, m, c, ctx)
    BY ONLY <1>4, <1>7, <1>8, <1>9, <2>1, <2>2, SMTT(30) DEF ComesBy
  <2> QED
    BY ONLY <2>3, <2>4, TurnWay
<1>11. Pending(s, base, opt, ctxs, cur, r, ctx2)
  <2>1. Kept(opt, r, m)
    BY <1>3, <1>4, <1>5 DEF Kept
  <2> QED
    BY SMTT(30), <1>3, <1>5, <1>7, <1>10, <2>1 DEF Pending
<1>12. Turned(s, base, end, k, r, P2, ctx2)
  BY <1>4, <1>5, <1>6, <1>10 DEF Turned
<1>13. Stage(s, base, opt, end, ctxs, cur, k, r, P2, ctx2)
  BY <1>3, <1>5, <1>11, <1>12 DEF Stage
<1> QED
  BY <1>4, <1>5, <1>10, <1>13

LEMMA FromRested ==
  ASSUME NEW s, NEW base, NEW opt, NEW end, NEW ctxs, NEW cur,
         Table(s, base, opt, end, ctxs, cur), NEW k \in 1..cur,
         NEW t, NEW P, NEW ctx, Turned(s, base, end, k, t, P, ctx), t.cur > 0,
         Rested(opt, ctxs, t, ctx), NEW r, r = BackTurn(t)
  PROVE  /\ r.cur < t.cur
         /\ \E P2, ctx2 : /\ Stage(s, base, opt, end, ctxs, cur, k, r, P2, ctx2)
                          /\ ctx2[k] = ctx[k]
<1> DEFINE i == t.cur
           e == opt[i]
           o == Origin(e)
           m == e.posPrev
           c == ctxs[o]
<1>1. /\ cur \in Nat /\ end \in Nat /\ cur <= end /\ k \in 0..end /\ base \in Nat \ {0}
      /\ Len(s) \in Nat /\ base + end <= Len(s) /\ k <= cur
      /\ opt \in [0..end -> Entries]
      /\ \A j \in 0..(cur - 1) : Sound(ctxs[j], base + j)
  BY DEF Table
<1>2. i \in 0..k /\ i > 0 /\ t.backMem \in Int /\ t.opt \in [0..end -> Entries]
  BY DEF Turned
<1>3. /\ t.posMem = m /\ t.backMem = e.backPrev
      /\ t.opt[i].prev1IsChar = e.prev1IsChar /\ t.opt[i].prev2 = e.prev2
      /\ t.opt[i].posPrev2 = e.posPrev2 /\ t.opt[i].backPrev2 = e.backPrev2
      /\ Kept(opt, t, i) /\ ctx[i] = ContextOf(opt, ctxs, i)
  BY DEF Rested
<1>4. ctx[i] = Arrived(i, e, c)
  BY <1>2, <1>3 DEF ContextOf
<1> HIDE DEF i
<1>5. i \in 1..cur /\ i \in 1..end /\ i \in 0..end /\ i \in Nat /\ base + i <= Len(s) /\ i <= k
  BY ONLY <1>1, <1>2
<1>6. o \in 0..(cur - 1) /\ Leads(s, base, i, e, c) /\ e \in Entries
  BY <1>1, <1>5 DEF Table
<1>7. m \in Int /\ e.posPrev2 \in Int /\ e.prev1IsChar \in BOOLEAN /\ e.prev2 \in BOOLEAN
  BY <1>6 DEF Entries
<1>c. Sound(c, base + o) /\ base + o \in Nat \ {0}
  <2> HIDE DEF o
  <2> QED
    BY <1>1, <1>6
<1> HIDE DEF e, c
<1>8. /\ i - m \in 1..FastBytes
      /\ Fits(s, base + m, i - m, e.backPrev, Halfway(e, c))
      /\ e.prev1IsChar => o < m
      /\ e.prev1IsChar /\ e.prev2 =>
           /\ m - 1 - e.posPrev2 \in 2..FastBytes
           /\ Fits(s, base + e.posPrev2, m - 1 - e.posPrev2, e.backPrev2, c)
  BY <1>6 DEF Leads
<1>9. ctx[i] = AfterPacket(Halfway(e, c), i - m, e.backPrev)
  BY <1>4 DEF Arrived
<1> HIDE DEF m
<1>10. m < i
  BY ONLY <1>5, <1>7, <1>8, OptimumAssumption
<1>11. CASE ~e.prev1IsChar
  <2>1. o = m /\ Halfway(e, c) = c
    BY <1>11 DEF Origin, Halfway, m
  <2>2. /\ t.posMem \in 0..(cur - 1) /\ t.posMem < t.cur /\ ~t.opt[t.cur].prev1IsChar
        /\ Kept(opt, t, t.cur)
    BY <1>3, <1>6, <1>10, <1>11, <2>1 DEF i
  <2>3. /\ Fits(s, base + t.posMem, t.cur - t.posMem, t.backMem, ctxs[t.posMem])
        /\ ctx[t.cur] = AfterPacket(ctxs[t.posMem], t.cur - t.posMem, t.backMem)
    BY <1>3, <1>8, <1>9, <2>1 DEF i, c
  <2>4. Pending(s, base, opt, ctxs, cur, t, ctx)
    BY <2>2, <2>3 DEF Pending
  <2> QED
    BY <2>4, FromPending
<1>12. CASE e.prev1IsChar /\ ~e.prev2
  <2> DEFINE c2 == AfterPacket(c, 1, Char)
  <2>1. o = m - 1 /\ Halfway(e, c) = c2
    BY <1>12 DEF Origin, Halfway, m
  <2>2. m \in 1..end /\ m \in Nat /\ m \in 0..k /\ base + o < Len(s)
        /\ (base + o) + 1 = base + m
        /\ \A j \in Nat : j < m => j \in 0..end /\ j # m /\ j < i
    BY ONLY <1>1, <1>5, <1>6, <1>7, <1>10, <2>1
  <2>3. Fits(s, base + o, 1, Char, c)
    BY <2>2 DEF Fits
  <2>4. Sound(c2, base + m)
    BY <1>1, <1>c, <2>2, <2>3, FitsIs
  <2>5. /\ r.opt \in [0..end -> Entries] /\ r.cur = m /\ r.posMem = m - 1 /\ r.backMem = Char
        /\ \A j \in 0..end : j # m => r.opt[j] = t.opt[j]
        /\ ~r.opt[m].prev1IsChar
        /\ r.opt[m].posPrev = i /\ r.opt[m].backPrev = t.backMem
    <3>1. /\ t.cur \in 0..end /\ t.posMem \in 1..end /\ t.posMem # t.cur
          /\ t.opt[t.cur].prev1IsChar /\ ~t.opt[t.cur].prev2
      BY <1>3, <1>5, <1>10, <1>12, <2>2 DEF i
    <3>2. t.posMem = m /\ t.cur = i
      BY <1>3 DEF i
    <3>3. /\ r.opt \in [0..end -> Entries] /\ r.cur = t.posMem
          /\ r.posMem = t.posMem - 1 /\ r.backMem = Char
          /\ \A j \in 0..end : j # t.posMem => r.opt[j] = t.opt[j]
          /\ ~r.opt[t.posMem].prev1IsChar
          /\ r.opt[t.posMem].posPrev = t.cur /\ r.opt[t.posMem].backPrev = t.backMem
      <4>1. /\ end \in Nat /\ t.opt \in [0..end -> Entries] /\ t.backMem \in Int
            /\ r = BackTurn(t)
        BY <1>1, <1>2
      <4> QED
        BY ONLY <3>1, <4>1, TurnChar, SMTT(30)
    <3> QED
      BY <3>2, <3>3
  <2> HIDE DEF c2
  <2>6. ComesBy(s, base, end, t, r, m, c2, ctx)
    <3>1. m < t.cur /\ \A j \in 0..end : j > m => r.opt[j] = t.opt[j]
      BY <1>10, <2>2, <2>5 DEF i
    <3>2. /\ r.opt[m].posPrev = t.cur /\ r.opt[m].backPrev = t.backMem
          /\ Fits(s, base + m, t.cur - m, t.backMem, c2)
          /\ ctx[t.cur] = AfterPacket(c2, t.cur - m, t.backMem)
      BY <1>3, <1>8, <1>9, <2>1, <2>5 DEF i
    <3> QED
      BY <2>2, <2>4, <3>1, <3>2 DEF ComesBy
  <2>7. PICK P2, ctx2 : /\ Way(s, base, r.opt, P2, ctx2, m, k)
                        /\ ctx2[m] = c2 /\ ctx2[k] = ctx[k]
    BY <1>1, <2>6, TurnWay
  <2>8. Kept(opt, r, m)
    BY <1>3, <2>2, <2>5 DEF Kept
  <2>9. Pending(s, base, opt, ctxs, cur, r, ctx2)
    <3>1. r.cur - r.posMem = 1 /\ r.posMem = o /\ r.posMem < r.cur
      BY <2>1, <2>2, <2>5
    <3>2. ctx2[r.cur] = AfterPacket(ctxs[r.posMem], 1, Char)
      BY <2>5, <2>7, <3>1 DEF c2, c
    <3>3. Fits(s, base + r.posMem, 1, Char, ctxs[r.posMem])
      BY <2>3, <3>1 DEF c
    <3> QED
      BY <1>6, <2>5, <2>8, <3>1, <3>2, <3>3 DEF Pending
  <2>10. Turned(s, base, end, k, r, P2, ctx2)
    BY <2>2, <2>5, <2>7, FourReps DEF Turned
  <2> QED
    BY <1>10, <2>2, <2>5, <2>7, <2>9, <2>10 DEF Stage, i
<1>13. CASE e.prev1IsChar /\ e.prev2
  <2> DEFINE back == e.backPrev2
             c1 == AfterPacket(c, m - 1 - o, back)
             c2 == AfterPacket(c1, 1, Char)
  <2>1. o = e.posPrev2 /\ Halfway(e, c) = c2
    BY <1>13 DEF Origin, Halfway, m
  <2>2. /\ m - 1 - o \in 2..FastBytes
        /\ Fits(s, base + o, m - 1 - o, back, c)
    BY <1>8, <1>13, <2>1
  <2> HIDE DEF back
  <2>3. m \in 1..end /\ m - 1 \in 1..end /\ m \in Nat /\ m - 1 \in Nat /\ m \in 0..k
        /\ base + (m - 1) < Len(s) /\ o < m - 1
        /\ base + (m - 1) \in Nat \ {0}
        /\ (base + (m - 1)) + 1 = base + m /\ (base + o) + (m - 1 - o) = base + (m - 1)
        /\ \A j \in Nat : j < m - 1 => j \in 0..end /\ j # m /\ j # m - 1 /\ j < i
    <3>1. o \in Nat /\ o + 2 <= m - 1
      <4>1. FastBytes \in Nat
        BY OptimumAssumption
      <4>2. o \in 0..(cur - 1) /\ m \in Int /\ m - 1 - o \in 2..FastBytes
        BY <1>6, <1>7, <2>2
      <4> HIDE DEF o
      <4> QED
        BY ONLY <1>1, <4>1, <4>2
    <3> HIDE DEF o
    <3> QED
      BY ONLY <1>1, <1>5, <1>7, <1>10, <3>1
  <2>4. Sound(c1, base + (m - 1))
    BY <1>1, <1>c, <2>2, <2>3, FitsIs
  <2> HIDE DEF c1
  <2>5. Fits(s, base + (m - 1), 1, Char, c1)
    BY <2>3 DEF Fits
  <2>6. Sound(c2, base + m)
    BY <1>1, <2>3, <2>4, <2>5, FitsIs
  <2>7. /\ r.opt \in [0..end -> Entries] /\ r.cur = m /\ r.posMem = m - 1 /\ r.backMem = Char
        /\ \A j \in 0..end : j # m /\ j # m - 1 => r.opt[j] = t.opt[j]
        /\ ~r.opt[m].prev1IsChar
        /\ r.opt[m].posPrev = i /\ r.opt[m].backPrev = t.backMem
        /\ ~r.opt[m - 1].prev1IsChar
        /\ r.opt[m - 1].posPrev = o /\ r.opt[m - 1].backPrev = back
    <3>1. /\ t.cur \in 0..end /\ t.posMem \in 1..end /\ t.posMem < t.cur
          /\ t.opt[t.cur].prev1IsChar /\ t.opt[t.cur].prev2
      BY <1>3, <1>5, <1>10, <1>13, <2>3 DEF i
    <3>2. /\ t.posMem = m /\ t.cur = i /\ t.opt[t.cur].posPrev2 = o
          /\ t.opt[t.cur].backPrev2 = back
      BY <1>3, <2>1 DEF i, back
    <3>3. /\ r.opt \in [0..end -> Entries]
          /\ r.cur = t.posMem
          /\ r.posMem = t.posMem - 1 /\ r.backMem = Char
          /\ \A j \in 0..end : j # t.posMem /\ j # t.posMem - 1 => r.opt[j] = t.opt[j]
          /\ ~r.opt[t.posMem].prev1IsChar
          /\ r.opt[t.posMem].posPrev = t.cur /\ r.opt[t.posMem].backPrev = t.backMem
          /\ ~r.opt[t.posMem - 1].prev1IsChar
          /\ r.opt[t.posMem - 1].posPrev = t.opt[t.cur].posPrev2
          /\ r.opt[t.posMem - 1].backPrev = t.opt[t.cur].backPrev2
      <4>1. /\ end \in Nat /\ t.opt \in [0..end -> Entries] /\ t.backMem \in Int
            /\ r = BackTurn(t)
        BY <1>1, <1>2
      <4> QED
        BY ONLY <3>1, <4>1, TurnPair, SMTT(30)
    <3> QED
      BY <3>2, <3>3
  <2> HIDE DEF c2
  <2>8. ComesBy(s, base, end, t, r, m, c2, ctx)
    <3>1. m < t.cur /\ \A j \in 0..end : j > m => r.opt[j] = t.opt[j]
      BY <1>10, <2>3, <2>7 DEF i
    <3>2. /\ r.opt[m].posPrev = t.cur /\ r.opt[m].backPrev = t.backMem
          /\ Fits(s, base + m, t.cur - m, t.backMem, c2)
          /\ ctx[t.cur] = AfterPacket(c2, t.cur - m, t.backMem)
      BY <1>3, <1>8, <1>9, <2>1, <2>7 DEF i
    <3> QED
      BY <2>3, <2>6, <3>1, <3>2 DEF ComesBy
  <2>9. PICK P2, ctx2 : /\ Way(s, base, r.opt, P2, ctx2, m, k)
                        /\ ctx2[m] = c2 /\ ctx2[k] = ctx[k]
    BY <1>1, <2>8, TurnWay
  <2>10. Kept(opt, r, m - 1)
    BY <1>3, <2>3, <2>7 DEF Kept
  <2>11. PendingPair(s, base, opt, ctxs, cur, r, ctx2)
    <3>1. /\ Fits(s, base + o, (m - 1) - o, back, c)
          /\ ctx2[m] = AfterPacket(AfterPacket(c, (m - 1) - o, back), 1, Char)
      BY <2>2, <2>9 DEF c1, c2
    <3>2. m - 1 > 0
      BY <2>3
    <3> QED
      BY <1>6, <2>3, <2>7, <2>10, <3>1, <3>2 DEF PendingPair, c
  <2>12. Turned(s, base, end, k, r, P2, ctx2)
    BY <2>3, <2>7, <2>9, FourReps DEF Turned
  <2> QED
    BY <1>10, <2>3, <2>7, <2>9, <2>11, <2>12 DEF Stage, i
<1> QED
  BY <1>7, <1>11, <1>12, <1>13

\* The contexts an entry stands for are sound.
LEMMA ArrivedSound ==
  ASSUME NEW s, Len(s) \in Nat, NEW base \in Nat \ {0}, NEW i \in Nat, base + i <= Len(s),
         NEW e \in Entries, NEW c, Leads(s, base, i, e, c),
         Origin(e) \in Nat, Sound(c, base + Origin(e))
  PROVE  /\ e.posPrev \in Nat /\ e.posPrev < i /\ Origin(e) <= e.posPrev
         /\ Sound(Halfway(e, c), base + e.posPrev)
         /\ Sound(Arrived(i, e, c), base + i)
<1> DEFINE o == Origin(e)
           m == e.posPrev
           back == e.backPrev
           h == Halfway(e, c)
<1>1. /\ m \in Int /\ back \in Int /\ e.posPrev2 \in Int
      /\ e.prev1IsChar \in BOOLEAN /\ e.prev2 \in BOOLEAN
  BY DEF Entries
<1>2. /\ i - m \in 1..FastBytes /\ Fits(s, base + m, i - m, back, h)
      /\ e.prev1IsChar => o < m
      /\ e.prev1IsChar /\ e.prev2 =>
           /\ m - 1 - e.posPrev2 \in 2..FastBytes
           /\ Fits(s, base + e.posPrev2, m - 1 - e.posPrev2, e.backPrev2, c)
  BY DEF Leads
<1>3. o \in Nat /\ base + o \in Nat \ {0} /\ Sound(c, base + o)
  <2> HIDE DEF o
  <2> QED
    BY DEF o
<1>4. Arrived(i, e, c) = AfterPacket(h, i - m, back)
  BY DEF Arrived
<1>f. FastBytes \in Nat
  BY OptimumAssumption
<1>5. m \in Nat /\ m < i /\ Sound(h, base + m)
  <2>1. CASE ~e.prev1IsChar
    <3>1. o = m /\ h = c
      BY <2>1 DEF Origin, Halfway
    <3> HIDE DEF m
    <3>2. m < i
      BY ONLY <1>1, <1>2, <1>f, i \in Nat
    <3> QED
      BY <1>3, <3>1, <3>2
  <2>2. CASE e.prev1IsChar /\ ~e.prev2
    <3>1. o = m - 1 /\ h = AfterPacket(c, 1, Char)
      BY <2>2 DEF Origin, Halfway
    <3> HIDE DEF m, o, h
    <3>2. m < i /\ m \in Nat /\ base + o < Len(s) /\ (base + o) + 1 = base + m
      BY ONLY <1>1, <1>2, <1>3, <1>f, <3>1, i \in Nat, base \in Nat, Len(s) \in Nat,
              base + i <= Len(s)
    <3>3. Fits(s, base + o, 1, Char, c)
      BY <3>2 DEF Fits
    <3> QED
      BY <1>3, <3>1, <3>2, <3>3, FitsIs
  <2>3. CASE e.prev1IsChar /\ e.prev2
    <3> DEFINE n == m - 1 - o
               back2 == e.backPrev2
               c1 == AfterPacket(c, n, back2)
    <3>1. o = e.posPrev2 /\ h = AfterPacket(c1, 1, Char)
      BY <2>3 DEF Origin, Halfway
    <3>2. n \in 2..FastBytes /\ Fits(s, base + o, n, back2, c)
      BY <1>2, <2>3, <3>1
    <3> HIDE DEF m, o, h, back2
    <3>3. /\ m < i /\ m \in Nat /\ base + (m - 1) < Len(s) /\ (base + (m - 1)) + 1 = base + m
          /\ (base + o) + n = base + (m - 1) /\ base + (m - 1) \in Nat \ {0}
      BY ONLY <1>1, <1>2, <1>3, <1>f, <3>2, i \in Nat, base \in Nat \ {0}, Len(s) \in Nat,
              base + i <= Len(s)
    <3> HIDE DEF n
    <3>4. Sound(c1, base + (m - 1))
      <4>1. Sound(AfterPacket(c, n, back2), (base + o) + n)
        BY <1>3, <3>2, FitsIs
      <4> QED
        BY <3>3, <4>1
    <3> HIDE DEF c1
    <3>5. Fits(s, base + (m - 1), 1, Char, c1)
      BY <3>3 DEF Fits
    <3> QED
      BY <3>1, <3>3, <3>4, <3>5, FitsIs
  <2> QED
    BY <1>1, <2>1, <2>2, <2>3
<1>6. o <= m
  <2>1. ~e.prev1IsChar => o = m
    BY DEF Origin
  <2> HIDE DEF o, m
  <2> QED
    BY ONLY <1>1, <1>2, <1>3, <1>5, <2>1
<1> HIDE DEF h, m, back
<1>7. Sound(Arrived(i, e, c), base + i)
  <2>1. base + m \in Nat \ {0} /\ (base + m) + (i - m) = base + i
    BY <1>5
  <2> QED
    BY <1>2, <1>4, <1>5, <2>1, FitsIs
<1> QED
  BY <1>5, <1>6, <1>7 DEF m, o, h

\* The contexts before cur, and the one the entry at cur stands for.
LEMMA TableSound ==
  ASSUME NEW s, NEW base, NEW opt, NEW end, NEW ctxs, NEW cur,
         Table(s, base, opt, end, ctxs, cur), NEW k \in 1..cur
  PROVE  /\ ContextOf(opt, ctxs, k) = Arrived(k, opt[k], ctxs[Origin(opt[k])])
         /\ Sound(ContextOf(opt, ctxs, k), base + k)
<1> DEFINE e == opt[k]
           o == Origin(e)
           c == ctxs[o]
<1>1. /\ k \in Nat /\ k \in 1..end /\ base \in Nat \ {0} /\ Len(s) \in Nat /\ cur \in Nat
      /\ base + k <= Len(s) /\ k # 0
  BY DEF Table
<1>2. e # Infinite /\ e \in Entries
  BY <1>1 DEF Table
<1>3. o \in 0..(cur - 1) /\ Leads(s, base, k, e, c)
  BY <1>1, <1>2 DEF Table
<1>4. Sound(c, base + o) /\ o \in Nat
  <2> HIDE DEF o
  <2> QED
    BY <1>1, <1>3 DEF Table
<1>5. ContextOf(opt, ctxs, k) = Arrived(k, e, c)
  BY <1>1 DEF ContextOf
<1> QED
  BY <1>1, <1>2, <1>3, <1>4, <1>5, ArrivedSound

(***************************************************************************)
(* The turns one after another: a function with their equation exists, so  *)
(* Backward's is one.                                                      *)
(***************************************************************************)
StartOf(k) == [opt |-> optimum, cur |-> k, posMem |-> optimum[k].posPrev,
               backMem |-> optimum[k].backPrev]
AfterTurn(t) == IF t.cur > 0 THEN BackTurn(t) ELSE t
Turns(k, f) == f = [n \in 0..k |-> IF n = 0 THEN StartOf(k) ELSE AfterTurn(f[n - 1])]

LEMMA BackwardTurns ==
  ASSUME NEW k \in Nat
  PROVE  \E f : /\ f[0] = StartOf(k) /\ \A n \in 1..k : f[n] = AfterTurn(f[n - 1])
                /\ Backward(k) = f[k].opt
<1> DEFINE Upto(n, f) == f = [i \in 0..n |-> IF i = 0 THEN StartOf(k) ELSE AfterTurn(f[i - 1])]
           T == {n \in 0..k : \E f : Upto(n, f)}
           g == CHOOSE f : Turns(k, f)
<1>1. 0 \in T
  <2> DEFINE w == [i \in 0..0 |-> StartOf(k)]
  <2>1. Upto(0, w)
    <3>1. \A i \in 0..0 : i = 0
      OBVIOUS
    <3> QED
      BY <3>1
  <2> HIDE DEF w, Upto
  <2>2. 0 \in 0..k
    OBVIOUS
  <2> QED
    BY <2>1, <2>2
<1>2. ASSUME NEW n \in 1..k, n - 1 \in T PROVE n \in T
  <2>1. PICK f : Upto(n - 1, f)
    BY <1>2
  <2> DEFINE w == [i \in 0..n |-> IF i = 0 THEN StartOf(k) ELSE AfterTurn(f[i - 1])]
  <2>2. ASSUME NEW i \in 0..n, i # 0 PROVE w[i - 1] = f[i - 1]
    <3>1. i - 1 \in 0..n /\ i - 1 \in 0..(n - 1)
      BY <2>2
    <3>2. w[i - 1] = IF i - 1 = 0 THEN StartOf(k) ELSE AfterTurn(f[(i - 1) - 1])
      BY <3>1
    <3>3. f[i - 1] = IF i - 1 = 0 THEN StartOf(k) ELSE AfterTurn(f[(i - 1) - 1])
      BY <2>1, <3>1
    <3> QED
      BY <3>2, <3>3
  <2>3. w = [i \in 0..n |-> IF i = 0 THEN StartOf(k) ELSE AfterTurn(w[i - 1])]
    <3> DEFINE u == [i \in 0..n |-> IF i = 0 THEN StartOf(k) ELSE AfterTurn(w[i - 1])]
    <3>1. \A i \in 0..n : w[i] = u[i]
      BY <2>2
    <3> QED
      BY <3>1
  <2>4. n \in 0..k
    OBVIOUS
  <2> QED
    BY <2>3, <2>4
<1>3. \E f : Turns(k, f)
  <2>1. k \in T
    <3> HIDE DEF T
    <3> QED
      BY <1>1, <1>2, UpTo
  <2> QED
    BY <2>1 DEF Turns
<1>4. Turns(k, g)
  BY <1>3
<1>5. Backward(k) = g[k].opt
  BY DEF Backward, Turns, StartOf, AfterTurn
<1> HIDE DEF g
<1>6. g[0] = StartOf(k) /\ \A n \in 1..k : g[n] = AfterTurn(g[n - 1])
  <2>1. \A n \in 0..k : g[n] = IF n = 0 THEN StartOf(k) ELSE AfterTurn(g[n - 1])
    BY <1>4 DEF Turns
  <2>2. 0 \in 0..k /\ \A n \in 1..k : n \in 0..k /\ n # 0
    OBVIOUS
  <2> QED
    BY <2>1, <2>2
<1> QED
  BY <1>5, <1>6

\* The way backward lays out leads from the context at the start to the one
\* that the entry at k stands for.
LEMMA BackwardLays ==
  ASSUME NEW s, NEW base, NEW end, NEW ctxs, NEW cur,
         Table(s, base, optimum, end, ctxs, cur), NEW k \in 1..cur
  PROVE  \E P, ctx : /\ Way(s, base, Backward(k), P, ctx, 0, k)
                     /\ ctx[0] = ctxs[0]
                     /\ ctx[k] = ContextOf(optimum, ctxs, k)
<1> DEFINE last == ContextOf(optimum, ctxs, k)
           Laid(t, n) == \E P, ctx : /\ Stage(s, base, optimum, end, ctxs, cur, k, t, P, ctx)
                                     /\ ctx[k] = last /\ (t.cur = 0 \/ t.cur <= k - n)
<1>1. /\ k \in Nat /\ k # 0 /\ end \in Nat /\ k \in 0..end /\ k \in 1..end
      /\ optimum \in [0..end -> Entries]
  BY DEF Table
<1>2. PICK f : /\ f[0] = StartOf(k) /\ \A n \in 1..k : f[n] = AfterTurn(f[n - 1])
               /\ Backward(k) = f[k].opt
  BY <1>1, BackwardTurns
<1> DEFINE T == {n \in 0..k : Laid(f[n], n)}
<1>3. 0 \in T
  <2> DEFINE t == StartOf(k)
             ctx == [p \in {k} |-> last]
  <2>1. /\ t.opt = optimum /\ t.cur = k
        /\ t.posMem = optimum[k].posPrev /\ t.backMem = optimum[k].backPrev
    BY DEF StartOf
  <2>2. ctx[k] = last
    OBVIOUS
  <2>3. Sound(last, base + k)
    BY TableSound
  <2> HIDE DEF t, ctx, last
  <2>4. Way(s, base, t.opt, {k}, ctx, k, k)
    BY <1>1, <2>2, <2>3 DEF Way
  <2>5. Rested(optimum, ctxs, t, ctx)
    BY <2>1, <2>2 DEF Rested, Kept, last
  <2>6. Turned(s, base, end, k, t, {k}, ctx)
    BY SMTT(30), <1>1, <2>1, <2>4 DEF Turned, Entries
  <2>7. Stage(s, base, optimum, end, ctxs, cur, k, t, {k}, ctx)
    BY <2>5, <2>6 DEF Stage
  <2>8. t.cur <= k - 0
    BY <1>1, <2>1
  <2> QED
    BY <1>1, <1>2, <2>2, <2>7, <2>8 DEF t
<1>4. ASSUME NEW n \in 1..k, n - 1 \in T PROVE n \in T
  <2> DEFINE t == f[n - 1]
             r == f[n]
  <2>1. PICK P, ctx : /\ Stage(s, base, optimum, end, ctxs, cur, k, t, P, ctx)
                      /\ ctx[k] = last /\ (t.cur = 0 \/ t.cur <= k - (n - 1))
    BY <1>4
  <2>2. r = AfterTurn(t)
    BY <1>2
  <2> HIDE DEF t, r, last
  <2>3. t.cur \in 0..k
    BY <2>1 DEF Stage, Turned
  <2>4. CASE t.cur = 0
    <3>1. r = t
      BY <2>2, <2>4 DEF AfterTurn
    <3> QED
      BY <2>1, <2>4, <3>1 DEF r
  <2>5. CASE t.cur > 0
    <3>1. r = BackTurn(t)
      BY <2>2, <2>5 DEF AfterTurn
    <3>2. Turned(s, base, end, k, t, P, ctx)
      BY <2>1 DEF Stage
    <3>3. /\ r.cur < t.cur
          /\ \E P2, ctx2 : /\ Stage(s, base, optimum, end, ctxs, cur, k, r, P2, ctx2)
                           /\ ctx2[k] = ctx[k]
      <4>1. CASE Rested(optimum, ctxs, t, ctx)
        BY <2>5, <3>1, <3>2, <4>1, FromRested
      <4>2. CASE Pending(s, base, optimum, ctxs, cur, t, ctx)
        BY <2>5, <3>1, <3>2, <4>2, FromPending
      <4>3. CASE PendingPair(s, base, optimum, ctxs, cur, t, ctx)
        BY <2>5, <3>1, <3>2, <4>3, FromPendingPair
      <4> QED
        BY <2>1, <4>1, <4>2, <4>3 DEF Stage
    <3>4. PICK P2, ctx2 : /\ Stage(s, base, optimum, end, ctxs, cur, k, r, P2, ctx2)
                          /\ ctx2[k] = last
      BY <2>1, <3>3
    <3>5. r.cur = 0 \/ r.cur <= k - n
      <4> DEFINE a == r.cur
                 b == t.cur
      <4>1. a \in 0..k /\ b \in 0..k /\ a < b /\ (b = 0 \/ b <= k - (n - 1))
        BY <2>1, <2>3, <3>3, <3>4 DEF Stage, Turned
      <4> HIDE DEF a, b
      <4>2. a = 0 \/ a <= k - n
        BY ONLY <1>1, <4>1, n \in 1..k
      <4> QED
        BY <4>2 DEF a
    <3> QED
      BY <3>4, <3>5 DEF r
  <2> QED
    BY <2>3, <2>4, <2>5
<1>5. k \in T
  <2> HIDE DEF T
  <2> QED
    BY SMTT(30), <1>1, <1>3, <1>4, UpTo
<1> DEFINE t == f[k]
<1>6. PICK P, ctx : /\ Stage(s, base, optimum, end, ctxs, cur, k, t, P, ctx)
                    /\ ctx[k] = last /\ (t.cur = 0 \/ t.cur <= k - k)
  BY <1>5
<1>7. Backward(k) = t.opt
  BY <1>2
<1> HIDE DEF t, last
<1>8. t.cur = 0
  <2>1. t.cur \in 0..k
    BY <1>6 DEF Stage, Turned
  <2> QED
    BY <1>1, <1>6, <2>1
<1>9. ctx[0] = ctxs[0]
  BY <1>6, <1>8 DEF Stage, Rested, ContextOf
<1>10. Way(s, base, Backward(k), P, ctx, 0, k)
  BY <1>6, <1>7, <1>8 DEF Stage, Turned
<1> QED
  BY <1>6, <1>9, <1>10 DEF last

(***************************************************************************)
(* Replay, likewise.                                                       *)
(***************************************************************************)
AtStart(c) == [place |-> 0, context |-> c]
AfterTaken(opt, end, t) ==
  LET e == opt[t.place]
  IN  IF t.place = end THEN t
      ELSE [place |-> e.posPrev,
            context |-> AfterPacket(t.context, e.posPrev - t.place, e.backPrev)]
Takes(opt, end, c, f) ==
  f = [n \in 0..end |-> IF n = 0 THEN AtStart(c) ELSE AfterTaken(opt, end, f[n - 1])]

LEMMA ReplayTakes ==
  ASSUME NEW end \in Nat, NEW opt, NEW c
  PROVE  \E f : /\ f[0] = AtStart(c) /\ \A n \in 1..end : f[n] = AfterTaken(opt, end, f[n - 1])
                /\ Replay(opt, end, c) = f[end].context
<1> DEFINE Upto(n, f) == f = [i \in 0..n |-> IF i = 0 THEN AtStart(c)
                                             ELSE AfterTaken(opt, end, f[i - 1])]
           T == {n \in 0..end : \E f : Upto(n, f)}
           g == CHOOSE f : Takes(opt, end, c, f)
<1>1. 0 \in T
  <2> DEFINE w == [i \in 0..0 |-> AtStart(c)]
  <2>1. Upto(0, w)
    <3>1. \A i \in 0..0 : i = 0
      OBVIOUS
    <3> QED
      BY <3>1
  <2> HIDE DEF w, Upto
  <2>2. 0 \in 0..end
    OBVIOUS
  <2> QED
    BY <2>1, <2>2
<1>2. ASSUME NEW n \in 1..end, n - 1 \in T PROVE n \in T
  <2>1. PICK f : Upto(n - 1, f)
    BY <1>2
  <2> DEFINE w == [i \in 0..n |-> IF i = 0 THEN AtStart(c) ELSE AfterTaken(opt, end, f[i - 1])]
  <2>2. ASSUME NEW i \in 0..n, i # 0 PROVE w[i - 1] = f[i - 1]
    <3>1. i - 1 \in 0..n /\ i - 1 \in 0..(n - 1)
      BY <2>2
    <3>2. w[i - 1] = IF i - 1 = 0 THEN AtStart(c) ELSE AfterTaken(opt, end, f[(i - 1) - 1])
      BY <3>1
    <3>3. f[i - 1] = IF i - 1 = 0 THEN AtStart(c) ELSE AfterTaken(opt, end, f[(i - 1) - 1])
      BY <2>1, <3>1
    <3> QED
      BY <3>2, <3>3
  <2>3. Upto(n, w)
    <3> DEFINE u == [i \in 0..n |-> IF i = 0 THEN AtStart(c) ELSE AfterTaken(opt, end, w[i - 1])]
    <3>1. \A i \in 0..n : w[i] = u[i]
      BY <2>2
    <3> QED
      BY <3>1
  <2> HIDE DEF w, Upto
  <2>4. n \in 0..end
    OBVIOUS
  <2> QED
    BY <2>3, <2>4
<1>3. \E f : Takes(opt, end, c, f)
  <2>1. end \in T
    <3> HIDE DEF T
    <3> QED
      BY <1>1, <1>2, UpTo
  <2> QED
    BY <2>1 DEF Takes
<1>4. Takes(opt, end, c, g)
  BY <1>3
<1>5. Replay(opt, end, c) = g[end].context
  BY DEF Replay, Takes, AtStart, AfterTaken
<1> HIDE DEF g
<1>6. g[0] = AtStart(c) /\ \A n \in 1..end : g[n] = AfterTaken(opt, end, g[n - 1])
  <2>1. \A n \in 0..end : g[n] = IF n = 0 THEN AtStart(c) ELSE AfterTaken(opt, end, g[n - 1])
    BY <1>4 DEF Takes
  <2>2. 0 \in 0..end /\ \A n \in 1..end : n \in 0..end /\ n # 0
    OBVIOUS
  <2> QED
    BY <2>1, <2>2
<1> QED
  BY <1>5, <1>6

\* To take the packets of a way is to go through its contexts.
LEMMA ReplayIs ==
  ASSUME NEW s, NEW base, NEW end \in Nat, NEW opt, NEW P, NEW ctx,
         Way(s, base, opt, P, ctx, 0, end)
  PROVE  Replay(opt, end, ctx[0]) = ctx[end]
<1>1. PICK f : /\ f[0] = AtStart(ctx[0])
               /\ \A n \in 1..end : f[n] = AfterTaken(opt, end, f[n - 1])
               /\ Replay(opt, end, ctx[0]) = f[end].context
  BY ReplayTakes
<1> DEFINE T == {n \in 0..end : /\ f[n].place \in P /\ f[n].context = ctx[f[n].place]
                                /\ f[n].place = end \/ n <= f[n].place}
<1>2. 0 \in P /\ end \in P /\ P \subseteq 0..end
  BY DEF Way
<1>3. 0 \in T
  <2>1. f[0].place = 0 /\ f[0].context = ctx[0]
    BY <1>1 DEF AtStart
  <2> QED
    BY <1>2, <2>1
<1>4. ASSUME NEW n \in 1..end, n - 1 \in T PROVE n \in T
  <2> DEFINE t == f[n - 1]
             r == f[n]
             p == t.place
             e == opt[p]
  <2>1. p \in P /\ t.context = ctx[p] /\ (p = end \/ n - 1 <= p)
    BY <1>4
  <2>2. r = AfterTaken(opt, end, t)
    BY <1>1
  <2>3. n \in 0..end
    OBVIOUS
  <2> HIDE DEF t, r
  <2>4. CASE p = end
    <3>1. r = t
      BY <2>2, <2>4 DEF AfterTaken
    <3> QED
      BY <2>1, <2>3, <2>4, <3>1 DEF r
  <2>5. CASE p # end
    <3>1. r.place = e.posPrev
          /\ r.context = AfterPacket(t.context, e.posPrev - p, e.backPrev)
      BY <2>2, <2>5 DEF AfterTaken
    <3>2. /\ e.posPrev \in P /\ p < e.posPrev
          /\ ctx[e.posPrev] = AfterPacket(ctx[p], e.posPrev - p, e.backPrev)
      BY <2>1, <2>5 DEF Way
    <3>3. n <= r.place
      <4> DEFINE a == e.posPrev
      <4>1. a \in 0..end /\ p \in 0..end /\ p < a /\ n - 1 <= p
        BY <1>2, <2>1, <2>5, <3>2
      <4> HIDE DEF a, p
      <4>2. n <= a
        BY ONLY <4>1, n \in 1..end, end \in Nat
      <4> QED
        BY <3>1, <4>2 DEF a
    <3> QED
      BY <2>1, <2>3, <3>1, <3>2, <3>3 DEF r
  <2> QED
    BY <2>4, <2>5
<1>5. end \in T
  <2> HIDE DEF T
  <2> QED
    BY <1>3, <1>4, UpTo
<1>6. f[end].place = end
  <2>1. f[end].place \in 0..end /\ (f[end].place = end \/ end <= f[end].place)
    BY <1>2, <1>5
  <2> QED
    BY <2>1
<1> QED
  BY <1>1, <1>5, <1>6

(***************************************************************************)
(* Reports of the match finder.                                            *)
(***************************************************************************)
\* A report on position p.
Told(s, p, report) ==
  \E m \in Nat : /\ report \in [1..m -> [len : 2..FastBytes, dist : 0..(DictSize - 1)]]
                 /\ \A i \in 1..m : Repeated(s, p, report[i].dist, report[i].len)

LEMMA ReportsAre ==
  ASSUME NEW r \in Reports
  PROVE  Told(input, at, r)
<1> DEFINE real == {m \in [len : 2..FastBytes, dist : 0..(DictSize - 1)] :
                      Finder!RepeatsAt(at, m.dist, m.len)}
<1>1. r \in SeqOf(real, MaxReport)
  BY DEF Reports
<1>2. PICK m \in 0..MaxReport : r \in [1..m -> real]
  BY <1>1 DEF SeqOf
<1>3. r \in [1..m -> [len : 2..FastBytes, dist : 0..(DictSize - 1)]]
  BY <1>2
<1>4. \A i \in 1..m : Repeated(input, at, r[i].dist, r[i].len)
  BY <1>2 DEF Finder!RepeatsAt, Repeated
<1>5. m \in Nat
  BY OptimumAssumption
<1> QED
  BY <1>3, <1>4, <1>5, Zenon DEF Told

\* What is said of a report that is not empty.
LEMMA ToldIs ==
  ASSUME NEW s, NEW p, NEW r, Told(s, p, r)
  PROVE  \E m \in Nat :
           /\ DOMAIN r = 1..m /\ Len(r) = m /\ (r = << >> <=> m = 0)
           /\ m > 0 => Last(r) = r[m]
           /\ \A i \in 1..m : /\ r[i].len \in 2..FastBytes /\ r[i].dist \in 0..(DictSize - 1)
                              /\ Repeated(s, p, r[i].dist, r[i].len)
<1>1. PICK m \in Nat : /\ r \in [1..m -> [len : 2..FastBytes, dist : 0..(DictSize - 1)]]
                       /\ \A i \in 1..m : Repeated(s, p, r[i].dist, r[i].len)
  BY DEF Told
<1>2. r \in Seq([len : 2..FastBytes, dist : 0..(DictSize - 1)]) /\ Len(r) = m
  <2> DEFINE S == [len : 2..FastBytes, dist : 0..(DictSize - 1)]
  <2>1. r \in [1..m -> S]
    BY <1>1
  <2> HIDE DEF S
  <2>2. r \in Seq(S) /\ Len(r) = m
    BY <2>1
  <2> QED
    BY <2>2 DEF S
<1>3. r = << >> <=> m = 0
  BY <1>2
<1>4. Last(r) = r[m]
  BY <1>2 DEF Last
<1> QED
  BY <1>1, <1>2, <1>3, <1>4

\* Bytes repeated, and then more at the same distance.
LEMMA RepeatedOn ==
  ASSUME NEW s, Len(s) \in Nat, NEW p \in Nat, NEW d \in Nat, NEW n \in Nat, NEW m \in Nat,
         Repeated(s, p, d, n), Repeated(s, p + n, d, m)
  PROVE  Repeated(s, p, d, n + m)
<1>1. d < p /\ p + (n + m) <= Len(s)
  BY DEF Repeated
<1>2. ASSUME NEW i \in 1..(n + m) PROVE s[p + i] = s[p + i - d - 1]
  <2>1. CASE i \in 1..n
    BY <2>1 DEF Repeated
  <2>2. CASE i \notin 1..n
    <3>1. i - n \in 1..m /\ p + n + (i - n) = p + i /\ p + n + (i - n) - d - 1 = p + i - d - 1
      BY <2>2
    <3>2. s[p + n + (i - n)] = s[p + n + (i - n) - d - 1]
      BY <3>1 DEF Repeated
    <3> QED
      BY <3>1, <3>2
  <2> QED
    BY <2>1, <2>2
<1> QED
  BY <1>1, <1>2 DEF Repeated

\* The first match that is long enough.
LEMMA FirstOfIs ==
  ASSUME NEW r, NEW m \in Nat, DOMAIN r = 1..m, \A j \in 1..m : r[j].len \in Int,
         NEW n \in Int, NEW i \in 1..m, r[i].len >= n
  PROVE  FirstOf(r, n) \in 1..m /\ r[FirstOf(r, n)].len >= n
<1> DEFINE T == {k \in 1..m : r[k].len >= n}
<1>1. PICK k \in T : \A j \in T : k <= j
  <2>1. T \subseteq Nat /\ T # {}
    OBVIOUS
  <2> HIDE DEF T
  <2> QED
    BY <2>1, Least1
<1>2. k \in DOMAIN r /\ r[k].len >= n
  BY <1>1
<1>3. ASSUME NEW j \in 1..(k - 1) PROVE r[j].len < n
  <2>1. j \in 1..m /\ j < k
    BY <1>1
  <2>2. ~(r[j].len >= n)
    BY <1>1, <2>1
  <2>3. r[j].len \in Int
    BY <2>1
  <2> QED
    BY <2>2, <2>3
<1>4. \E x \in DOMAIN r : r[x].len >= n /\ \A j \in 1..(x - 1) : r[j].len < n
  BY <1>2, <1>3
<1>5. FirstOf(r, n) \in DOMAIN r /\ r[FirstOf(r, n)].len >= n
  BY <1>4 DEF FirstOf
<1> QED
  BY <1>5

\* readMatchDistances. q is the position after the one reported on.
LEMMA LongestIs ==
  ASSUME input \in Seq(Byte), NEW q \in Nat \ {0}, NEW r, Told(input, q - 1, r)
  PROVE  LET n == Longest(q, r)
         IN  /\ n \in Nat /\ n <= MaxLen /\ (n < FastBytes \/ r # << >>)
             /\ r = << >> => n = 0
             /\ r # << >> =>
                  /\ Last(r).dist \in 0..(DictSize - 1) /\ Last(r).len \in 2..FastBytes
                  /\ n >= Last(r).len /\ Repeated(input, q - 1, Last(r).dist, n)
                  /\ n < FastBytes => n = Last(r).len
<1> DEFINE n == Longest(q, r)
<1>c. /\ FastBytes \in Nat /\ MaxLen \in Nat /\ 2 <= FastBytes /\ FastBytes <= MaxLen
      /\ DictSize \in Nat /\ Len(input) \in Nat
  BY OptimumAssumption
<1>1. CASE r = << >>
  <2>1. n = 0
    BY <1>1 DEF Longest
  <2> QED
    BY <1>1, <1>c, <2>1
<1>2. CASE r # << >>
  <2> DEFINE l == Last(r).len
             d == Last(r).dist
             k == MatchLen(q, l - 1, d, MaxLen - l)
  <2>1. l \in 2..FastBytes /\ d \in 0..(DictSize - 1) /\ Repeated(input, q - 1, d, l)
    <3>1. PICK m \in Nat :
            /\ r = << >> <=> m = 0
            /\ m > 0 => Last(r) = r[m]
            /\ \A i \in 1..m : /\ r[i].len \in 2..FastBytes /\ r[i].dist \in 0..(DictSize - 1)
                               /\ Repeated(input, q - 1, r[i].dist, r[i].len)
      BY ToldIs, Zenon
    <3>2. m \in 1..m /\ m > 0
      BY <1>2, <3>1
    <3> QED
      BY <3>1, <3>2
  <2>2. n = IF l = FastBytes THEN l + k ELSE l
    BY <1>2 DEF Longest
  <2> HIDE DEF l, d, n
  <2>3. CASE l # FastBytes
    BY <1>2, <1>c, <2>1, <2>2, <2>3 DEF n, l, d
  <2>4. CASE l = FastBytes
    <3>1. /\ l \in Nat /\ d \in Nat /\ l - 1 \in Int /\ MaxLen - l \in Nat
          /\ d < q - 1 /\ q + (l - 1) \in Nat /\ q + (l - 1) <= Len(input) /\ d < q + (l - 1)
          /\ q + (l - 1) = q - 1 + l
      BY <1>c, <2>1, <2>4 DEF Repeated
    <3>2. k \in 0..(MaxLen - l) /\ Repeated(input, q + (l - 1), d, k)
      BY <3>1, MatchLenIs
    <3> HIDE DEF k
    <3>3. k \in Nat /\ q - 1 \in Nat /\ Repeated(input, q - 1 + l, d, k)
      BY <3>1, <3>2
    <3>4. Repeated(input, q - 1, d, l + k)
      BY <1>c, <2>1, <3>1, <3>3, RepeatedOn
    <3>5. n = l + k /\ n \in Nat /\ n >= l /\ n <= MaxLen /\ ~(n < FastBytes)
      BY <1>c, <2>2, <2>4, <3>1, <3>2, <3>3
    <3> QED
      BY <1>2, <2>1, <3>4, <3>5 DEF n, l, d
  <2> QED
    BY <2>3, <2>4
<1> QED
  BY <1>1, <1>2

\* n bytes at the distance that a report has for them.
LEMMA DistanceForIs ==
  ASSUME NEW s, Len(s) \in Nat, NEW p \in Nat, NEW r, Told(s, p, r), r # << >>,
         NEW n \in Nat, n <= Last(r).len
  PROVE  LET d == DistanceFor(r, n)
         IN  d \in 0..(DictSize - 1) /\ Repeated(s, p, d, n)
<1>1. PICK m \in Nat :
        /\ DOMAIN r = 1..m /\ (r = << >> <=> m = 0)
        /\ m > 0 => Last(r) = r[m]
        /\ \A i \in 1..m : /\ r[i].len \in 2..FastBytes /\ r[i].dist \in 0..(DictSize - 1)
                           /\ Repeated(s, p, r[i].dist, r[i].len)
  BY ToldIs, Zenon
<1>c. FastBytes \in Nat /\ DictSize \in Nat
  BY OptimumAssumption
<1>2. m \in 1..m /\ m > 0 /\ \A i \in 1..m : r[i].len \in Int
  BY <1>1, <1>c
<1>3. r[m].len >= n
  <2>1. Last(r) = r[m] /\ r[m].len \in Int
    BY <1>1, <1>2
  <2> QED
    BY <2>1
<1> DEFINE k == FirstOf(r, n)
<1>4. k \in 1..m /\ r[k].len >= n
  BY <1>1, <1>2, <1>3, FirstOfIs
<1> HIDE DEF k
<1>5. r[k].len \in Nat /\ r[k].dist \in 0..(DictSize - 1) /\ Repeated(s, p, r[k].dist, r[k].len)
  <2>1. /\ r[k].len \in 2..FastBytes /\ r[k].dist \in 0..(DictSize - 1)
        /\ Repeated(s, p, r[k].dist, r[k].len)
    BY <1>1, <1>4, Zenon
  <2> QED
    BY <1>c, <2>1
<1>6. Repeated(s, p, r[k].dist, n)
  BY <1>4, <1>5, <1>c, RepeatedLess
<1> QED
  BY <1>5, <1>6 DEF DistanceFor, k

\* A report cut is a report.
LEMMA TruncatedIs ==
  ASSUME NEW s, Len(s) \in Nat, NEW p \in Nat, NEW r, Told(s, p, r), r # << >>,
         NEW n \in 2..FastBytes, n <= Last(r).len
  PROVE  LET cut == Truncated(r, n)
         IN  Told(s, p, cut) /\ cut # << >> /\ Last(cut).len = n
<1> DEFINE S == [len : 2..FastBytes, dist : 0..(DictSize - 1)]
           k == FirstOf(r, n)
           sub == SubSeq(r, 1, k)
           cut == [sub EXCEPT ![k].len = n]
<1>c. FastBytes \in Nat /\ DictSize \in Nat /\ n \in Nat
  BY OptimumAssumption
<1>1. PICK m \in Nat : /\ r \in [1..m -> S]
                       /\ \A i \in 1..m : Repeated(s, p, r[i].dist, r[i].len)
  BY DEF Told
<1>2. r \in Seq(S) /\ Len(r) = m /\ DOMAIN r = 1..m
  <2> HIDE DEF S
  <2> QED
    BY <1>1
<1>3. m # 0
  <2> HIDE DEF S
  <2> QED
    BY <1>1, <1>2
<1>4. m \in 1..m /\ Last(r) = r[m] /\ \A i \in 1..m : r[i].len \in 2..FastBytes
  <2>1. \A i \in 1..m : r[i].len \in 2..FastBytes
    BY <1>1
  <2> QED
    BY <1>2, <1>3, <2>1 DEF Last
<1>5. k \in 1..m /\ r[k].len >= n
  <2>1. \A i \in 1..m : r[i].len \in Int
    BY <1>4, <1>c
  <2>2. r[m].len >= n
    BY <1>4, <1>c
  <2> QED
    BY <1>2, <1>4, <1>c, <2>1, <2>2, FirstOfIs, SMTT(30)
<1> HIDE DEF k
<1>6. sub \in [1..k -> S] /\ \A i \in 1..k : sub[i] = r[i]
  <2> HIDE DEF S
  <2>1. sub \in Seq(S) /\ Len(sub) = k
    BY <1>2, <1>5
  <2>2. ASSUME NEW i \in 1..k PROVE sub[i] = r[i]
    BY <1>2, <1>5
  <2> HIDE DEF sub
  <2>3. DOMAIN sub = 1..k /\ \A i \in 1..k : sub[i] \in S
    BY <2>1
  <2>4. sub = [i \in DOMAIN sub |-> sub[i]]
    BY <2>1
  <2> QED
    BY <2>2, <2>3, <2>4
<1> HIDE DEF sub
<1>7. cut \in [1..k -> S] /\ cut[k].len = n /\ cut[k].dist = r[k].dist
      /\ \A i \in 1..k : i # k => cut[i] = r[i]
  <2>1. sub[k] \in S /\ k \in 1..k
    BY <1>5, <1>6
  <2>2. [sub[k] EXCEPT !.len = n] \in S
    BY <2>1, n \in 2..FastBytes
  <2>3. cut = [sub EXCEPT ![k] = [sub[k] EXCEPT !.len = n]]
    OBVIOUS
  <2>4. cut[k].len = n /\ cut[k].dist = r[k].dist
    BY <1>6, <2>1, <2>3
  <2>5. cut \in [1..k -> S] /\ \A i \in 1..k : i # k => cut[i] = r[i]
    <3> HIDE DEF S, cut
    <3> QED
      BY <1>6, <2>1, <2>2, <2>3
  <2> QED
    BY <2>4, <2>5
<1> HIDE DEF cut
<1>8. \A i \in 1..k : Repeated(s, p, cut[i].dist, cut[i].len)
  <2>1. ASSUME NEW i \in 1..k PROVE Repeated(s, p, cut[i].dist, cut[i].len)
    <3>1. Repeated(s, p, r[i].dist, r[i].len)
      BY <1>1, <1>5
    <3>2. CASE i # k
      BY <1>7, <3>1, <3>2
    <3>3. CASE i = k
      <4>1. r[k].len \in Nat /\ r[k].dist \in Int
        BY SMTT(30), <1>1, <1>5, <1>c
      <4>2. Repeated(s, p, r[k].dist, n)
        BY <1>5, <1>c, <3>1, <3>3, <4>1, RepeatedLess
      <4> QED
        BY <1>7, <3>3, <4>2
    <3> QED
      BY <3>2, <3>3
  <2> QED
    BY <2>1
<1>9. k \in Nat /\ cut # << >> /\ Last(cut) = cut[k]
  <2>1. k \in Nat /\ k # 0
    BY <1>5
  <2>2. cut \in Seq(S) /\ Len(cut) = k
    <3> HIDE DEF S
    <3> QED
      BY <1>7, <2>1
  <2> HIDE DEF S
  <2> QED
    BY <2>1, <2>2 DEF Last
<1>10. Told(s, p, cut)
  BY <1>7, <1>8, <1>9 DEF Told
<1>11. cut = Truncated(r, n)
  BY DEF cut, sub, k, Truncated
<1> QED
  BY <1>7, <1>9, <1>10, <1>11

(***************************************************************************)
(* The comparison of candidates.                                           *)
(***************************************************************************)
\* optimum when the places before n have been dealt with.
Dealt(opt, C, lo, n, w) ==
  /\ w = [i \in DOMAIN w |-> w[i]] /\ DOMAIN w = DOMAIN opt \cup lo..(lo + n - 1)
  /\ \A i \in DOMAIN w : IF i \in lo..(lo + n - 1) THEN w[i] \in Cheapest(opt, C, i)
                         ELSE w[i] = opt[i]

MoreWays(opt, C, lo, n, W) ==
  {Extended(w, lo + n - 1, e) : w \in W, e \in Cheapest(opt, C, lo + n - 1)}

LEMMA RelaxedIs ==
  ASSUME NEW opt, opt = [i \in DOMAIN opt |-> opt[i]], NEW C, NEW lo \in Int, NEW hi \in Int,
         hi - lo + 1 \in Nat, NEW w \in Relaxed(opt, C, lo, hi)
  PROVE  Dealt(opt, C, lo, hi - lo + 1, w)
<1> DEFINE k == hi - lo + 1
           Eq(n, f) == f = [i \in 0..n |-> IF i = 0 THEN {opt} ELSE MoreWays(opt, C, lo, i, f[i - 1])]
           T == {n \in 0..k : \E f : Eq(n, f)}
           g == CHOOSE f : Eq(k, f)
<1>k. k \in Nat
  OBVIOUS
<1>0. w \in g[k]
  BY DEF Relaxed, MoreWays
<1> HIDE DEF k
<1>1. 0 \in T
  <2> DEFINE u == [i \in 0..0 |-> {opt}]
  <2>1. Eq(0, u)
    <3>1. \A i \in 0..0 : i = 0
      OBVIOUS
    <3> QED
      BY <3>1
  <2> HIDE DEF u, Eq
  <2>2. 0 \in 0..k
    BY <1>k
  <2> QED
    BY <2>1, <2>2
<1>2. ASSUME NEW n \in 1..k, n - 1 \in T PROVE n \in T
  <2>1. PICK f : Eq(n - 1, f)
    BY <1>2
  <2> DEFINE u == [i \in 0..n |-> IF i = 0 THEN {opt} ELSE MoreWays(opt, C, lo, i, f[i - 1])]
  <2>2. ASSUME NEW i \in 0..n, i # 0 PROVE u[i - 1] = f[i - 1]
    <3>1. i - 1 \in 0..n /\ i - 1 \in 0..(n - 1)
      BY <2>2
    <3>2. u[i - 1] = IF i - 1 = 0 THEN {opt} ELSE MoreWays(opt, C, lo, i - 1, f[(i - 1) - 1])
      BY <3>1
    <3>3. f[i - 1] = IF i - 1 = 0 THEN {opt} ELSE MoreWays(opt, C, lo, i - 1, f[(i - 1) - 1])
      BY <2>1, <3>1
    <3> QED
      BY <3>2, <3>3
  <2>3. Eq(n, u)
    <3> DEFINE v == [i \in 0..n |-> IF i = 0 THEN {opt} ELSE MoreWays(opt, C, lo, i, u[i - 1])]
    <3>1. \A i \in 0..n : u[i] = v[i]
      BY <2>2
    <3> QED
      BY <3>1
  <2> HIDE DEF u, Eq
  <2>4. n \in 0..k
    BY <1>k
  <2> QED
    BY <2>3, <2>4
<1>3. Eq(k, g)
  <2>1. k \in T
    <3> HIDE DEF T
    <3> QED
      BY <1>k, <1>1, <1>2, UpTo
  <2> QED
    BY <2>1
<1> HIDE DEF g
<1> DEFINE U == {n \in 0..k : \A v \in g[n] : Dealt(opt, C, lo, n, v)}
<1>4. 0 \in U
  <2>1. g[0] = {opt} /\ 0 \in 0..k
    BY <1>k, <1>3
  <2>2. lo..(lo + 0 - 1) = {}
    OBVIOUS
  <2>3. Dealt(opt, C, lo, 0, opt)
    BY <2>2 DEF Dealt
  <2> QED
    BY <2>1, <2>3
<1>5. ASSUME NEW n \in 1..k, n - 1 \in U PROVE n \in U
  <2> DEFINE x == lo + n - 1
  <2>1. n \in 0..k /\ g[n] = MoreWays(opt, C, lo, n, g[n - 1])
    <3>1. n \in 0..k /\ n # 0
      BY <1>k
    <3> QED
      BY <1>3, <3>1
  <2>2. ASSUME NEW v \in g[n] PROVE Dealt(opt, C, lo, n, v)
    <3>1. PICK u \in g[n - 1], e \in Cheapest(opt, C, x) : v = Extended(u, x, e)
      BY <2>1, <2>2 DEF MoreWays
    <3>2. Dealt(opt, C, lo, n - 1, u)
      BY <1>5
    <3>3. v = [y \in DOMAIN u \cup {x} |-> IF y = x THEN e ELSE u[y]]
      BY <3>1 DEF Extended
    <3>4. lo..x = lo..(lo + (n - 1) - 1) \cup {x} /\ x \notin lo..(lo + (n - 1) - 1)
      OBVIOUS
    <3> HIDE DEF x
    <3>5. DOMAIN v = DOMAIN opt \cup lo..x /\ v = [i \in DOMAIN v |-> v[i]]
      BY <3>2, <3>3, <3>4 DEF Dealt
    <3>6. ASSUME NEW i \in DOMAIN v
          PROVE  IF i \in lo..x THEN v[i] \in Cheapest(opt, C, i) ELSE v[i] = opt[i]
      BY <3>1, <3>2, <3>3, <3>4, <3>5 DEF Dealt
    <3> QED
      BY <3>5, <3>6 DEF Dealt, x
  <2> QED
    BY <2>1, <2>2
<1>6. k \in U
  <2> HIDE DEF U
  <2> QED
    BY <1>k, <1>4, <1>5, UpTo
<1> QED
  BY <1>0, <1>6 DEF k

(***************************************************************************)
(* The context the main loop works out for a place.                        *)
(***************************************************************************)
LEMMA RepsMovedIs ==
  ASSUME NEW S, NEW b \in [Reps -> S], NEW k \in Reps
  PROVE  RepsMoved(b, k) = Parse!ToFront(b, k)
<1> DEFINE moved == Parse!ToFront(b, k)
<1>1. k \in {0, 1, 2, 3} /\ DOMAIN b = Reps /\ Reps = {0, 1, 2, 3}
  BY FourReps
<1>2. moved = [i \in Reps |-> CASE i = 0 -> b[k]
                                [] 0 < i /\ i <= k -> b[i - 1]
                                [] OTHER -> b[i]]
  BY DEF Parse!ToFront, Reps
<1> HIDE DEF moved
<1>3. /\ DOMAIN moved = Reps /\ moved = [i \in Reps |-> moved[i]] /\ moved[0] = b[k]
      /\ moved[1] = IF 1 <= k THEN b[0] ELSE b[1]
      /\ moved[2] = IF 2 <= k THEN b[1] ELSE b[2]
      /\ moved[3] = IF 3 <= k THEN b[2] ELSE b[3]
  <2>1. DOMAIN moved = Reps /\ moved = [i \in Reps |-> moved[i]]
    BY <1>2
  <2>2. moved[0] = b[k]
    BY <1>1, <1>2
  <2>3. moved[1] = IF 1 <= k THEN b[0] ELSE b[1]
    BY <1>1, <1>2
  <2>4. moved[2] = IF 2 <= k THEN b[1] ELSE b[2]
    BY <1>1, <1>2
  <2>5. moved[3] = IF 3 <= k THEN b[2] ELSE b[3]
    BY <1>1, <1>2
  <2> QED
    BY <2>1, <2>2, <2>3, <2>4, <2>5
<1> DEFINE got == RepsMoved(b, k)
<1>4. /\ got = [i \in Reps |-> got[i]] /\ got[0] = b[k]
      /\ got[1] = IF 1 <= k THEN b[0] ELSE b[1]
      /\ got[2] = IF 2 <= k THEN b[1] ELSE b[2]
      /\ got[3] = IF 3 <= k THEN b[2] ELSE b[3]
  <2>1. CASE k = 0
    BY <1>1, <2>1 DEF RepsMoved
  <2>2. CASE k = 1
    <3>1. got = [b EXCEPT ![0] = b[1], ![1] = b[0]]
      BY <2>2 DEF RepsMoved
    <3> HIDE DEF got
    <3>2. DOMAIN got = Reps /\ got = [i \in Reps |-> got[i]]
      BY <1>1, <3>1
    <3>3. got[0] = b[k]
      BY <1>1, <2>2, <3>1
    <3>4. got[1] = IF 1 <= k THEN b[0] ELSE b[1]
      BY <1>1, <2>2, <3>1
    <3>5. got[2] = IF 2 <= k THEN b[1] ELSE b[2]
      BY <1>1, <2>2, <3>1
    <3>6. got[3] = IF 3 <= k THEN b[2] ELSE b[3]
      BY <1>1, <2>2, <3>1
    <3> QED
      BY <3>2, <3>3, <3>4, <3>5, <3>6
  <2>3. CASE k = 2
    <3>1. got = [b EXCEPT ![0] = b[2], ![1] = b[0], ![2] = b[1]]
      BY <2>3 DEF RepsMoved
    <3> HIDE DEF got
    <3>2. DOMAIN got = Reps /\ got = [i \in Reps |-> got[i]]
      BY <1>1, <3>1
    <3>3. got[0] = b[k]
      BY <1>1, <2>3, <3>1
    <3>4. got[1] = IF 1 <= k THEN b[0] ELSE b[1]
      BY <1>1, <2>3, <3>1
    <3>5. got[2] = IF 2 <= k THEN b[1] ELSE b[2]
      BY <1>1, <2>3, <3>1
    <3>6. got[3] = IF 3 <= k THEN b[2] ELSE b[3]
      BY <1>1, <2>3, <3>1
    <3> QED
      BY <3>2, <3>3, <3>4, <3>5, <3>6
  <2>4. CASE k = 3
    <3>1. got = [b EXCEPT ![0] = b[3], ![1] = b[0], ![2] = b[1], ![3] = b[2]]
      BY <2>4 DEF RepsMoved
    <3> HIDE DEF got
    <3>2. DOMAIN got = Reps /\ got = [i \in Reps |-> got[i]]
      BY <1>1, <3>1
    <3>3. got[0] = b[k]
      BY <1>1, <2>4, <3>1
    <3>4. got[1] = IF 1 <= k THEN b[0] ELSE b[1]
      BY <1>1, <2>4, <3>1
    <3>5. got[2] = IF 2 <= k THEN b[1] ELSE b[2]
      BY <1>1, <2>4, <3>1
    <3>6. got[3] = IF 3 <= k THEN b[2] ELSE b[3]
      BY <1>1, <2>4, <3>1
    <3> QED
      BY <3>2, <3>3, <3>4, <3>5, <3>6
  <2> QED
    BY <1>1, <2>1, <2>2, <2>3, <2>4
<1> HIDE DEF got
<1>5. \A i \in Reps : got[i] = moved[i]
  BY <1>1, <1>3, <1>4
<1> QED
  BY <1>3, <1>4, <1>5 DEF got, moved

LEMMA NewFirstIs ==
  ASSUME NEW b, NEW d
  PROVE  NewFirst(b, d) = Parse!Pushed(b, d)
BY DEF NewFirst, Parse!Pushed, Reps

LEMMA ContextIs ==
  ASSUME NEW s, NEW base, NEW end, NEW cur, Table(s, base, optimum, end, context, cur)
  PROVE  ContextAt(cur) = ContextOf(optimum, context, cur)
<1> DEFINE e == optimum[cur]
           o == Origin(e)
           c == context[o]
           m == e.posPrev
           n == cur - m
           back == e.backPrev
<1> USE FourReps
<1>1. cur \in Nat /\ cur # 0 /\ base \in Nat \ {0} /\ cur \in 1..end /\ cur \in 1..cur
  BY DEF Table
<1>2. e \in Entries /\ o \in 0..(cur - 1) /\ Leads(s, base, cur, e, c)
  <2>1. e # Infinite /\ e \in Entries
    BY <1>1 DEF Table
  <2> QED
    BY <1>1, <2>1 DEF Table
<1>3. Sound(c, base + o) /\ base + o \in Nat
  <2> HIDE DEF o
  <2> QED
    BY <1>1, <1>2 DEF Table
<1>4. /\ m \in Int /\ back \in Int /\ e.posPrev2 \in Int /\ e.backPrev2 \in Int
      /\ e.prev1IsChar \in BOOLEAN /\ e.prev2 \in BOOLEAN
  BY <1>2 DEF Entries
<1>5. /\ n \in 1..FastBytes /\ Fits(s, base + m, n, back, Halfway(e, c))
      /\ e.prev1IsChar => back = 0 /\ n >= 2 /\ o < m
      /\ e.prev1IsChar /\ e.prev2 =>
           /\ m - 1 - e.posPrev2 \in 2..FastBytes
           /\ Fits(s, base + e.posPrev2, m - 1 - e.posPrev2, e.backPrev2, c)
  BY <1>2 DEF Leads
<1>6. ContextOf(optimum, context, cur) = AfterPacket(Halfway(e, c), n, back)
  BY <1>1 DEF ContextOf, Arrived
<1>f. FastBytes \in Nat
  BY OptimumAssumption
<1>b. c.reps \in [Reps -> Before(base + o)]
  BY <1>3 DEF Sound
<1>7. CASE ~e.prev1IsChar
  <2>1. o = m /\ Halfway(e, c) = c
    BY <1>7 DEF Origin, Halfway
  <2>2. ContextAt(cur) =
          IF m = cur - 1
          THEN [state |-> IF back = 0 THEN Parse!AfterShortRep(c.state)
                          ELSE Parse!AfterLiteral(c.state),
                reps |-> context[cur - 1].reps]
          ELSE [state |-> IF back < NumReps THEN Parse!AfterRep(c.state)
                          ELSE Parse!AfterMatch(c.state),
                reps |-> IF back < NumReps THEN RepsMoved(c.reps, back)
                         ELSE NewFirst(c.reps, back - NumReps)]
    BY <1>7, <2>1 DEF ContextAt
  <2> HIDE DEF e, m, back
  <2>3. CASE n = 1
    <3>1. m = cur - 1
      BY <1>1, <1>4, <2>3
    <3>2. back = Char \/ back = 0
      BY <1>5, <2>3 DEF Fits
    <3>3. context[cur - 1] = c
      BY <2>1, <3>1
    <3>4. /\ AfterPacket(c, 1, Char) = [state |-> Parse!AfterLiteral(c.state), reps |-> c.reps]
          /\ AfterPacket(c, 1, 0) = [state |-> Parse!AfterShortRep(c.state), reps |-> c.reps]
      BY <1>3, AfterIs, 2 \in Nat /\ 2 >= 2
    <3> HIDE DEF c, n, o
    <3>5. CASE back = Char
      BY <1>6, <2>1, <2>2, <2>3, <3>1, <3>3, <3>4, <3>5
    <3>6. CASE back = 0
      BY <1>6, <2>1, <2>2, <2>3, <3>1, <3>3, <3>4, <3>6
    <3> QED
      BY <3>2, <3>5, <3>6
  <2>4. CASE n # 1
    <3>1. n \in Nat /\ n >= 2 /\ m # cur - 1
      BY <1>1, <1>4, <1>5, <1>f, <2>4
    <3>2. back \in Reps \/ (back \in Nat /\ back \notin Reps /\ ~(back < NumReps))
      BY <1>5, <2>4 DEF Fits
    <3>3. CASE back \in Reps
      <4>1. AfterPacket(c, n, back) = [state |-> Parse!AfterRep(c.state),
                                       reps |-> Parse!ToFront(c.reps, back)]
        BY <1>3, <3>1, <3>3, AfterIs
      <4>2. back < NumReps /\ RepsMoved(c.reps, back) = Parse!ToFront(c.reps, back)
        BY <1>b, <3>3, RepsMovedIs
      <4> HIDE DEF c, n, o
      <4> QED
        BY <1>6, <2>1, <2>2, <3>1, <4>1, <4>2
    <3>4. CASE back \in Nat /\ back \notin Reps /\ ~(back < NumReps)
      <4>1. AfterPacket(c, n, back) = [state |-> Parse!AfterMatch(c.state),
                                       reps |-> Parse!Pushed(c.reps, back - NumReps)]
        BY <1>3, <3>1, <3>4, AfterIs
      <4> HIDE DEF c, n, o
      <4> QED
        BY <1>6, <2>1, <2>2, <3>1, <3>4, <4>1, NewFirstIs
    <3> QED
      BY <3>2, <3>3, <3>4
  <2> QED
    BY <2>3, <2>4
<1>8. CASE e.prev1IsChar
  <2> DEFINE c1 == IF e.prev2 THEN AfterPacket(c, m - 1 - e.posPrev2, e.backPrev2) ELSE c
  <2>0. Halfway(e, c) = AfterPacket(c1, 1, Char) /\ back = 0 /\ n >= 2
    BY <1>5, <1>8 DEF Halfway
  <2>1. Halfway(e, c) = AfterPacket(c1, 1, Char) /\ back = 0 /\ n >= 2 /\ m # cur
    <3> HIDE DEF m, c1
    <3> QED
      BY <1>1, <1>4, <2>0
  <2>2. m - 1 # cur - 1 /\ n \in Nat
    <3> HIDE DEF m
    <3> QED
      BY <1>1, <1>4, <1>5, <1>f, <2>1
  <2>3. /\ \E p \in Nat : Sound(c1, p)
        /\ c1.reps = IF e.prev2 THEN IF e.backPrev2 < NumReps THEN RepsMoved(c.reps, e.backPrev2)
                                     ELSE NewFirst(c.reps, e.backPrev2 - NumReps)
                     ELSE c.reps
        /\ c1.state = IF e.prev2 THEN IF e.backPrev2 < NumReps THEN Parse!AfterRep(c.state)
                                      ELSE Parse!AfterMatch(c.state)
                      ELSE c.state
    <3>1. CASE ~e.prev2
      BY <1>3, <3>1
    <3>2. CASE e.prev2
      <4> DEFINE n2 == m - 1 - o
                 back2 == e.backPrev2
      <4>1. o = e.posPrev2
        BY <1>8, <3>2 DEF Origin
      <4>2. n2 \in 2..FastBytes /\ Fits(s, base + o, n2, back2, c)
        BY <1>5, <1>8, <3>2, <4>1
      <4>3. c1 = AfterPacket(c, n2, back2)
        BY <3>2, <4>1
      <4> HIDE DEF n2, c1
      <4>n. n2 \in Nat /\ n2 >= 2 /\ base + o \in Nat \ {0}
        <5> HIDE DEF o
        <5> QED
          BY <1>1, <1>2, <1>f, <4>2
      <4>l. Len(s) \in Nat
        BY DEF Table
      <4>4. Sound(c1, (base + o) + n2) /\ (base + o) + n2 \in Nat
        BY <1>3, <4>2, <4>3, <4>l, <4>n, FitsIs
      <4> HIDE DEF back2
      <4>5. back2 \in Reps \/ (back2 \in Nat /\ back2 \notin Reps /\ ~(back2 < NumReps))
        BY <4>2, <4>n DEF Fits
      <4>6. CASE back2 \in Reps
        <5>1. AfterPacket(c, n2, back2) = [state |-> Parse!AfterRep(c.state),
                                           reps |-> Parse!ToFront(c.reps, back2)]
          BY <1>3, <4>n, <4>6, AfterIs
        <5>2. back2 < NumReps /\ RepsMoved(c.reps, back2) = Parse!ToFront(c.reps, back2)
          BY <1>b, <4>6, RepsMovedIs
        <5>3. c1.reps = RepsMoved(c.reps, back2) /\ c1.state = Parse!AfterRep(c.state)
          BY <4>3, <5>1, <5>2
        <5> QED
          BY <3>2, <4>4, <5>2, <5>3 DEF back2
      <4>7. CASE back2 \in Nat /\ back2 \notin Reps /\ ~(back2 < NumReps)
        <5>1. AfterPacket(c, n2, back2) = [state |-> Parse!AfterMatch(c.state),
                                           reps |-> Parse!Pushed(c.reps, back2 - NumReps)]
          BY <1>3, <4>n, <4>7, AfterIs
        <5>3. c1.reps = NewFirst(c.reps, back2 - NumReps)
              /\ c1.state = Parse!AfterMatch(c.state)
          BY <4>3, <5>1, NewFirstIs
        <5> QED
          BY <3>2, <4>4, <4>7, <5>3 DEF back2
      <4> QED
        BY <4>5, <4>6, <4>7
    <3> QED
      BY <1>4, <3>1, <3>2
  <2> DEFINE h == AfterPacket(c1, 1, Char)
  <2>4. PICK p \in Nat : Sound(c1, p)
    BY <2>3
  <2>5. h = [state |-> Parse!AfterLiteral(c1.state), reps |-> c1.reps]
    BY <2>4, AfterIs, 2 \in Nat /\ 2 >= 2
  <2>6. Sound(h, p)
    BY <2>4, <2>5 DEF Sound
  <2> HIDE DEF h
  <2>7. AfterPacket(h, n, 0) = [state |-> Parse!AfterRep(h.state), reps |-> h.reps]
    <3>1. AfterPacket(h, n, 0) = [state |-> Parse!AfterRep(h.state),
                                  reps |-> Parse!ToFront(h.reps, 0)]
      BY <2>1, <2>2, <2>6, AfterIs
    <3>2. Parse!ToFront(h.reps, 0) = h.reps
      BY <2>6, ToFrontSame DEF Sound
    <3> QED
      BY <3>1, <3>2
  <2>8. h.state = Parse!AfterLiteral(c1.state) /\ h.reps = c1.reps
    BY <2>5
  <2>9. ContextAt(cur) = [state |-> Parse!AfterRep(Parse!AfterLiteral(c1.state)), reps |-> c1.reps]
    <3> DEFINE s1 == IF e.prev2 THEN IF e.backPrev2 < NumReps THEN Parse!AfterRep(c.state)
                                     ELSE Parse!AfterMatch(c.state)
                     ELSE c.state
               r1 == IF e.prev2 THEN IF e.backPrev2 < NumReps THEN RepsMoved(c.reps, e.backPrev2)
                                     ELSE NewFirst(c.reps, e.backPrev2 - NumReps)
                     ELSE c.reps
    <3>1. c1.state = s1 /\ c1.reps = r1
      BY <2>3
    <3> HIDE DEF c1
    <3>2. CASE e.prev2
      <4>1. o = e.posPrev2
        BY <1>8, <3>2 DEF Origin
      <4>2. ContextAt(cur) = [state |-> Parse!AfterRep(Parse!AfterLiteral(s1)), reps |-> r1]
        BY <1>8, <2>2, <3>2, <4>1 DEF ContextAt
      <4> QED
        BY <3>1, <4>2, Zenon
    <3>3. CASE ~e.prev2
      <4>1. o = m - 1
        BY <1>8, <3>3 DEF Origin
      <4>2. RepsMoved(c.reps, 0) = c.reps
        BY DEF RepsMoved
      <4>3. ContextAt(cur) = [state |-> Parse!AfterRep(Parse!AfterLiteral(s1)), reps |-> r1]
        BY <1>8, <2>1, <2>2, <3>3, <4>1, <4>2 DEF ContextAt
      <4> QED
        BY <3>1, <4>3, Zenon
    <3> QED
      BY <3>2, <3>3
  <2>10. ContextOf(optimum, context, cur) = AfterPacket(h, n, 0)
    BY <1>6, <2>1 DEF h
  <2> QED
    BY <2>7, <2>8, <2>9, <2>10
<1> QED
  BY <1>4, <1>7, <1>8

(***************************************************************************)
(* The candidates of a turn of the main loop: each is an entry that stands *)
(* for packets that fit, from cur on, and is within the table.             *)
(***************************************************************************)
Candidate(s, base, cur, c, place, e) ==
  /\ e \in Entries /\ e # Infinite /\ Origin(e) = cur
  /\ place \in Nat /\ cur < place /\ place < NumOpts /\ base + place <= Len(s)
  /\ Leads(s, base, place, e, c)

\* The main loop is at cur, where the context is c, and q bytes are passed.
Here(base, cur, c, q) ==
  /\ input \in Seq(Byte) /\ Len(input) \in Nat /\ base \in Nat \ {0} /\ cur \in Nat
  /\ q = base + cur + 1 /\ q <= Len(input) /\ cur + 1 < NumOpts
  /\ Sound(c, base + cur)

LEMMA PlainCandidate ==
  ASSUME NEW base, NEW cur, NEW c, NEW q, Here(base, cur, c, q),
         NEW n \in 1..FastBytes, cur + n < NumOpts, NEW back,
         Fits(input, base + cur, n, back, c)
  PROVE  Candidate(input, base, cur, c, cur + n, Entry(cur, back))
<1> DEFINE e == Entry(cur, back)
<1>1. /\ cur \in Nat /\ base \in Nat \ {0} /\ Len(input) \in Nat /\ Sound(c, base + cur)
      /\ n \in Nat /\ base + cur \in Nat \ {0} /\ base + cur + n = base + (cur + n)
      /\ cur + n - cur = n /\ cur < cur + n /\ cur + n \in Nat /\ cur \in Int /\ cur # -1
  BY OptimumAssumption DEF Here
<1>2. back \in Int /\ base + cur + n <= Len(input)
  BY <1>1, FitsIs
<1>3. e \in Entries /\ e.posPrev = cur /\ e.backPrev = back /\ ~e.prev1IsChar
  BY <1>1, <1>2, EntryIs
<1>4. e # Infinite
  <2>1. Infinite.posPrev = -1
    BY DEF Infinite, Entry
  <2> HIDE DEF e
  <2> QED
    BY <1>1, <1>3, <2>1
<1> HIDE DEF e
<1>5. Origin(e) = cur /\ Halfway(e, c) = c
  BY <1>3 DEF Origin, Halfway
<1>6. Leads(input, base, cur + n, e, c)
  BY <1>1, <1>3, <1>5 DEF Leads
<1> QED
  BY <1>1, <1>2, <1>3, <1>4, <1>5, <1>6 DEF Candidate, e

\* A repeat of the last distance after a literal fits if the bytes repeat.
LEMMA CharRepCandidate ==
  ASSUME NEW base, NEW cur, NEW c, NEW q, Here(base, cur, c, q), AvailableFull(cur, q) >= 2,
         NEW x \in CharRepTargets(cur, q, c.reps[0])
  PROVE  Candidate(input, base, cur, c, x.place, x.entry)
<1> DEFINE d == c.reps[0]
           full == AvailableFull(cur, q)
           limit == Least(full - 1 - 0, FastBytes)
           n2 == SecondLen(cur, q, 0, d)
           e == CharRep(cur)
           p == base + cur
           h == AfterPacket(c, 1, Char)
<1>1. /\ input \in Seq(Byte) /\ Len(input) \in Nat /\ p \in Nat \ {0} /\ cur \in Nat /\ base \in Nat
      /\ q = p + 1 /\ q \in Nat /\ q <= Len(input) /\ Sound(c, p) /\ d \in Nat /\ d < p
  BY SMTT(30), FourReps DEF Here, Sound, Before
<1>c. FastBytes \in Nat /\ NumOpts \in Nat /\ FastBytes <= MaxLen /\ MaxLen \in Nat
  BY OptimumAssumption
<1>2. full \in Int /\ full <= NumOpts - 1 - cur
  <2>1. NumOpts - 1 - cur \in Int /\ Left(q) + 1 \in Int
    BY <1>1, <1>c DEF Left
  <2> QED
    BY <2>1, LeastIs DEF AvailableFull
<1> HIDE DEF full, p, d
<1>3. limit \in Nat /\ limit <= full - 1 /\ limit <= FastBytes
  BY <1>2, <1>c, full >= 2 DEF Least, full
<1> HIDE DEF limit
<1>4. n2 \in 0..limit /\ Repeated(input, q, d, n2)
  <2>1. n2 = MatchLen(q, 0, d, limit)
    BY DEF SecondLen, limit, full
  <2>2. 0 \in Int /\ q + 0 = q /\ d < q + 0
    BY <1>1
  <2> QED
    BY <1>1, <1>3, <2>1, <2>2, MatchLenIs
<1>5. n2 >= 2 /\ x = Target(cur + 1 + n2, e)
  BY DEF CharRepTargets, n2, d, e
<1> HIDE DEF n2
<1>6. /\ e \in Entries /\ e.posPrev = cur + 1 /\ e.backPrev = 0 /\ e.prev1IsChar /\ ~e.prev2
  BY <1>1, CharRepIs
<1>7. e # Infinite
  BY <1>6 DEF Infinite, Entry
<1> HIDE DEF e
<1>8. Origin(e) = cur /\ Halfway(e, c) = h
  BY <1>1, <1>6 DEF Origin, Halfway
<1>9. h.reps = c.reps
  BY <1>1, AfterIs, 2 \in Nat /\ 2 >= 2
<1> HIDE DEF h
<1>10. n2 \in Nat /\ n2 \in 2..MaxLen /\ n2 \in 1..FastBytes /\ n2 <= full - 1
  BY ONLY <1>2, <1>3, <1>4, <1>5, <1>c
<1>11. Fits(input, q, n2, 0, h)
  BY <1>4, <1>9, <1>10, FourReps DEF Fits, d
<1> DEFINE place == cur + 1 + n2
<1>12. /\ place \in Nat /\ cur < place /\ place < NumOpts /\ place - (cur + 1) = n2
       /\ base + place = q + n2 /\ base + (cur + 1) = q
  BY <1>1, <1>2, <1>c, <1>10 DEF p
<1>13. base + place <= Len(input)
  BY <1>4, <1>12 DEF Repeated
<1> HIDE DEF place
<1>14. Leads(input, base, place, e, c)
  <2>1. place - e.posPrev = n2 /\ base + e.posPrev = q /\ cur < e.posPrev
    BY <1>1, <1>6, <1>12
  <2> QED
    BY <1>5, <1>6, <1>8, <1>10, <1>11, <2>1 DEF Leads
<1>15. x.place = place /\ x.entry = e
  BY <1>5 DEF Target, place
<1> QED
  BY <1>6, <1>7, <1>8, <1>12, <1>13, <1>14, <1>15 DEF Candidate

\* A packet at distance d that fits, a literal, and more at the same distance.
LEMMA PairCandidate ==
  ASSUME NEW base, NEW cur, NEW c, NEW q, Here(base, cur, c, q),
         NEW n \in 2..FastBytes, NEW back \in Nat, Fits(input, base + cur, n, back, c),
         NEW d, d = (IF back \in Reps THEN c.reps[back] ELSE back - NumReps),
         NEW x \in PairTargets(cur, q, n, d, back)
  PROVE  Candidate(input, base, cur, c, x.place, x.entry)
<1> DEFINE full == AvailableFull(cur, q)
           limit == Least(full - 1 - n, FastBytes)
           n2 == SecondLen(cur, q, n, d)
           e == PairRep(cur, n, back)
           p == base + cur
           c1 == AfterPacket(c, n, back)
           h == AfterPacket(c1, 1, Char)
<1>1. /\ input \in Seq(Byte) /\ Len(input) \in Nat /\ p \in Nat \ {0} /\ cur \in Nat /\ base \in Nat
      /\ q = p + 1 /\ q \in Nat /\ q <= Len(input) /\ Sound(c, p)
  BY DEF Here
<1>c. /\ FastBytes \in Nat /\ NumOpts \in Nat /\ FastBytes <= MaxLen /\ MaxLen \in Nat
      /\ n \in Nat /\ n >= 2
  BY OptimumAssumption
<1>2. full \in Int /\ full <= NumOpts - 1 - cur /\ full <= Len(input) - q + 1
  <2>1. NumOpts - 1 - cur \in Int /\ Left(q) + 1 \in Int /\ Left(q) = Len(input) - q
    BY <1>1, <1>c DEF Left
  <2> QED
    BY <2>1, LeastIs DEF AvailableFull
<1> HIDE DEF full, p
<1>3. n < full /\ n2 >= 2 /\ x = Target(cur + n + 1 + n2, e)
  <2>1. CASE n < full
    BY <2>1 DEF PairTargets, full, n2, e
  <2>2. CASE ~(n < full)
    <3>1. x \in IF 0 >= 2 THEN {Target(cur + n + 1 + 0, e)} ELSE {}
      BY <2>2 DEF PairTargets, full
    <3> QED
      BY <3>1
  <2> QED
    BY <2>1, <2>2
<1>4. limit \in Nat /\ limit <= full - 1 - n /\ limit <= FastBytes
  BY <1>2, <1>3, <1>c DEF Least
<1> HIDE DEF limit
<1>d. d \in Nat /\ d < p /\ n \in 2..MaxLen
  <2>1. CASE back \in Reps
    <3>1. d = c.reps[back] /\ c.reps \in [Reps -> 0..(p - 1)]
      BY <1>1, <2>1 DEF Sound, Before
    <3>2. d \in 0..(p - 1)
      BY <2>1, <3>1, Zenon
    <3> QED
      BY ONLY <1>1, <1>c, <3>2, n \in 2..FastBytes
  <2>2. CASE back \notin Reps
    <3>1. n # 1 /\ Fits(input, p, n, back, c)
      BY <1>c DEF p
    <3>2. back - NumReps \in 0..(DictSize - 1) /\ Repeated(input, p, back - NumReps, n)
      BY <2>2, <3>1 DEF Fits
    <3>3. d \in Nat /\ d < p
      BY <2>2, <3>2, OptimumAssumption DEF Repeated
    <3> QED
      BY <1>c, <3>3
  <2> QED
    BY <2>1, <2>2
<1>5. n2 \in 0..limit /\ Repeated(input, q + n, d, n2)
  <2>1. n2 = MatchLen(q, n, d, limit)
    BY DEF SecondLen, limit, full
  <2>2. n \in Int /\ q + n \in Nat /\ q + n <= Len(input) /\ d < q + n
    BY ONLY <1>1, <1>2, <1>3, <1>c, <1>d
  <2> QED
    BY ONLY <1>1, <1>4, <1>d, <2>1, <2>2, MatchLenIs
<1> HIDE DEF n2
<1>6. /\ e \in Entries /\ e.posPrev = cur + n + 1 /\ e.backPrev = 0 /\ e.prev1IsChar /\ e.prev2
      /\ e.posPrev2 = cur /\ e.backPrev2 = back
  BY <1>1, <1>c, PairRepIs
<1>7. e # Infinite
  BY <1>6 DEF Infinite, Entry
<1> HIDE DEF e
<1>m. e.posPrev - 1 - e.posPrev2 = n
  <2> DEFINE a == e.posPrev
             b == e.posPrev2
  <2>1. a = cur + n + 1 /\ b = cur
    BY <1>6
  <2> HIDE DEF a, b
  <2>2. a - 1 - b = n
    BY ONLY <1>1, <1>c, <2>1
  <2> QED
    BY <2>2 DEF a, b
<1>8. Origin(e) = cur /\ Halfway(e, c) = h
  BY <1>6, <1>m DEF Origin, Halfway
<1>9. h.reps[0] = d
  <2>1. Sound(c1, p + n) /\ p + n \in Nat
    BY <1>1, <1>c, FitsIs DEF p
  <2>2. c1.reps = IF back \in Reps THEN Parse!ToFront(c.reps, back)
                  ELSE Parse!Pushed(c.reps, back - NumReps)
    BY <1>1, <1>c, AfterIs
  <2>3. c1.reps[0] = d
    <3>1. CASE back \in Reps
      <4>1. Parse!ToFront(c.reps, back)[0] = c.reps[back]
        BY FourReps DEF Parse!ToFront, Parse!Reps
      <4> QED
        BY <2>2, <3>1, <4>1
    <3>2. CASE back \notin Reps
      <4>1. Parse!Pushed(c.reps, back - NumReps)[0] = back - NumReps
        BY FourReps DEF Parse!Pushed, Parse!Reps
      <4> QED
        BY <2>2, <3>2, <4>1
    <3> QED
      BY <3>1, <3>2
  <2> HIDE DEF c1
  <2>4. h.reps = c1.reps
    BY <2>1, AfterIs, 2 \in Nat /\ 2 >= 2
  <2> QED
    BY <2>3, <2>4
<1> HIDE DEF h
<1>10. n2 \in Nat /\ n2 \in 2..MaxLen /\ n2 \in 1..FastBytes /\ n2 <= full - 1 - n
  BY ONLY <1>2, <1>3, <1>4, <1>5, <1>c
<1>11. Fits(input, q + n, n2, 0, h)
  BY <1>5, <1>9, <1>10, FourReps DEF Fits
<1> DEFINE place == cur + n + 1 + n2
<1>12. /\ place \in Nat /\ cur < place /\ place < NumOpts /\ place - (cur + n + 1) = n2
       /\ base + place = q + n + n2 /\ base + (cur + n + 1) = q + n /\ cur < cur + n + 1
  BY <1>1, <1>2, <1>c, <1>10 DEF p
<1>13. base + place <= Len(input)
  BY <1>5, <1>12 DEF Repeated
<1> HIDE DEF place
<1>14. Leads(input, base, place, e, c)
  <2>1. /\ place - e.posPrev = n2 /\ base + e.posPrev = q + n /\ cur < e.posPrev
        /\ e.posPrev2 = cur
    BY <1>1, <1>6, <1>12
  <2> QED
    BY <1>3, <1>6, <1>8, <1>10, <1>11, <1>m, <2>1 DEF Leads
<1>15. x.place = place /\ x.entry = e
  BY <1>3 DEF Target, place
<1> QED
  BY <1>6, <1>7, <1>8, <1>12, <1>13, <1>14, <1>15 DEF Candidate

\* What getMatchLen finds at cur fits as a repeat, or as a match.
LEMMA RepFits ==
  ASSUME NEW base, NEW cur, NEW c, NEW q, Here(base, cur, c, q), NEW i \in Reps,
         NEW limit \in Nat, limit <= MaxLen,
         NEW n, n \in 2..MatchLen(q, -1, c.reps[i], limit)
  PROVE  n \in Nat /\ n <= limit /\ Fits(input, base + cur, n, i, c)
<1> DEFINE d == c.reps[i]
           p == base + cur
           l == MatchLen(q, -1, d, limit)
<1>1. /\ input \in Seq(Byte) /\ Len(input) \in Nat /\ p \in Nat \ {0}
      /\ q = p + 1 /\ q \in Nat /\ q <= Len(input) /\ d \in Nat /\ d < p
  BY DEF Here, Sound, Before
<1> HIDE DEF d, p
<1>2. l \in 0..limit /\ Repeated(input, p, d, l)
  <2>1. -1 \in Int /\ q + (-1) = p /\ p \in Nat /\ p <= Len(input)
    BY <1>1
  <2> QED
    BY ZenonT(40), <1>1, <2>1, MatchLenIs
<1> HIDE DEF l
<1>3. n \in 2..l
  BY DEF l, d
<1>4. n \in Nat /\ n <= l /\ n <= limit /\ l \in Nat /\ n \in 2..MaxLen
  BY <1>2, <1>3, OptimumAssumption
<1>5. Repeated(input, p, d, n)
  BY <1>1, <1>2, <1>4, RepeatedLess
<1> QED
  BY <1>4, <1>5 DEF Fits, p, d

LEMMA RepCandidates ==
  ASSUME NEW base, NEW cur, NEW c, NEW q, Here(base, cur, c, q),
         NEW avail \in Nat, avail <= FastBytes, avail <= AvailableFull(cur, q),
         NEW x \in RepTargets(cur, q, c.reps,
                              [i \in Reps |-> MatchLen(q, -1, c.reps[i], avail)])
  PROVE  Candidate(input, base, cur, c, x.place, x.entry)
<1> DEFINE repLens == [i \in Reps |-> MatchLen(q, -1, c.reps[i], avail)]
<1>c. /\ FastBytes \in Nat /\ MaxLen \in Nat /\ NumOpts \in Nat /\ FastBytes <= MaxLen
      /\ avail <= MaxLen
  BY OptimumAssumption
<1>1. PICK i \in Reps :
        \/ \E n \in 2..repLens[i] : x = Target(cur + n, Entry(cur, i))
        \/ repLens[i] >= 2 /\ x \in PairTargets(cur, q, repLens[i], c.reps[i], i)
  BY DEF RepTargets
<1> DEFINE l == MatchLen(q, -1, c.reps[i], avail)
<1>2. repLens[i] = l /\ i \in Nat
  BY FourReps
<1>l. l \in Nat
  <2>1. /\ input \in Seq(Byte) /\ Len(input) \in Nat /\ base + cur \in Nat
        /\ q = base + cur + 1 /\ q \in Nat /\ q <= Len(input)
        /\ c.reps[i] \in Nat /\ c.reps[i] < base + cur
    BY DEF Here, Sound, Before
  <2>2. -1 \in Int /\ q + (-1) = base + cur /\ base + cur <= Len(input)
    BY <2>1
  <2>3. l \in 0..avail
    BY <2>1, <2>2, MatchLenIs
  <2> QED
    BY <2>3
<1>3. \A n \in 2..l : n \in Nat /\ n <= avail /\ Fits(input, base + cur, n, i, c)
  BY <1>c, RepFits
<1>f. AvailableFull(cur, q) <= NumOpts - 1 - cur /\ AvailableFull(cur, q) \in Int
      /\ cur \in Nat
  <2>1. NumOpts - 1 - cur \in Int /\ Left(q) + 1 \in Int /\ cur \in Nat
    BY <1>c DEF Left, Here
  <2> QED
    BY <2>1, LeastIs DEF AvailableFull
<1> HIDE DEF l, repLens
<1>4. ASSUME NEW n \in 2..l, x = Target(cur + n, Entry(cur, i))
      PROVE  Candidate(input, base, cur, c, x.place, x.entry)
  <2>1. n \in Nat /\ n <= avail /\ Fits(input, base + cur, n, i, c)
    BY <1>3
  <2>2. n \in 1..FastBytes /\ cur + n < NumOpts
    <3> DEFINE full == AvailableFull(cur, q)
    <3>1. avail <= full /\ full <= NumOpts - 1 - cur /\ full \in Int
      BY <1>f
    <3> HIDE DEF full
    <3> QED
      BY ONLY <1>c, <1>f, <1>l, <2>1, <3>1, n \in 2..l, avail \in Nat, avail <= FastBytes
  <2>3. Candidate(input, base, cur, c, cur + n, Entry(cur, i))
    BY <2>1, <2>2, PlainCandidate
  <2> QED
    BY <1>4, <2>3 DEF Target
<1>5. ASSUME l >= 2, x \in PairTargets(cur, q, l, c.reps[i], i)
      PROVE  Candidate(input, base, cur, c, x.place, x.entry)
  <2>1. l \in 2..l /\ l \in Nat
    BY <1>l, <1>5
  <2>2. l \in 2..FastBytes /\ Fits(input, base + cur, l, i, c)
    BY <1>c, <1>3, <2>1
  <2>3. c.reps[i] = IF i \in Reps THEN c.reps[i] ELSE i - NumReps
    OBVIOUS
  <2> QED
    BY <1>2, <1>5, <2>2, <2>3, PairCandidate
<1> QED
  BY <1>1, <1>2, <1>4, <1>5

\* A match reported fits.
LEMMA MatchFits ==
  ASSUME NEW base, NEW cur, NEW c, NEW d \in 0..(DictSize - 1), NEW n \in 2..MaxLen,
         Repeated(input, base + cur, d, n), NEW back, back = d + NumReps
  PROVE  /\ Fits(input, base + cur, n, back, c)
         /\ back \in Nat /\ back \notin Reps /\ back - NumReps = d
<1>1. back \in Nat /\ back - NumReps = d /\ back \notin Reps
  BY FourReps, OptimumAssumption
<1> QED
  BY <1>1 DEF Fits

LEMMA MatchCandidates ==
  ASSUME NEW base, NEW cur, NEW c, NEW q, Here(base, cur, c, q),
         NEW avail \in Nat, avail <= FastBytes, avail <= AvailableFull(cur, q),
         NEW r, Told(input, base + cur, r), r # << >> => Last(r).len <= avail,
         NEW startLen \in Nat, startLen >= 2,
         NEW x \in MatchTargets(cur, q, r, startLen)
  PROVE  Candidate(input, base, cur, c, x.place, x.entry)
<1>c. /\ FastBytes \in Nat /\ MaxLen \in Nat /\ NumOpts \in Nat /\ FastBytes <= MaxLen
      /\ DictSize \in Nat
  BY OptimumAssumption
<1>h. Len(input) \in Nat /\ base + cur \in Nat /\ cur \in Nat
  BY DEF Here
<1>1. PICK m \in Nat :
        /\ DOMAIN r = 1..m /\ (r = << >> <=> m = 0)
        /\ m > 0 => Last(r) = r[m]
        /\ \A i \in 1..m : /\ r[i].len \in 2..FastBytes /\ r[i].dist \in 0..(DictSize - 1)
                           /\ Repeated(input, base + cur, r[i].dist, r[i].len)
  BY ToldIs, Zenon
<1> DEFINE longest == IF r = << >> THEN 0 ELSE Last(r).len
<1>2. \/ \E n \in startLen..longest : x = Target(cur + n, Entry(cur, DistanceFor(r, n) + NumReps))
      \/ \E i \in DOMAIN r : /\ r[i].len >= startLen
                             /\ x \in PairTargets(cur, q, r[i].len, r[i].dist,
                                                  r[i].dist + NumReps)
  BY DEF MatchTargets
<1>3. ASSUME NEW n \in startLen..longest,
             x = Target(cur + n, Entry(cur, DistanceFor(r, n) + NumReps))
      PROVE  Candidate(input, base, cur, c, x.place, x.entry)
  <2> DEFINE d == DistanceFor(r, n)
             full == AvailableFull(cur, q)
  <2>1. r # << >>
    <3>1. r = << >> => longest = 0
      OBVIOUS
    <3> HIDE DEF longest
    <3> QED
      BY <3>1
  <2>2. longest = Last(r).len /\ longest <= avail /\ longest \in Nat
    <3>1. m \in 1..m /\ Last(r) = r[m]
      <4>1. m # 0
        BY <1>1, <2>1
      <4>2. m > 0 /\ m \in 1..m
        BY <4>1
      <4> QED
        BY <1>1, <4>2
    <3>2. r[m].len \in 2..FastBytes
      BY <1>1, <3>1
    <3> QED
      BY <1>c, <2>1, <3>1, <3>2
  <2> HIDE DEF longest, d
  <2>3. n \in Nat /\ n >= 2 /\ n <= longest
    BY <2>2
  <2>4. d \in 0..(DictSize - 1) /\ Repeated(input, base + cur, d, n)
    BY <1>h, <2>1, <2>2, <2>3, DistanceForIs DEF d
  <2>5. n \in 2..MaxLen /\ n \in 1..FastBytes /\ cur + n < NumOpts
    <3>1. full <= NumOpts - 1 - cur /\ full \in Int /\ avail <= full
      <4>1. NumOpts - 1 - cur \in Int /\ Left(q) + 1 \in Int
        BY <1>c, <1>h DEF Left, Here
      <4> QED
        BY <4>1, LeastIs DEF AvailableFull
    <3> HIDE DEF full
    <3> QED
      BY <1>c, <1>h, <2>2, <2>3, <3>1
  <2>6. Fits(input, base + cur, n, d + NumReps, c)
    BY <2>4, <2>5, MatchFits
  <2>7. Candidate(input, base, cur, c, cur + n, Entry(cur, d + NumReps))
    BY <2>5, <2>6, PlainCandidate
  <2> QED
    BY <1>3, <2>7 DEF Target, d
<1>4. ASSUME NEW i \in DOMAIN r, r[i].len >= startLen,
             x \in PairTargets(cur, q, r[i].len, r[i].dist, r[i].dist + NumReps)
      PROVE  Candidate(input, base, cur, c, x.place, x.entry)
  <2> DEFINE n == r[i].len
             d == r[i].dist
             back == d + NumReps
  <2>1. n \in 2..FastBytes /\ d \in 0..(DictSize - 1) /\ Repeated(input, base + cur, d, n)
    BY <1>1
  <2> HIDE DEF n, d
  <2>2. n \in 2..MaxLen
    BY <1>c, <2>1
  <2>3. /\ Fits(input, base + cur, n, back, c)
        /\ back \in Nat /\ back \notin Reps /\ back - NumReps = d
    <3>1. back = d + NumReps
      OBVIOUS
    <3> HIDE DEF back
    <3> QED
      BY <2>1, <2>2, <3>1, MatchFits
  <2>4. d = IF back \in Reps THEN c.reps[back] ELSE back - NumReps
    BY <2>3
  <2>5. x \in PairTargets(cur, q, n, d, back)
    BY <1>4 DEF n, d
  <2> HIDE DEF back
  <2> QED
    BY <2>1, <2>3, <2>4, <2>5, PairCandidate
<1> QED
  BY <1>2, <1>3, <1>4

(***************************************************************************)
(* The table after a turn of the main loop.                                *)
(***************************************************************************)
LEMMA CheapestIs ==
  ASSUME NEW opt, NEW C, NEW i, NEW e \in Cheapest(opt, C, i)
  PROVE  \/ e = Infinite
         \/ i \in DOMAIN opt /\ e = opt[i]
         \/ \E x \in C : x.place = i /\ e = x.entry
BY Zenon DEF Cheapest

\* opt2 is opt with some entries after cur improved, up to end2.
Improved(s, base, opt, end, cur, c, opt2, end2) ==
  /\ end2 \in Nat /\ end <= end2 /\ cur < end2 /\ end2 < NumOpts /\ base + end2 <= Len(s)
  /\ opt2 \in [0..end2 -> Entries]
  /\ \A i \in 0..cur : opt2[i] = opt[i]
  /\ \A i \in (cur + 1)..end2 : \/ opt2[i] = Infinite
                                \/ i <= end /\ opt2[i] = opt[i]
                                \/ Candidate(s, base, cur, c, i, opt2[i])
  /\ opt2[cur + 1] # Infinite

LEMMA TableGrows ==
  ASSUME NEW s, NEW base, NEW opt, NEW end, NEW ctxs, NEW cur,
         Table(s, base, opt, end, ctxs, cur), DOMAIN ctxs = 0..(cur - 1),
         NEW c, c = ContextOf(opt, ctxs, cur),
         NEW opt2, NEW end2, Improved(s, base, opt, end, cur, c, opt2, end2),
         NEW ctxs2, ctxs2 = Extended(ctxs, cur, c)
  PROVE  Table(s, base, opt2, end2, ctxs2, cur + 1) /\ DOMAIN ctxs2 = 0..cur
<1> USE DEF Improved
<1>1. /\ cur \in Nat \ {0} /\ end \in Nat /\ cur <= end /\ base \in Nat \ {0} /\ Len(s) \in Nat
      /\ opt \in [0..end -> Entries] /\ cur \in 1..cur /\ cur + 1 \in Nat \ {0}
  BY DEF Table
<1>2. /\ DOMAIN ctxs2 = 0..cur /\ ctxs2[cur] = c /\ \A j \in 0..(cur - 1) : ctxs2[j] = ctxs[j]
  <2>1. 0..cur = 0..(cur - 1) \cup {cur} /\ cur \notin 0..(cur - 1)
    BY <1>1
  <2> QED
    BY <2>1 DEF Extended
<1>s. c = Arrived(cur, opt[cur], ctxs[Origin(opt[cur])]) /\ Sound(c, base + cur)
  <2>1. cur \in 1..cur /\ Table(s, base, opt, end, ctxs, cur)
    BY <1>1
  <2> QED
    BY ONLY <2>1, c = ContextOf(opt, ctxs, cur), TableSound
<1>3. \A i \in 1..end : opt[i] # Infinite =>
        Origin(opt[i]) \in 0..(cur - 1) /\ Leads(s, base, i, opt[i], ctxs[Origin(opt[i])])
  BY Zenon DEF Table
<1>4. ASSUME NEW i \in 1..end2, opt2[i] # Infinite
      PROVE  /\ Origin(opt2[i]) \in 0..cur
             /\ Leads(s, base, i, opt2[i], ctxs2[Origin(opt2[i])])
  <2>1. CASE opt2[i] = opt[i] /\ i <= end
    <3>1. i \in 1..end
      BY <1>1, <2>1
    <3>2. Origin(opt[i]) \in 0..(cur - 1) /\ Leads(s, base, i, opt[i], ctxs[Origin(opt[i])])
      BY <1>3, <1>4, <2>1, <3>1
    <3>3. ctxs2[Origin(opt[i])] = ctxs[Origin(opt[i])]
      BY <1>2, <3>2
    <3>4. Origin(opt[i]) \in 0..cur
      <4> DEFINE o == Origin(opt[i])
      <4> HIDE DEF o
      <4>1. o \in 0..(cur - 1)
        BY <3>2 DEF o
      <4>2. o \in 0..cur
        BY <1>1, <4>1
      <4> QED
        BY <4>2 DEF o
    <3> QED
      BY <2>1, <3>2, <3>3, <3>4
  <2>2. CASE Candidate(s, base, cur, c, i, opt2[i])
    <3>1. Origin(opt2[i]) = cur /\ Leads(s, base, i, opt2[i], c)
      BY <2>2 DEF Candidate
    <3> QED
      BY <1>1, <1>2, <3>1
  <2>3. i \in 0..cur \/ i \in (cur + 1)..end2
    BY <1>1
  <2>4. CASE i \in 0..cur
    BY <1>1, <2>1, <2>4
  <2> QED
    BY <1>4, <2>1, <2>2, <2>3, <2>4
<1>5. \A i \in 1..(cur + 1) : opt2[i] # Infinite
  <2>1. \A i \in 1..cur : opt[i] # Infinite /\ opt2[i] = opt[i]
    BY <1>1, SMTT(30) DEF Table
  <2>2. \A i \in 1..(cur + 1) : i \in 1..cur \/ i = cur + 1
    BY <1>1
  <2> QED
    BY <2>1, <2>2
<1>6. \A i \in 0..cur : Sound(ctxs2[i], base + i)
  <2>1. \A i \in 0..(cur - 1) : Sound(ctxs[i], base + i)
    BY DEF Table
  <2>2. \A i \in 0..cur : i \in 0..(cur - 1) \/ i = cur
    BY <1>1
  <2> QED
    BY <1>2, <1>s, <2>1, <2>2
<1>7. ASSUME NEW i \in 1..cur
      PROVE  ctxs2[i] = Arrived(i, opt2[i], ctxs2[Origin(opt2[i])])
  <2>1. opt2[i] = opt[i] /\ i \in 1..end /\ opt[i] # Infinite
    BY <1>1, SMTT(30) DEF Table
  <2>2. ctxs2[Origin(opt[i])] = ctxs[Origin(opt[i])]
    BY <1>2, <1>3, <2>1
  <2>3. CASE i = cur
    BY <1>2, <1>s, <2>1, <2>2, <2>3
  <2>4. CASE i # cur
    <3>1. i \in 1..(cur - 1) /\ i \in 0..(cur - 1)
      BY <1>1, <2>4
    <3>2. ctxs[i] = Arrived(i, opt[i], ctxs[Origin(opt[i])])
      BY <3>1 DEF Table
    <3> QED
      BY <1>2, <2>1, <2>2, <3>1, <3>2
  <2> QED
    BY <2>3, <2>4
<1>8. cur + 1 - 1 = cur /\ cur + 1 <= end2
  BY <1>1
<1>9. Table(s, base, opt2, end2, ctxs2, cur + 1)
  BY <1>1, <1>4, <1>5, <1>6, <1>7, <1>8 DEF Table
<1> QED
  BY <1>2, <1>9

\* What the entry after cur can become at first.
LEMMA NextIs ==
  ASSUME NEW base, NEW cur, NEW c, NEW q, Here(base, cur, c, q),
         NEW same, same = (ByteBack(q, -1) = ByteBack(q, -c.reps[0] - 2)),
         NEW next \in NextChoices(cur, same)
  PROVE  /\ next.entry # Infinite
         /\ \/ next.entry = optimum[cur + 1]
            \/ Candidate(input, base, cur, c, cur + 1, next.entry)
<1>c. 1 \in 1..FastBytes
  BY OptimumAssumption
<1>1. /\ Len(input) \in Nat /\ base + cur \in Nat /\ cur \in Nat /\ cur + 1 < NumOpts
      /\ q = base + cur + 1 /\ q <= Len(input)
      /\ c.reps[0] \in Nat /\ c.reps[0] < base + cur
  BY SMTT(30), FourReps DEF Here, Sound, Before
<1>2. Candidate(input, base, cur, c, cur + 1, Entry(cur, Char))
  <2>1. Fits(input, base + cur, 1, Char, c)
    BY <1>1 DEF Fits
  <2> QED
    BY <1>1, <1>c, <2>1, PlainCandidate
<1>3. ASSUME same PROVE Candidate(input, base, cur, c, cur + 1, Entry(cur, 0))
  <2> DEFINE d == c.reps[0]
             p == base + cur
  <2>1. input[p + 1] = input[p + 1 - d - 1]
    <3>1. input[q + 1 + (-1)] = input[q + 1 + (-d - 2)]
      BY <1>3 DEF ByteBack
    <3>d. d \in Nat /\ p \in Nat /\ q = p + 1
      BY <1>1
    <3> HIDE DEF d, p
    <3>2. q + 1 + (-1) = p + 1 /\ q + 1 + (-d - 2) = p + 1 - d - 1
      BY ONLY <3>d
    <3> QED
      BY <3>1, <3>2
  <2>2. Repeated(input, p, d, 1)
    <3> HIDE DEF d, p
    <3>1. \A i \in 1..1 : i = 1
      OBVIOUS
    <3> QED
      BY <1>1, <2>1, <3>1 DEF Repeated, d, p
  <2>3. Fits(input, base + cur, 1, 0, c)
    BY <2>2 DEF Fits
  <2> QED
    BY <1>1, <1>c, <2>3, PlainCandidate
<1>4. \/ next.entry = optimum[cur + 1] /\ next.entry # Infinite
      \/ next.entry = Entry(cur, Char)
      \/ same /\ next.entry = Entry(cur, 0)
  BY DEF NextChoices
<1> QED
  BY <1>2, <1>3, <1>4 DEF Candidate

\* The least of a place's limits.
LEMMA AvailableIs ==
  ASSUME NEW base, NEW cur, NEW c, NEW q, Here(base, cur, c, q)
  PROVE  /\ AvailableFull(cur, q) \in Int
         /\ AvailableFull(cur, q) >= 2 =>
              LET avail == Least(AvailableFull(cur, q), FastBytes)
              IN  /\ avail \in 2..FastBytes /\ avail \in Nat
                  /\ avail <= AvailableFull(cur, q) /\ avail <= FastBytes
<1> DEFINE full == AvailableFull(cur, q)
<1>c. FastBytes \in Nat /\ 2 <= FastBytes /\ NumOpts \in Nat
  BY OptimumAssumption
<1>1. full \in Int
  <2>1. NumOpts - 1 - cur \in Int /\ Left(q) + 1 \in Int
    BY <1>c DEF Left, Here
  <2> QED
    BY <2>1, LeastIs DEF AvailableFull
<1> HIDE DEF full
<1>2. ASSUME full >= 2
      PROVE  /\ Least(full, FastBytes) \in 2..FastBytes /\ Least(full, FastBytes) \in Nat
             /\ Least(full, FastBytes) <= full /\ Least(full, FastBytes) <= FastBytes
  BY <1>1, <1>2, <1>c DEF Least
<1> QED
  BY <1>1, <1>2 DEF full

\* A turn of the main loop.
LEMMA RelaxIs ==
  ASSUME NEW base, NEW cur, NEW end, NEW q, NEW report,
         input \in Seq(Byte), DOMAIN optimum = 0..end, DOMAIN context = 0..(cur - 1),
         Table(input, base, optimum, end, context, cur), cur < end, q = base + cur + 1,
         Told(input, base + cur, report),
         context' = Extended(context, cur, ContextAt(cur)), Relax(cur, q, report)
  PROVE  /\ DOMAIN context' = 0..cur
         /\ \E end2 \in Nat : /\ DOMAIN optimum' = 0..end2 /\ cur + 1 <= end2
                              /\ Table(input, base, optimum', end2, context', cur + 1)
<1> DEFINE c == context'[cur]
<1>1. /\ cur \in Nat \ {0} /\ end \in Nat /\ base \in Nat \ {0} /\ Len(input) \in Nat
      /\ base + end <= Len(input) /\ end < NumOpts /\ optimum \in [0..end -> Entries]
      /\ \A i \in 1..cur : optimum[i] # Infinite
  BY DEF Table
<1>d. c = ContextAt(cur)
  BY <1>1 DEF Extended
<1>c. c = ContextOf(optimum, context, cur)
  BY <1>d, ContextIs
<1> HIDE DEF c
<1>s. Sound(c, base + cur)
  <2>1. cur \in 1..cur
    BY <1>1
  <2> QED
    BY <1>c, <2>1, TableSound
<1>n. FastBytes \in Nat /\ MaxLen \in Nat /\ NumOpts \in Nat
  BY OptimumAssumption
<1>2. Here(base, cur, c, q)
  BY <1>1, <1>n, <1>s DEF Here
<1> DEFINE full  == AvailableFull(cur, q)
           avail == Least(full, FastBytes)
           same  == ByteBack(q, -1) = ByteBack(q, -c.reps[0] - 2)
           repLens == [i \in Reps |-> MatchLen(q, -1, c.reps[i], avail)]
           startLen == IF repLens[0] >= 2 THEN repLens[0] + 1 ELSE 2
           cut   == IF report # << >> /\ Last(report).len > avail
                    THEN Truncated(report, avail) ELSE report
           further == RepTargets(cur, q, c.reps, repLens) \cup MatchTargets(cur, q, cut, startLen)
           lenEnd == Most(DOMAIN optimum)
<1>3. lenEnd = end
  <2>1. 0..end \subseteq Nat /\ end \in 0..end /\ \A x \in 0..end : x <= end
    BY <1>1
  <2>n. 0..end # {}
    BY <2>1, Zenon
  <2>2. Most(0..end) \in 0..end /\ \A x \in 0..end : x <= Most(0..end)
    BY <1>1, <2>1, <2>n, MostIs
  <2> QED
    BY <2>1, <2>2
<1>4. PICK next \in NextChoices(cur, same) :
        LET opt == [optimum EXCEPT ![cur + 1] = next.entry]
            C   == further \cup IF ~next.isChar /\ ~same
                                THEN CharRepTargets(cur, q, c.reps[0]) ELSE {}
        IN  IF full < 2 THEN optimum' = opt
            ELSE optimum' \in Relaxed(opt, C, cur + 2, Furthest(lenEnd, C))
  BY DEF Relax, c
<1> DEFINE opt == [optimum EXCEPT ![cur + 1] = next.entry]
           C   == further \cup IF ~next.isChar /\ ~same
                               THEN CharRepTargets(cur, q, c.reps[0]) ELSE {}
<1>5. /\ next.entry # Infinite
      /\ \/ next.entry = optimum[cur + 1]
         \/ Candidate(input, base, cur, c, cur + 1, next.entry)
  <2> HIDE DEF same
  <2>1. same = (ByteBack(q, -1) = ByteBack(q, -c.reps[0] - 2))
    BY DEF same
  <2> QED
    BY <1>2, <2>1, NextIs
<1>e. cur + 1 \in 0..end
  BY <1>1
<1>6. next.entry \in Entries
  BY <1>1, <1>5, <1>e DEF Candidate
<1>7. /\ opt \in [0..end -> Entries] /\ DOMAIN opt = 0..end /\ opt = [i \in DOMAIN opt |-> opt[i]]
      /\ opt[cur + 1] = next.entry /\ \A i \in 0..end : i # cur + 1 => opt[i] = optimum[i]
  BY <1>1, <1>6, <1>e
<1> HIDE DEF opt
<1>8. ASSUME NEW end2 \in Nat, end <= end2, end2 < NumOpts, base + end2 <= Len(input),
             optimum' \in [0..end2 -> Entries],
             \A i \in 0..(cur + 1) : optimum'[i] = opt[i],
             \A i \in (cur + 2)..end2 : \/ optimum'[i] = Infinite
                                        \/ i <= end /\ optimum'[i] = opt[i]
                                        \/ Candidate(input, base, cur, c, i, optimum'[i])
      PROVE  /\ DOMAIN context' = 0..cur /\ DOMAIN optimum' = 0..end2 /\ cur + 1 <= end2
             /\ Table(input, base, optimum', end2, context', cur + 1)
  <2>1. cur < end2 /\ cur + 1 <= end2
    BY <1>1, <1>8
  <2>2. \A i \in 0..cur : optimum'[i] = optimum[i]
    <3>1. \A i \in 0..cur : i \in 0..(cur + 1) /\ i \in 0..end /\ i # cur + 1
      BY <1>1
    <3> QED
      BY <1>7, <1>8, <3>1
  <2>3. ASSUME NEW i \in (cur + 1)..end2
        PROVE  \/ optimum'[i] = Infinite
               \/ i <= end /\ optimum'[i] = optimum[i]
               \/ Candidate(input, base, cur, c, i, optimum'[i])
    <3>1. CASE i = cur + 1
      <4>1. optimum'[i] = next.entry /\ i <= end
        BY <1>1, <1>7, <1>8, <1>e, <3>1
      <4> QED
        BY <1>5, <3>1, <4>1
    <3>2. CASE i # cur + 1
      <4>1. i \in (cur + 2)..end2 /\ i \in Nat
        BY <1>1, <3>2
      <4>2. i <= end => i \in 0..end
        BY <1>1, <4>1
      <4> QED
        BY <1>7, <1>8, <3>2, <4>1, <4>2
    <3> QED
      BY <3>1, <3>2
  <2>4. optimum'[cur + 1] # Infinite
    <3>1. cur + 1 \in 0..(cur + 1)
      BY <1>1
    <3> QED
      BY <1>5, <1>7, <1>8, <3>1
  <2> DEFINE opt2 == optimum'
             ctxs2 == context'
  <2>5. ctxs2 = Extended(context, cur, c)
    BY <1>d
  <2>6. Improved(input, base, optimum, end, cur, c, opt2, end2)
    BY <1>8, <2>1, <2>2, <2>3, <2>4 DEF Improved
  <2>d. DOMAIN opt2 = 0..end2
    BY <1>8
  <2>t. Table(input, base, optimum, end, context, cur) /\ DOMAIN context = 0..(cur - 1)
    OBVIOUS
  <2> HIDE DEF opt2, ctxs2
  <2>7. Table(input, base, opt2, end2, ctxs2, cur + 1) /\ DOMAIN ctxs2 = 0..cur
    BY ONLY <1>c, <2>5, <2>6, <2>t, TableGrows
  <2> QED
    BY <2>1, <2>d, <2>7 DEF opt2, ctxs2
<1>9. CASE full < 2
  <2>1. optimum' = opt
    BY <1>4, <1>9 DEF opt
  <2>2. end <= end
    BY <1>1
  <2>3. \A i \in (cur + 2)..end : i <= end
    BY <1>1
  <2>4. /\ DOMAIN context' = 0..cur /\ DOMAIN optimum' = 0..end /\ cur + 1 <= end
        /\ Table(input, base, optimum', end, context', cur + 1)
    BY <1>1, <1>7, <1>8, <2>1, <2>2, <2>3
  <2> QED
    BY <1>1, <2>4
<1>10. CASE ~(full < 2)
  <2>a. full >= 2 /\ avail \in 2..FastBytes /\ avail \in Nat /\ avail <= full /\ avail <= FastBytes
    <3>1. full \in Int
      BY <1>2, AvailableIs
    <3>2. full >= 2
      BY <1>10, <3>1
    <3> QED
      BY <1>2, <3>2, AvailableIs
  <2> HIDE DEF full
  <2>t. Told(input, base + cur, cut) /\ (cut # << >> => Last(cut).len <= avail)
    <3>r. report # << >> => Last(report).len \in Nat
      <4>1. PICK m \in Nat : /\ report = << >> <=> m = 0
                             /\ m > 0 => Last(report) = report[m]
                             /\ \A i \in 1..m : report[i].len \in 2..FastBytes
        BY ToldIs, Zenon
      <4>2. ASSUME report # << >> PROVE Last(report).len \in Nat
        <5>1. m # 0
          BY <4>1, <4>2
        <5>2. m > 0 /\ m \in 1..m
          BY <5>1
        <5>3. Last(report).len \in 2..FastBytes
          BY <4>1, <5>2
        <5> QED
          BY <1>n, <5>3
      <4> QED
        BY <4>2
    <3>1. CASE report # << >> /\ Last(report).len > avail
      <4>1. cut = Truncated(report, avail)
        BY <3>1
      <4>2. avail <= Last(report).len
        BY <2>a, <3>1, <3>r
      <4> HIDE DEF cut, avail
      <4>3. Told(input, base + cur, cut) /\ Last(cut).len = avail
        <5>1. base + cur \in Nat
          BY <1>1
        <5> QED
          BY <1>1, <2>a, <3>1, <4>1, <4>2, <5>1, TruncatedIs
      <4> QED
        BY <2>a, <4>3
    <3>2. CASE ~(report # << >> /\ Last(report).len > avail)
      <4>1. cut = report
        BY <3>2, Zenon
      <4>2. report # << >> => Last(report).len <= avail
        BY <2>a, <3>2, <3>r
      <4> QED
        BY <4>1, <4>2
    <3> QED
      BY <3>1, <3>2
  <2> HIDE DEF cut
  <2>l. startLen \in Nat /\ startLen >= 2
    <3>1. MatchLen(q, -1, c.reps[0], avail) \in 0..avail
      <4>0. /\ q \in Nat /\ q <= Len(input) /\ q = base + cur + 1 /\ base + cur \in Nat
            /\ c.reps \in [Reps -> 0..((base + cur) - 1)]
        <5>1. /\ base \in Nat \ {0} /\ cur \in Nat /\ Len(input) \in Nat /\ q = base + cur + 1
              /\ q <= Len(input) /\ Sound(c, base + cur)
          BY ONLY <1>2, <1>1, Zenon DEF Here
        <5>2. q \in Nat /\ base + cur \in Nat
          BY ONLY <5>1
        <5>3. Before(base + cur) = 0..((base + cur) - 1)
          BY DEF Before
        <5> QED
          BY ONLY <5>1, <5>2, <5>3, Zenon DEF Sound
      <4>1. /\ q \in Nat /\ q <= Len(input) /\ c.reps[0] \in Nat /\ c.reps[0] < base + cur
            /\ q = base + cur + 1 /\ base + cur \in Nat
        <5> DEFINE d == c.reps[0]
        <5>1. d \in 0..((base + cur) - 1)
          BY <4>0, FourReps
        <5> HIDE DEF d
        <5>2. d \in Nat /\ d < base + cur
          BY ONLY <1>1, <5>1
        <5> QED
          BY <4>0, <5>2 DEF d
      <4>2. -1 \in Int /\ q + (-1) = base + cur /\ base + cur <= Len(input)
        BY <4>1, <1>1
      <4> QED
        BY <2>a, <4>1, <4>2, MatchLenIs
    <3>2. repLens[0] = MatchLen(q, -1, c.reps[0], avail)
      BY FourReps
    <3> HIDE DEF repLens
    <3> QED
      BY <2>a, <3>1, <3>2
  <2>1. ASSUME NEW x \in C PROVE Candidate(input, base, cur, c, x.place, x.entry)
    <3>1. CASE x \in RepTargets(cur, q, c.reps, repLens)
      BY <1>2, <2>a, <3>1, RepCandidates DEF full
    <3>2. CASE x \in MatchTargets(cur, q, cut, startLen)
      <4> HIDE DEF startLen
      <4> QED
        BY <1>2, <2>a, <2>t, <2>l, <3>2, MatchCandidates DEF full
    <3>3. CASE x \in CharRepTargets(cur, q, c.reps[0])
      BY <1>2, <2>a, <3>3, CharRepCandidate DEF full
    <3> QED
      BY <2>1, <3>1, <3>2, <3>3, Zenon
  <2>2. optimum' \in Relaxed(opt, C, cur + 2, Furthest(end, C))
    BY <1>3, <1>4, <1>10 DEF opt, full
  <2> HIDE DEF C
  <2> DEFINE hi == Furthest(end, C)
             S == {end} \cup {x.place : x \in C}
  <2>3. hi \in S /\ end <= hi /\ hi < NumOpts /\ base + hi <= Len(input) /\ hi \in Nat
    <3>1. \A y \in S : y \in Nat /\ y < NumOpts /\ y <= NumOpts /\ base + y <= Len(input)
      BY <1>1, <1>n, <2>1 DEF Candidate
    <3>2. S \subseteq Nat /\ S # {} /\ end \in S
      BY <3>1
    <3>3. hi = Most(S)
      BY DEF Furthest
    <3> HIDE DEF S, hi
    <3>4. hi \in S /\ \A y \in S : y <= hi
      BY <1>n, <3>1, <3>2, <3>3, MostIs
    <3> QED
      BY <3>1, <3>2, <3>4
  <2> HIDE DEF hi, S
  <2> DEFINE lo == cur + 2
  <2>4. /\ lo \in Int /\ hi \in Int /\ hi - lo + 1 \in Nat /\ lo + (hi - lo + 1) - 1 = hi
        /\ 0..hi = 0..end \cup lo..hi
    BY SMTT(30), <1>1, <2>3
  <2>5. Dealt(opt, C, lo, hi - lo + 1, optimum')
    <3> HIDE DEF lo
    <3>1. optimum' \in Relaxed(opt, C, lo, hi)
      BY <2>2 DEF lo, hi
    <3> QED
      BY <1>7, <2>4, <3>1, RelaxedIs
  <2>6. /\ DOMAIN optimum' = 0..hi /\ optimum' = [i \in DOMAIN optimum' |-> optimum'[i]]
        /\ \A i \in 0..hi : IF i \in lo..hi THEN optimum'[i] \in Cheapest(opt, C, i)
                            ELSE optimum'[i] = opt[i]
    BY <1>7, <2>4, <2>5 DEF Dealt
  <2>7. ASSUME NEW i \in lo..hi
        PROVE  /\ optimum'[i] \in Entries
               /\ \/ optimum'[i] = Infinite
                  \/ i <= end /\ optimum'[i] = opt[i]
                  \/ Candidate(input, base, cur, c, i, optimum'[i])
    <3>1. optimum'[i] \in Cheapest(opt, C, i)
      BY <2>4, <2>6, <2>7
    <3>2. \/ optimum'[i] = Infinite
          \/ i \in DOMAIN opt /\ optimum'[i] = opt[i]
          \/ \E x \in C : x.place = i /\ optimum'[i] = x.entry
      BY <3>1, CheapestIs
    <3>3. i \in DOMAIN opt => i <= end /\ opt[i] \in Entries
      BY <1>1, <1>7
    <3>4. (\E x \in C : x.place = i /\ optimum'[i] = x.entry)
            => Candidate(input, base, cur, c, i, optimum'[i]) /\ optimum'[i] \in Entries
      BY <2>1 DEF Candidate
    <3> QED
      BY <3>2, <3>3, <3>4, InfiniteIs
  <2>8. optimum' \in [0..hi -> Entries]
    <3>1. \A i \in 0..hi : i \notin lo..hi => i \in 0..end
      BY <2>4
    <3>2. \A i \in 0..hi : optimum'[i] \in Entries
      BY <1>7, <2>6, <2>7, <3>1
    <3> QED
      BY <2>6, <3>2
  <2>9. \A i \in 0..(cur + 1) : optimum'[i] = opt[i]
    <3>1. \A i \in 0..(cur + 1) : i \in 0..hi /\ i \notin lo..hi
      BY <1>1, <2>3, SMTT(30)
    <3> QED
      BY <2>6, <3>1
  <2>10. /\ DOMAIN context' = 0..cur /\ DOMAIN optimum' = 0..hi /\ cur + 1 <= hi
         /\ Table(input, base, optimum', hi, context', cur + 1)
    BY <1>8, <2>3, <2>7, <2>8, <2>9
  <2> QED
    BY <2>3, <2>10
<1> QED
  BY <1>9, <1>10

(***************************************************************************)
(* The table getOptimum starts with.                                       *)
(***************************************************************************)
LEMMA EmptyIs == DOMAIN << >> = {} /\ << >> = [i \in DOMAIN << >> |-> << >>[i]]
OBVIOUS

\* Packets from place 0 on, none of them as long as fastBytes.
LEMMA FirstCandidates ==
  ASSUME NEW base, NEW c, NEW q, Here(base, 0, c, q),
         NEW report, Told(input, base, report),
         NEW repLens, repLens = [i \in Reps |-> MatchLen(q, -1, c.reps[i], MaxLen)],
         \A i \in Reps : repLens[i] < FastBytes,
         NEW lenMain \in Nat, lenMain < FastBytes,
         lenMain = (IF report = << >> THEN 0 ELSE Last(report).len),
         NEW x \in FirstTargets(report, repLens, lenMain)
  PROVE  Candidate(input, base, 0, c, x.place, x.entry)
<1>c. /\ FastBytes \in Nat /\ MaxLen \in Nat /\ NumOpts \in Nat /\ FastBytes <= MaxLen
      /\ FastBytes < NumOpts
  BY OptimumAssumption
<1>h. Len(input) \in Nat /\ base \in Nat /\ base + 0 = base
  BY DEF Here
<1>1. ASSUME NEW i \in Reps, NEW n \in 2..repLens[i], x = Target(n, Entry(0, i))
      PROVE  Candidate(input, base, 0, c, x.place, x.entry)
  <2>1. n \in 2..MatchLen(q, -1, c.reps[i], MaxLen)
    BY <1>1
  <2>2. n \in Nat /\ Fits(input, base + 0, n, i, c)
    BY <1>c, <2>1, RepFits
  <2>3. repLens[i] \in 0..MaxLen
    <3>1. /\ input \in Seq(Byte) /\ Len(input) \in Nat /\ base + 0 \in Nat
          /\ q = base + 0 + 1 /\ q \in Nat /\ q <= Len(input)
          /\ c.reps[i] \in Nat /\ c.reps[i] < base + 0
      BY <1>h DEF Here, Sound, Before
    <3>2. -1 \in Int /\ q + (-1) = base + 0 /\ base + 0 <= Len(input)
      BY <3>1
    <3> QED
      BY <1>c, <3>1, <3>2, MatchLenIs
  <2> DEFINE l == repLens[i]
  <2>4. l \in 0..MaxLen /\ l < FastBytes /\ n \in 2..l
    BY <1>1, <2>3
  <2> HIDE DEF l
  <2>5. n \in 1..FastBytes /\ 0 + n < NumOpts /\ 0 + n = n
    BY ONLY <1>c, <2>2, <2>4
  <2>6. Candidate(input, base, 0, c, 0 + n, Entry(0, i))
    BY <2>2, <2>5, PlainCandidate
  <2> QED
    BY <1>1, <2>5, <2>6 DEF Target
<1>2. ASSUME NEW startLen \in Nat, startLen >= 2, NEW n \in startLen..lenMain,
             x = Target(n, Entry(0, DistanceFor(report, n) + NumReps))
      PROVE  Candidate(input, base, 0, c, x.place, x.entry)
  <2> DEFINE d == DistanceFor(report, n)
  <2>1. n \in Nat /\ n >= 2 /\ n <= lenMain
    BY <1>2
  <2>2. report # << >> /\ n <= Last(report).len
    <3>1. report # << >>
      BY <2>1
    <3> QED
      BY <2>1, <3>1
  <2>3. d \in 0..(DictSize - 1) /\ Repeated(input, base, d, n)
    BY <1>h, <2>1, <2>2, DistanceForIs
  <2> HIDE DEF d
  <2>4. n \in 2..MaxLen /\ n \in 1..FastBytes /\ 0 + n < NumOpts /\ 0 + n = n
    BY <1>c, <2>1
  <2>5. Fits(input, base + 0, n, d + NumReps, c)
    BY <1>h, <2>3, <2>4, MatchFits
  <2>6. Candidate(input, base, 0, c, 0 + n, Entry(0, d + NumReps))
    BY <2>4, <2>5, PlainCandidate
  <2> QED
    BY <1>2, <2>4, <2>6 DEF Target, d
<1> DEFINE startLen == IF repLens[0] >= 2 THEN repLens[0] + 1 ELSE 2
<1>3. startLen \in Nat /\ startLen >= 2
  <2>1. /\ input \in Seq(Byte) /\ Len(input) \in Nat /\ base + 0 \in Nat
        /\ q = base + 0 + 1 /\ q \in Nat /\ q <= Len(input)
        /\ c.reps[0] \in Nat /\ c.reps[0] < base + 0
    BY <1>h, FourReps, SMTT(30) DEF Here, Sound, Before
  <2>2. -1 \in Int /\ q + (-1) = base + 0 /\ base + 0 <= Len(input)
    BY <2>1
  <2>3. repLens[0] \in 0..MaxLen
    BY <1>c, <2>1, <2>2, MatchLenIs, FourReps
  <2> QED
    BY <1>c, <2>3
<1>4. \/ \E i \in Reps : \E n \in 2..repLens[i] : x = Target(n, Entry(0, i))
      \/ \E n \in startLen..lenMain : x = Target(n, Entry(0, DistanceFor(report, n) + NumReps))
  BY DEF FirstTargets
<1> HIDE DEF startLen
<1> QED
  BY <1>1, <1>2, <1>3, <1>4

\* The single packet after which no search is made.
LEMMA SingleFits ==
  ASSUME NEW base, NEW c, NEW q, Here(base, 0, c, q), NEW back,
         back = Char \/ (back = 0 /\ ByteBack(q, -1) = ByteBack(q, -c.reps[0] - 2))
  PROVE  Fits(input, base, 1, back, c)
<1>h. /\ Len(input) \in Nat /\ base \in Nat \ {0} /\ base + 0 = base /\ Sound(c, base + 0)
      /\ q = base + 1 /\ q <= Len(input) /\ c.reps[0] \in Nat /\ c.reps[0] < base
  BY FourReps DEF Here, Sound, Before
<1>1. CASE back = Char
  BY <1>h, <1>1 DEF Fits
<1>2. CASE back = 0 /\ ByteBack(q, -1) = ByteBack(q, -c.reps[0] - 2)
  <2> DEFINE d == c.reps[0]
  <2>d. d \in Nat /\ d < base
    BY <1>h
  <2>1. input[q + 1 + (-1)] = input[q + 1 + (-d - 2)]
    BY <1>2 DEF ByteBack
  <2> HIDE DEF d
  <2>2. q + 1 + (-1) = base + 1 /\ q + 1 + (-d - 2) = base + 1 - d - 1
    BY ONLY <1>h, <2>d
  <2>3. Repeated(input, base, d, 1)
    <3>1. \A i \in 1..1 : i = 1
      OBVIOUS
    <3> QED
      BY <1>h, <2>1, <2>2, <2>d, <3>1 DEF Repeated
  <2> QED
    BY <1>h, <1>2, <2>3 DEF Fits, d
<1> QED
  BY <1>1, <1>2

\* What optimum and context may be when the main loop begins.
FirstSteps(c, q, T, lenEnd, opt, ctxs) ==
  LET same == ByteBack(q, -1) = ByteBack(q, -c.reps[0] - 2)
      single == {Char} \cup (IF same THEN {0} ELSE {})
      C == {Target(0, Infinite)} \cup {Target(1, Entry(0, back)) : back \in single} \cup T
  IN  opt \in Relaxed(<< >>, C, 0, lenEnd) /\ ctxs = [i \in {0} |-> c]

LEMMA FirstTable ==
  ASSUME NEW base, NEW c, NEW q, Here(base, 0, c, q),
         NEW T, \A x \in T : Candidate(input, base, 0, c, x.place, x.entry),
         NEW lenEnd \in Nat, lenEnd >= 2, lenEnd < NumOpts, base + lenEnd <= Len(input),
         NEW opt, NEW ctxs, FirstSteps(c, q, T, lenEnd, opt, ctxs)
  PROVE  DOMAIN opt = 0..lenEnd /\ DOMAIN ctxs = 0..0 /\ Table(input, base, opt, lenEnd, ctxs, 1)
<1> DEFINE same == ByteBack(q, -1) = ByteBack(q, -c.reps[0] - 2)
           single == {Char} \cup (IF same THEN {0} ELSE {})
           C == {Target(0, Infinite)} \cup {Target(1, Entry(0, back)) : back \in single} \cup T
<1>r. opt \in Relaxed(<< >>, C, 0, lenEnd) /\ ctxs = [i \in {0} |-> c]
  BY DEF FirstSteps
<1>s. /\ \A back \in single : back = Char \/ (back = 0 /\ same)
      /\ C = {Target(0, Infinite)} \cup {Target(1, Entry(0, back)) : back \in single} \cup T
      /\ Char \in single
  <2>1. CASE same
    BY <2>1
  <2>2. CASE ~same
    BY <2>2
  <2> QED
    BY <2>1, <2>2
<1>t. same => ByteBack(q, -1) = ByteBack(q, -c.reps[0] - 2)
  OBVIOUS
<1> HIDE DEF same, single, C
<1>c. 1 \in 1..FastBytes /\ 1 < NumOpts
  <2>1. FastBytes \in Nat /\ NumOpts \in Nat /\ 2 <= FastBytes /\ FastBytes < NumOpts
    BY OptimumAssumption
  <2> QED
    BY ONLY <2>1
<1>h. /\ Len(input) \in Nat /\ base \in Nat \ {0} /\ base + 0 = base /\ Sound(c, base + 0)
      /\ q = base + 1 /\ q <= Len(input) /\ c.reps[0] \in Nat /\ c.reps[0] < base
  BY SMTT(30), FourReps DEF Here, Sound, Before
<1>1. \A back \in single : Candidate(input, base, 0, c, 1, Entry(0, back))
  <2>1. ASSUME NEW back \in single PROVE Fits(input, base + 0, 1, back, c)
    <3>1. back = Char \/ (back = 0 /\ ByteBack(q, -1) = ByteBack(q, -c.reps[0] - 2))
      BY <1>s, <1>t
    <3>2. Fits(input, base, 1, back, c)
      BY <3>1, SingleFits
    <3> QED
      BY <1>h, <3>2
  <2>2. \A back \in single : Candidate(input, base, 0, c, 0 + 1, Entry(0, back))
    BY <1>c, <2>1, PlainCandidate
  <2> QED
    BY <2>2
<1>2. Dealt(<< >>, C, 0, lenEnd + 1, opt)
  <2>1. /\ lenEnd - 0 + 1 = lenEnd + 1 /\ lenEnd - 0 + 1 \in Nat /\ 0 \in Int /\ lenEnd \in Int
        /\ opt \in Relaxed(<< >>, C, 0, lenEnd)
    BY <1>r
  <2>2. Dealt(<< >>, C, 0, lenEnd - 0 + 1, opt)
    <3> DEFINE none == << >>
    <3>1. none = [i \in DOMAIN none |-> none[i]] /\ opt \in Relaxed(none, C, 0, lenEnd)
      BY <1>r, EmptyIs
    <3> HIDE DEF none
    <3>2. Dealt(none, C, 0, lenEnd - 0 + 1, opt)
      BY ONLY <2>1, <3>1, RelaxedIs
    <3> QED
      BY <3>2 DEF none
  <2> QED
    BY ONLY <2>1, <2>2, Zenon
<1>3. /\ DOMAIN opt = 0..lenEnd /\ opt = [i \in 0..lenEnd |-> opt[i]]
      /\ \A i \in 0..lenEnd : opt[i] \in Cheapest(<< >>, C, i)
  <2>1. 0 + (lenEnd + 1) - 1 = lenEnd
    OBVIOUS
  <2> QED
    BY <1>2, <2>1, EmptyIs DEF Dealt
<1>4. \A x \in C : \/ x.place = 0 /\ x.entry = Infinite
                   \/ Candidate(input, base, 0, c, x.place, x.entry)
  BY <1>1, <1>s DEF Target
<1>5. ASSUME NEW i \in 0..lenEnd
      PROVE  opt[i] = Infinite \/ Candidate(input, base, 0, c, i, opt[i])
  <2>1. \/ opt[i] = Infinite
        \/ i \in DOMAIN << >> /\ opt[i] = << >>[i]
        \/ \E x \in C : x.place = i /\ opt[i] = x.entry
    <3> DEFINE none == << >>
    <3>1. opt[i] \in Cheapest(none, C, i)
      BY <1>3
    <3> HIDE DEF none
    <3>2. \/ opt[i] = Infinite
          \/ i \in DOMAIN none /\ opt[i] = none[i]
          \/ \E x \in C : x.place = i /\ opt[i] = x.entry
      BY ONLY <3>1, CheapestIs
    <3> QED
      BY <3>2 DEF none
  <2> QED
    BY <1>4, <2>1, EmptyIs
<1>6. opt[1] # Infinite
  <2> DEFINE all == {x.entry : x \in {y \in C : y.place = 1}}
  <2>1. Target(1, Entry(0, Char)) \in C /\ Target(1, Entry(0, Char)).place = 1
    BY <1>s DEF Target
  <2>2. all # {}
    BY <2>1
  <2>3. Cheapest(<< >>, C, 1) = all
    <3>1. 1 \notin DOMAIN << >>
      BY <1>r, EmptyIs
    <3> QED
      BY <2>2, <3>1 DEF Cheapest
  <2>4. opt[1] \in all
    <3>1. 1 \in 0..lenEnd
      OBVIOUS
    <3> HIDE DEF all
    <3> QED
      BY <1>3, <2>3, <3>1
  <2>5. PICK x \in C : x.place = 1 /\ opt[1] = x.entry
    BY <2>4
  <2> QED
    BY <1>4, <2>5 DEF Candidate
<1>7. opt \in [0..lenEnd -> Entries]
  <2>1. \A i \in 0..lenEnd : opt[i] \in Entries
    BY <1>5, InfiniteIs DEF Candidate
  <2> QED
    BY <1>3, <2>1
<1>8. DOMAIN ctxs = 0..0 /\ ctxs[0] = c /\ 0..0 = {0}
  <2>1. 0..0 = {0}
    OBVIOUS
  <2> QED
    BY <1>r, <2>1
<1>9. ASSUME NEW i \in 1..lenEnd, opt[i] # Infinite
      PROVE  /\ Origin(opt[i]) \in 0..(1 - 1)
             /\ Leads(input, base, i, opt[i], ctxs[Origin(opt[i])])
  <2>1. Candidate(input, base, 0, c, i, opt[i])
    BY <1>5, <1>9
  <2> QED
    BY <1>8, <2>1 DEF Candidate
<1>10. /\ \A i \in 1..1 : opt[i] # Infinite
       /\ \A i \in 0..(1 - 1) : Sound(ctxs[i], base + i)
       /\ \A i \in 1..(1 - 1) : ctxs[i] = Arrived(i, opt[i], ctxs[Origin(opt[i])])
  <2>1. \A i \in 1..1 : i = 1
    OBVIOUS
  <2>2. \A i \in 0..(1 - 1) : i = 0
    OBVIOUS
  <2>3. 1..(1 - 1) = {}
    OBVIOUS
  <2> QED
    BY <1>6, <1>8, <1>h, <2>1, <2>2, <2>3
<1>11. 1 \in Nat \ {0} /\ 1 <= lenEnd
  OBVIOUS
<1>12. Table(input, base, opt, lenEnd, ctxs, 1)
  BY ONLY <1>7, <1>9, <1>10, <1>11, <1>h, lenEnd \in Nat, lenEnd < NumOpts,
          base + lenEnd <= Len(input), Zenon DEF Table
<1> QED
  BY <1>3, <1>8, <1>12

(***************************************************************************)
(* codeOneBlock: a packet that fits is one a parse may choose.             *)
(***************************************************************************)
\* A packet that may be coded: the first byte, or one that fits.
MayCode(n, back) ==
  \/ nowPos = 0 /\ n = 1 /\ back = Char /\ 0 < Len(input)
  \/ nowPos > 0 /\ Sound(Coder, nowPos) /\ Fits(input, nowPos, n, back, Coder)

LEMMA CodeParses ==
  ASSUME input \in Seq(Byte), Len(input) <= MaxInput, nowPos \in Nat, ~ended,
         NEW q \in Nat, NEW ahead \in Nat, q = nowPos + ahead,
         NEW n \in Nat \ {0}, NEW back, MayCode(n, back), Code(n, back, q, ahead)
  PROVE  Parse!ParseNext
<1> DEFINE was == [state |-> state, reps |-> repDistances, prev |-> prevByte, pos |-> nowPos]
           now == [state |-> state', reps |-> repDistances', prev |-> prevByte', pos |-> nowPos']
           after == AfterPacket(Coder, n, back)
<1>c. /\ Len(input) \in Nat /\ MaxLen \in Nat /\ MaxInput \in Nat /\ DictSize \in Nat
      /\ Parse!MinLen = 2 /\ Parse!Lengths = 2..MaxLen /\ Parse!Distances = 0..(MaxInput - 1)
  BY OptimumAssumption DEF Parse!Lengths, Parse!Distances, Parse!MinLen
<1>1. /\ state' = after.state /\ repDistances' = after.reps
      /\ prevByte' = input[nowPos + n] /\ nowPos' = nowPos + n
      /\ UNCHANGED <<input, size, ended>>
  <2>1. q + 1 + (n - 1 - ahead) = nowPos + n
    OBVIOUS
  <2> QED
    BY <2>1 DEF Code, ByteBack
<1>2. was.pos = nowPos /\ was.state = state /\ was.reps = repDistances
      /\ Coder.state = state /\ Coder.reps = repDistances
  BY DEF Coder
<1>3. now = [state |-> after.state, reps |-> after.reps,
             prev |-> input[was.pos + n], pos |-> was.pos + n]
  BY <1>1, <1>2
<1> HIDE DEF after
<1>4. Parse!Advance(n, after.state, after.reps)
  BY <1>1, <1>3 DEF Parse!Advance
<1>5. ASSUME NEW d, NEW m, Repeated(input, nowPos, d, m)
      PROVE  Parse!Repeats(d, m)
  BY <1>5 DEF Repeated, Parse!Repeats
<1>6. ASSUME n = 1, back = Char, nowPos < Len(input)
      PROVE  Parse!ParseNext
  <2>1. after = [state |-> Parse!AfterLiteral(state), reps |-> repDistances]
    BY <1>2, <1>6, FourReps DEF AfterPacket, after
  <2>2. Parse!Literal
    BY <1>2, <1>4, <1>6, <2>1 DEF Parse!Literal
  <2> QED
    BY <2>2 DEF Parse!ParseNext
<1>7. CASE nowPos = 0 /\ n = 1 /\ back = Char /\ 0 < Len(input)
  BY <1>6, <1>7
<1>8. CASE nowPos > 0 /\ Sound(Coder, nowPos) /\ Fits(input, nowPos, n, back, Coder)
  <2>1. CASE n = 1 /\ back = Char /\ nowPos < Len(input)
    BY <1>6, <2>1
  <2>2. CASE n = 1 /\ back = 0 /\ Repeated(input, nowPos, repDistances[0], 1)
    <3>1. after = [state |-> Parse!AfterShortRep(state), reps |-> repDistances]
      BY <1>2, <1>8, <2>2, AfterIs, 2 \in Nat /\ 2 >= 2 DEF after
    <3>2. Parse!ShortRep
      BY <1>2, <1>4, <1>5, <2>2, <3>1 DEF Parse!ShortRep
    <3> QED
      BY <3>2 DEF Parse!ParseNext
  <2>3. CASE n \in 2..MaxLen /\ back \in Reps /\ Repeated(input, nowPos, repDistances[back], n)
    <3>1. after = [state |-> Parse!AfterRep(state), reps |-> Parse!ToFront(repDistances, back)]
      <4>1. n >= 2
        BY <1>c, <2>3
      <4> QED
        BY <1>2, <1>8, <2>3, <4>1, AfterIs DEF after
    <3>2. Parse!Rep(back, n)
      BY <1>2, <1>4, <1>5, <2>3, <3>1 DEF Parse!Rep
    <3> QED
      BY <1>c, <2>3, <3>2 DEF Parse!ParseNext, Reps
  <2>4. CASE n \in 2..MaxLen /\ back - NumReps \in 0..(DictSize - 1) /\ back \in Nat
             /\ Repeated(input, nowPos, back - NumReps, n)
    <3> DEFINE d == back - NumReps
    <3>0. n >= 2 /\ back \notin Reps
      BY <1>c, <2>4, FourReps
    <3>1. after = [state |-> Parse!AfterMatch(state), reps |-> Parse!Pushed(repDistances, d)]
      BY <1>2, <1>8, <2>4, <3>0, AfterIs DEF after
    <3>2. d \in 0..(DictSize - 1) /\ Repeated(input, nowPos, d, n)
      BY <2>4
    <3> HIDE DEF d
    <3>3. Parse!Match(d, n)
      <4>1. d < DictSize
        BY <1>c, <3>2
      <4> QED
        BY <1>2, <1>4, <1>5, <3>1, <3>2, <4>1 DEF Parse!Match
    <3>4. d \in 0..(MaxInput - 1)
      BY <1>c, <3>2 DEF Repeated
    <3> QED
      BY <1>c, <2>4, <3>3, <3>4 DEF Parse!ParseNext
  <2> QED
    BY <1>2, <1>8, <2>1, <2>2, <2>3, <2>4 DEF Fits
<1> QED
  BY <1>7, <1>8 DEF MayCode

(***************************************************************************)
(* The inductive invariant.                                                *)
(***************************************************************************)
InRange ==
  /\ input \in Seq(Byte) /\ Len(input) <= MaxInput
  /\ nowPos \in Nat /\ additionalOffset \in Nat
  /\ at = nowPos + additionalOffset /\ at <= Len(input)
  /\ longestMatchLen \in Nat /\ endIndex \in Nat /\ curIndex \in Nat
  /\ searching \in BOOLEAN /\ ended \in BOOLEAN

Started ==
  /\ nowPos = 0 => /\ additionalOffset = 0 /\ ~searching /\ endIndex = curIndex
                   /\ repDistances = [i \in Reps |-> 0]
  /\ nowPos > 0 => Sound(Coder, nowPos)

\* A report kept is on the position after the ones of the path.
KeptReport ==
  longestMatchLen > 0 => /\ at > 0 /\ Told(input, at - 1, matches)
                         /\ longestMatchLen = Longest(at, matches)
                         /\ longestMatchLen >= FastBytes

\* By how many bytes the match finder is ahead, outside a search.
AheadIs ==
  ~searching => additionalOffset = endIndex - curIndex + IF longestMatchLen > 0 THEN 1 ELSE 0

\* What is left of a path is a way through the next bytes.
OnPath ==
  endIndex # curIndex =>
    /\ ~searching /\ nowPos - curIndex \in Nat \ {0}
    /\ \E P, ctx : /\ Way(input, nowPos - curIndex, optimum, P, ctx, curIndex, endIndex)
                   /\ ctx[curIndex] = Coder

InSearch ==
  searching =>
    /\ longestMatchLen = 0 /\ endIndex = curIndex
    /\ context[0] = Coder /\ DOMAIN context = 0..(additionalOffset - 1)
    /\ \E end \in Nat : /\ DOMAIN optimum = 0..end
                        /\ Table(input, nowPos, optimum, end, context, additionalOffset)

IInv == /\ InRange /\ Started /\ (ended => AtEnd)
        /\ KeptReport /\ AheadIs /\ OnPath /\ InSearch

LEMMA InitHolds == Init => IInv
<1> SUFFICES ASSUME Init PROVE IInv
  OBVIOUS
<1>1. input \in Seq(Byte) /\ Len(input) <= MaxInput /\ Len(input) \in Nat
  BY OptimumAssumption DEF Init
<1>2. /\ nowPos = 0 /\ additionalOffset = 0 /\ at = 0 /\ longestMatchLen = 0
      /\ endIndex = 0 /\ curIndex = 0 /\ searching = FALSE /\ ended = FALSE
      /\ repDistances = [i \in Reps |-> 0]
  BY DEF Init
<1>3. at = nowPos + additionalOffset /\ at <= Len(input)
  BY ONLY <1>1, <1>2
<1>4. InRange
  <2>1. /\ nowPos \in Nat /\ additionalOffset \in Nat /\ longestMatchLen \in Nat
        /\ endIndex \in Nat /\ curIndex \in Nat
    BY ONLY <1>2
  <2>2. searching \in BOOLEAN /\ ended \in BOOLEAN
    BY ONLY <1>2
  <2> QED
    BY ONLY <1>1, <1>3, <2>1, <2>2, Zenon DEF InRange
<1> QED
  BY <1>2, <1>4 DEF IInv, Started, KeptReport, AheadIs, OnPath, InSearch

\* What coding a packet keeps.
Codes(n, back, q, ahead) ==
  /\ q \in Nat /\ ahead \in Nat /\ q = nowPos + ahead /\ q <= Len(input)
  /\ n \in Nat \ {0} /\ n <= ahead /\ MayCode(n, back) /\ Code(n, back, q, ahead)

LEMMA CodeKeeps ==
  ASSUME InRange, Started, ~ended,
         NEW q, NEW ahead, NEW n, NEW back, Codes(n, back, q, ahead)
  PROVE  /\ input' = input /\ nowPos' = nowPos + n /\ nowPos' \in Nat \ {0}
         /\ at' = q /\ additionalOffset' = ahead - n /\ additionalOffset' \in Nat
         /\ at' = nowPos' + additionalOffset' /\ at' <= Len(input')
         /\ ended' = FALSE
         /\ Coder' = AfterPacket(Coder, n, back) /\ Sound(Coder', nowPos') /\ Started'
         /\ Parse!ParseNext
<1>a. /\ q \in Nat /\ ahead \in Nat /\ q = nowPos + ahead /\ q <= Len(input)
      /\ n \in Nat \ {0} /\ n <= ahead /\ MayCode(n, back) /\ Code(n, back, q, ahead)
  BY Zenon DEF Codes
<1>0. /\ input \in Seq(Byte) /\ Len(input) <= MaxInput /\ Len(input) \in Nat
      /\ nowPos \in Nat /\ additionalOffset \in Nat /\ ended \in BOOLEAN
  BY DEF InRange
<1>1. Parse!ParseNext
  BY <1>0, <1>a, CodeParses
<1>2. /\ input' = input /\ nowPos' = nowPos + n /\ at' = q /\ additionalOffset' = ahead - n
      /\ ended' = FALSE
      /\ state' = AfterPacket(Coder, n, back).state
      /\ repDistances' = AfterPacket(Coder, n, back).reps
  BY <1>0, <1>a DEF Code
<1>3. /\ nowPos' \in Nat \ {0} /\ nowPos' > 0 /\ nowPos' # 0 /\ additionalOffset' \in Nat
      /\ at' = nowPos' + additionalOffset' /\ at' <= Len(input')
  BY <1>0, <1>2, <1>a
<1>4. Coder' = AfterPacket(Coder, n, back)
  <2> DEFINE after == AfterPacket(Coder, n, back)
  <2>1. after = [state |-> after.state, reps |-> after.reps]
    BY DEF AfterPacket
  <2>2. Coder' = [state |-> state', reps |-> repDistances']
    BY DEF Coder
  <2> HIDE DEF after
  <2>3. state' = after.state /\ repDistances' = after.reps
    BY <1>2 DEF after
  <2> QED
    BY <2>1, <2>2, <2>3, Zenon DEF after
<1>5. Sound(AfterPacket(Coder, n, back), nowPos + n)
  <2>1. CASE nowPos = 0 /\ n = 1 /\ back = Char
    <3>1. repDistances = [i \in Reps |-> 0]
      BY <2>1 DEF Started
    <3>2. AfterPacket(Coder, n, back).reps = repDistances
      BY <2>1, FourReps DEF AfterPacket, Coder
    <3>3. 0 \in Before(nowPos + n)
      BY <2>1 DEF Before
    <3> QED
      BY <3>1, <3>2, <3>3 DEF Sound
  <2>2. CASE nowPos > 0 /\ Sound(Coder, nowPos) /\ Fits(input, nowPos, n, back, Coder)
    <3>1. nowPos \in Nat \ {0}
      BY <1>0, <2>2
    <3> QED
      BY <1>0, <2>2, <3>1, FitsIs
  <2> QED
    BY <1>a, <2>1, <2>2 DEF MayCode
<1>6. Sound(Coder', nowPos')
  BY <1>2, <1>4, <1>5
<1>7. Started'
  BY <1>3, <1>6 DEF Started
<1> QED
  BY <1>1, <1>2, <1>3, <1>4, <1>6, <1>7

\* A packet with which the match finder is no longer ahead.
LEMMA PacketKeeps ==
  ASSUME InRange, Started, ~ended, NEW q \in Nat, NEW n \in Nat \ {0}, q = nowPos + n,
         q <= Len(input), NEW back, MayCode(n, back), Code(n, back, q, n),
         longestMatchLen' = 0, endIndex' = curIndex', endIndex' \in Nat, searching' = FALSE
  PROVE  IInv' /\ Parse!ParseNext
<1>1. n \in Nat /\ n <= n /\ input \in Seq(Byte) /\ Len(input) <= MaxInput /\ Codes(n, back, q, n)
  BY DEF InRange, Codes
<1>2. /\ input' = input /\ nowPos' \in Nat \ {0}
      /\ at' = q /\ additionalOffset' = n - n
      /\ at' = nowPos' + additionalOffset' /\ at' <= Len(input')
      /\ ended' = FALSE /\ Started' /\ Parse!ParseNext
  BY <1>1, CodeKeeps
<1>3. additionalOffset' = 0 /\ longestMatchLen' = 0 /\ endIndex' \in Nat /\ curIndex' = endIndex'
  BY <1>2
<1>4. InRange'
  <2>1. nowPos' \in Nat /\ additionalOffset' \in Nat /\ longestMatchLen' \in Nat /\ curIndex' \in Nat
    BY ONLY <1>2, <1>3
  <2>2. input' \in Seq(Byte) /\ Len(input') <= MaxInput
    BY <1>1, <1>2
  <2>3. searching' \in BOOLEAN /\ ended' \in BOOLEAN
    BY <1>2
  <2> QED
    BY ONLY <1>2, <1>3, <2>1, <2>2, <2>3, Zenon DEF InRange
<1>5. AheadIs'
  <2>0. curIndex' \in Nat
    BY <1>3
  <2> DEFINE k == IF longestMatchLen' > 0 THEN 1 ELSE 0
  <2>1. k = 0
    BY <1>3
  <2> DEFINE e == endIndex'
             c == curIndex'
  <2>2. c \in Nat /\ e = c
    BY <1>3, <2>0
  <2> HIDE DEF k, e, c
  <2>3. e - c + k = 0
    BY ONLY <2>1, <2>2
  <2> QED
    BY ONLY <1>3, <2>3, Zenon DEF AheadIs, k, e, c
<1>6. KeptReport'
  BY ONLY <1>3 DEF KeptReport
<1>7. OnPath' /\ InSearch' /\ (ended' => AtEnd')
  BY <1>2 DEF OnPath, InSearch
<1> QED
  BY <1>2, <1>4, <1>5, <1>6, <1>7 DEF IInv

\* The first packet of a way to `end' is coded, when q bytes are passed.
Sets(base, opt, P, ctx, from, end, next, q, ahead) ==
  /\ base \in Nat \ {0} /\ from \in Nat /\ end \in Nat /\ nowPos = base + from /\ from # end
  /\ Way(input, base, opt, P, ctx, from, end) /\ ctx[from] = Coder
  /\ next = opt[from].posPrev /\ q \in Nat /\ ahead \in Nat /\ q = nowPos + ahead /\ q <= Len(input)
  /\ longestMatchLen' \in Nat
  /\ ahead = end - from + IF longestMatchLen' > 0 THEN 1 ELSE 0
  /\ Code(next - from, opt[from].backPrev, q, ahead)
  /\ endIndex' = end /\ curIndex' = next /\ optimum' = IF next = end THEN << >> ELSE opt
  /\ searching' = FALSE

LEMMA PathKeeps ==
  ASSUME InRange, Started, ~ended, NEW base, NEW opt, NEW P, NEW ctx, NEW from, NEW end,
         NEW next, NEW q, NEW ahead, Sets(base, opt, P, ctx, from, end, next, q, ahead),
         KeptReport'
  PROVE  IInv' /\ Parse!ParseNext
<1>0. /\ base \in Nat \ {0} /\ from \in Nat /\ end \in Nat /\ nowPos = base + from /\ from # end
      /\ Way(input, base, opt, P, ctx, from, end) /\ ctx[from] = Coder
      /\ next = opt[from].posPrev /\ q \in Nat /\ ahead \in Nat
      /\ q = nowPos + ahead /\ q <= Len(input)
      /\ longestMatchLen' \in Nat
      /\ ahead = end - from + (IF longestMatchLen' > 0 THEN 1 ELSE 0)
      /\ Code(next - from, opt[from].backPrev, q, ahead)
      /\ endIndex' = end /\ curIndex' = next /\ optimum' = (IF next = end THEN << >> ELSE opt)
      /\ searching' = FALSE
  BY Zenon DEF Sets
<1>n. nowPos \in Nat
  BY <1>0
<1> DEFINE n == next - from
           back == opt[from].backPrev
<1>1. input \in Seq(Byte) /\ Len(input) <= MaxInput /\ Len(input) \in Nat
  BY DEF InRange
<1>2. PICK Q : next \in (from + 1)..end /\ Way(input, base, opt, Q, ctx, next, end)
  BY <1>0, WayRest
<1>3. /\ from \in P /\ Fits(input, base + from, n, back, ctx[from])
      /\ ctx[next] = AfterPacket(ctx[from], n, back) /\ Sound(ctx[from], base + from)
  BY <1>0 DEF Way
<1>4. n \in Nat \ {0} /\ n <= ahead /\ next \in Nat /\ next <= end /\ ahead - n \in Nat
      /\ ahead - n = end - next + (IF longestMatchLen' > 0 THEN 1 ELSE 0)
      /\ nowPos + n = base + next /\ nowPos > 0
  <2> DEFINE to == opt[from].posPrev
  <2>1. next \in (from + 1)..end /\ n = next - from
    BY <1>2
  <2> HIDE DEF n
  <2> QED
    <3> DEFINE k == IF longestMatchLen' > 0 THEN 1 ELSE 0
    <3>0. k \in Nat /\ ahead = end - from + k
      BY ONLY <1>0
    <3>1. /\ k \in Nat /\ ahead = end - from + k /\ next \in Nat
          /\ from \in Nat /\ end \in Nat /\ base \in Nat \ {0} /\ nowPos = base + from
      <4> HIDE DEF k
      <4>0. from \in Nat /\ end \in Nat
        BY <1>0
      <4>1. next \in Nat
        BY ONLY <1>2, <4>0
      <4> QED
        BY ONLY <1>0, <3>0, <4>1
    <3> HIDE DEF k
    <3>2. /\ n \in Nat \ {0} /\ n <= ahead /\ next <= end /\ ahead - n \in Nat
          /\ ahead - n = end - next + k /\ nowPos + n = base + next /\ nowPos > 0
      BY ONLY <2>1, <3>1, <1>n
    <3> QED
      BY ONLY <3>1, <3>2, Zenon DEF k
<1>5. MayCode(n, back)
  BY <1>0, <1>3, <1>4 DEF MayCode
<1>6. Code(n, back, q, ahead)
  BY <1>0
<1> HIDE DEF n, back
<1>7. /\ input' = input /\ nowPos' = nowPos + n /\ nowPos' \in Nat \ {0}
      /\ at' = q /\ additionalOffset' = ahead - n
      /\ at' = nowPos' + additionalOffset' /\ at' <= Len(input')
      /\ ended' = FALSE /\ Coder' = AfterPacket(Coder, n, back) /\ Started' /\ Parse!ParseNext
  <2>1. /\ n \in Nat \ {0} /\ n <= ahead /\ q \in Nat /\ ahead \in Nat /\ q = nowPos + ahead
        /\ q <= Len(input)
    BY <1>0, <1>4
  <2>2. Codes(n, back, q, ahead)
    BY ONLY <2>1, <1>5, <1>6, Zenon DEF Codes
  <2> QED
    BY ONLY <2>2, CodeKeeps, InRange, Started, ~ended, ZenonT(40)
<1>8. InRange'
  BY <1>0, <1>1, <1>4, <1>7 DEF InRange
<1>9. AheadIs'
  BY <1>0, <1>4, <1>7 DEF AheadIs
<1>10. OnPath'
  <2> SUFFICES ASSUME endIndex' # curIndex' PROVE OnPath'
    BY DEF OnPath
  <2>1. optimum' = opt
    BY <1>0
  <2>2. nowPos' - curIndex' = base
    <3>1. curIndex' = next /\ next \in Nat /\ nowPos' = base + next /\ base \in Nat
      BY <1>0, <1>4, <1>7
    <3> QED
      BY ONLY <3>1
  <2>3. Way(input', nowPos' - curIndex', optimum', Q, ctx, curIndex', endIndex')
    BY <1>0, <1>2, <1>7, <2>1, <2>2
  <2>4. ctx[curIndex'] = Coder'
    BY <1>0, <1>3, <1>7
  <2> QED
    BY <1>0, <2>2, <2>3, <2>4 DEF OnPath
<1>11. InSearch'
  BY <1>0 DEF InSearch
<1> QED
  BY <1>7, <1>8, <1>9, <1>10, <1>11 DEF IInv

LEMMA FirstByteKeeps ==
  ASSUME IInv, FirstByte
  PROVE  IInv' /\ Parse!ParseNext
<1>1. InRange /\ Started /\ (ended => AtEnd) /\ AheadIs /\ nowPos = 0 /\ ~AtEnd
  BY DEF IInv, FirstByte
<1>2. /\ at \in Nat /\ at = nowPos + additionalOffset /\ Len(input) \in Nat
      /\ endIndex \in Nat /\ longestMatchLen \in Nat /\ searching \in BOOLEAN /\ at <= Len(input)
  BY <1>1 DEF InRange
<1>3. additionalOffset = 0 /\ ~searching /\ endIndex = curIndex /\ ~ended
  BY <1>1 DEF Started
<1>4. longestMatchLen = 0 /\ at = 0
  BY <1>1, <1>2, <1>3 DEF AheadIs
<1>5. 0 < Len(input)
  BY <1>1, <1>2, <1>3, <1>4 DEF AtEnd, Left
<1>6. MayCode(1, Char)
  BY <1>1, <1>5 DEF MayCode
<1>7. /\ Code(1, Char, at + 1, 1) /\ longestMatchLen' = 0 /\ endIndex' = curIndex'
      /\ endIndex' \in Nat /\ searching' = FALSE
  BY <1>2, <1>3, <1>4 DEF FirstByte, searchVars
<1>8. at + 1 \in Nat /\ at + 1 = nowPos + 1 /\ at + 1 <= Len(input) /\ 1 \in Nat \ {0}
  BY <1>1, <1>2, <1>4, <1>5
<1> QED
  BY ONLY <1>1, <1>3, <1>6, <1>7, <1>8, PacketKeeps

LEMMA FlushKeeps ==
  ASSUME IInv, Flush
  PROVE  IInv' /\ Parse!ParseNext
<1>1. InRange /\ Started /\ KeptReport /\ AheadIs /\ OnPath /\ InSearch /\ ~ended /\ AtEnd
  BY DEF IInv, Flush
<1>2. /\ UNCHANGED <<input, size, prevByte, repDistances, nowPos>>
      /\ UNCHANGED <<at, additionalOffset, matches, longestMatchLen>>
      /\ UNCHANGED <<optimum, context, endIndex, curIndex, searching>>
      /\ ended' = TRUE /\ state' = IF size = -1 THEN Parse!AfterMatch(state) ELSE state
  BY DEF Flush, finderVars, searchVars
<1>3. additionalOffset = 0 /\ Left(at) = 0
  BY <1>1 DEF AtEnd
<1>4. nowPos \in Nat /\ at = nowPos + additionalOffset /\ Len(input) \in Nat
      /\ endIndex \in Nat /\ curIndex \in Nat /\ searching \in BOOLEAN
  BY <1>1 DEF InRange
<1>5. nowPos = Len(input)
  BY <1>3, <1>4 DEF Left
<1>6. ~searching
  BY <1>1, <1>3 DEF InSearch, Table
<1>7. endIndex = curIndex
  <2> SUFFICES ASSUME endIndex # curIndex PROVE FALSE
    OBVIOUS
  <2> DEFINE base == nowPos - curIndex
  <2>1. base \in Nat
    BY <1>1 DEF OnPath
  <2>2. PICK P, ctx : Way(input, base, optimum, P, ctx, curIndex, endIndex)
    BY <1>1 DEF OnPath
  <2> HIDE DEF base
  <2>3. optimum[curIndex].posPrev \in (curIndex + 1)..endIndex
    BY <1>4, <2>1, <2>2, WayRest
  <2>4. endIndex > curIndex
    BY <1>4, <2>3
  <2> QED
    BY <1>1, <1>3, <1>4, <1>6, <2>4 DEF AheadIs
<1>8. InRange'
  BY <1>1, <1>2 DEF InRange
<1>9. Started'
  <2>1. Coder'.reps = Coder.reps
    BY <1>2 DEF Coder
  <2> QED
    BY <1>1, <1>2, <2>1 DEF Started, Sound
<1>10. KeptReport' /\ AheadIs'
  <2>1. /\ input' = input /\ at' = at /\ matches' = matches /\ longestMatchLen' = longestMatchLen
        /\ endIndex' = endIndex /\ curIndex' = curIndex /\ searching' = searching
        /\ additionalOffset' = additionalOffset
    BY <1>2
  <2>2. Longest(at, matches)' = Longest(at, matches)
    BY <2>1 DEF Longest, MatchLen, Left, ByteBack
  <2> QED
    BY <1>1, <2>1, <2>2, Zenon DEF KeptReport, AheadIs
<1>11. OnPath' /\ InSearch'
  BY <1>2, <1>6, <1>7 DEF OnPath, InSearch
<1>12. AtEnd'
  BY <1>1, <1>2 DEF AtEnd, Left
<1>13. IInv'
  BY <1>8, <1>9, <1>10, <1>11, <1>12 DEF IInv
<1>14. Parse!ParseNext
  <2> DEFINE was == [state |-> state, reps |-> repDistances, prev |-> prevByte, pos |-> nowPos]
             now == [state |-> state', reps |-> repDistances', prev |-> prevByte', pos |-> nowPos']
  <2>1. now = IF size = -1 THEN [was EXCEPT !.state = Parse!AfterMatch(@)] ELSE was
    BY <1>2
  <2>2. was.pos = Len(input)
    BY <1>5
  <2>3. Parse!Flush
    BY <1>1, <1>2, <2>1, <2>2 DEF Parse!Flush
  <2> QED
    BY <2>3 DEF Parse!ParseNext
<1> QED
  BY <1>13, <1>14

LEMMA NextOfPathKeeps ==
  ASSUME IInv, NextOfPath
  PROVE  IInv' /\ Parse!ParseNext
<1> DEFINE base == nowPos - curIndex
           next == optimum[curIndex].posPrev
<1>1. InRange /\ Started /\ KeptReport /\ AheadIs /\ OnPath /\ (ended => AtEnd) /\ endIndex # curIndex
  BY DEF IInv, NextOfPath
<1>2. /\ nowPos \in Nat /\ at = nowPos + additionalOffset /\ at \in Nat /\ Len(input) \in Nat
      /\ endIndex \in Nat /\ curIndex \in Nat /\ at <= Len(input)
      /\ longestMatchLen \in Nat /\ additionalOffset \in Nat
  BY <1>1 DEF InRange
<1>3. PICK P, ctx : /\ Way(input, base, optimum, P, ctx, curIndex, endIndex)
                    /\ ctx[curIndex] = Coder
  BY <1>1 DEF OnPath
<1>4. base \in Nat \ {0} /\ nowPos = base + curIndex /\ ~searching
  BY <1>1, <1>2 DEF OnPath
<1>5. /\ Code(next - curIndex, optimum[curIndex].backPrev, at, additionalOffset)
      /\ curIndex' = next /\ optimum' = IF next = endIndex THEN << >> ELSE optimum
      /\ UNCHANGED <<matches, longestMatchLen, context, endIndex, searching>>
  BY DEF NextOfPath
<1>6. at' = at /\ input' = input
  BY <1>5 DEF Code
<1>7. KeptReport'
  <2>1. matches' = matches /\ longestMatchLen' = longestMatchLen
    BY <1>5
  <2>2. Longest(at, matches)' = Longest(at, matches)
    BY <1>6, <2>1 DEF Longest, MatchLen, Left, ByteBack
  <2> QED
    BY <1>1, <1>6, <2>1, <2>2, Zenon DEF KeptReport
<1> HIDE DEF base
<1>8. next \in (curIndex + 1)..endIndex
  BY <1>1, <1>2, <1>3, <1>4, WayRest
<1>9. ~ended
  <2>1. endIndex > curIndex
    BY <1>2, <1>8
  <2>2. additionalOffset # 0
    BY <1>1, <1>2, <1>4, <2>1 DEF AheadIs
  <2> QED
    BY <1>1, <2>2 DEF AtEnd
<1>10. /\ additionalOffset = endIndex - curIndex + IF longestMatchLen' > 0 THEN 1 ELSE 0
       /\ longestMatchLen' \in Nat /\ endIndex' = endIndex /\ searching' = FALSE
  <2>1. searching = FALSE
    BY <1>1, <1>4 DEF InRange
  <2> QED
    BY <1>1, <1>2, <1>4, <1>5, <2>1 DEF AheadIs
<1>11. Sets(base, optimum, P, ctx, curIndex, endIndex, next, at, additionalOffset)
  <2> DEFINE to == optimum[curIndex].posPrev
  <2>1. next = to
    OBVIOUS
  <2> HIDE DEF next
  <2> QED
    BY ONLY <1>1, <1>2, <1>3, <1>4, <1>5, <1>10, <2>1 DEF Sets, to
<1> QED
  BY <1>1, <1>7, <1>9, <1>11, PathKeeps

\* Where a search is.
LEMMA SearchAt ==
  ASSUME IInv, searching
  PROVE  /\ Cardinality(DOMAIN context) = additionalOffset /\ additionalOffset \in Nat \ {0}
         /\ nowPos \in Nat \ {0} /\ at = nowPos + additionalOffset /\ at \in Nat
         /\ context[0] = Coder /\ ~ended /\ longestMatchLen = 0 /\ endIndex = curIndex
         /\ DOMAIN context = 0..(additionalOffset - 1)
         /\ \E end \in Nat : /\ DOMAIN optimum = 0..end /\ Most(DOMAIN optimum) = end
                             /\ Table(input, nowPos, optimum, end, context, additionalOffset)
<1>1. InRange /\ InSearch /\ (ended => AtEnd)
  BY DEF IInv
<1>2. PICK end \in Nat : /\ DOMAIN optimum = 0..end
                         /\ Table(input, nowPos, optimum, end, context, additionalOffset)
  BY <1>1 DEF InSearch
<1>3. additionalOffset \in Nat \ {0} /\ nowPos \in Nat \ {0}
  BY <1>2 DEF Table
<1>4. /\ context[0] = Coder /\ longestMatchLen = 0 /\ endIndex = curIndex
      /\ DOMAIN context = 0..(additionalOffset - 1)
  BY <1>1 DEF InSearch
<1>5. Cardinality(DOMAIN context) = additionalOffset
  <2>1. 0 \in Int /\ additionalOffset - 1 \in Int /\ ~(0 > additionalOffset - 1)
        /\ additionalOffset - 1 - 0 + 1 = additionalOffset
    BY <1>3
  <2> QED
    BY <1>4, <2>1, FS_Interval
<1>6. Most(DOMAIN optimum) = end
  <2>1. 0..end \subseteq Nat /\ 0..end # {} /\ \A x \in 0..end : x <= end
    OBVIOUS
  <2>2. Most(0..end) \in 0..end /\ \A x \in 0..end : x <= Most(0..end)
    BY <2>1, MostIs
  <2> DEFINE m == Most(0..end)
  <2>3. m \in 0..end /\ end <= m
    BY <2>2
  <2> HIDE DEF m
  <2>4. m = end
    BY ONLY <2>3, end \in Nat
  <2> QED
    BY <1>2, <2>4 DEF m
<1>7. ~ended /\ at = nowPos + additionalOffset /\ at \in Nat
  BY <1>1, <1>3 DEF AtEnd, InRange
<1> QED
  BY <1>2, <1>3, <1>4, <1>5, <1>6, <1>7

LEMMA TakePathKeeps ==
  ASSUME IInv, searching, NEW k \in {0, 1}, NEW q, q = at + k, q <= Len(input),
         NEW ahead, ahead = additionalOffset + k, TakePath(additionalOffset, q, ahead),
         longestMatchLen' \in Nat, k = IF longestMatchLen' > 0 THEN 1 ELSE 0, KeptReport'
  PROVE  IInv' /\ Parse!ParseNext
<1> DEFINE cur == additionalOffset
           path == Backward(cur)
           first == path[0].posPrev
<1>1. InRange /\ Started
  BY DEF IInv
<1>2. PICK end \in Nat : Table(input, nowPos, optimum, end, context, cur)
  BY SearchAt
<1>3. cur \in Nat \ {0} /\ nowPos \in Nat \ {0} /\ at = nowPos + cur /\ at \in Nat
      /\ context[0] = Coder /\ ~ended
  BY SearchAt
<1>4. PICK P, ctx : Way(input, nowPos, path, P, ctx, 0, cur) /\ ctx[0] = context[0]
  <2>1. cur \in 1..cur
    BY <1>3
  <2> HIDE DEF cur
  <2> QED
    BY <1>2, <2>1, BackwardLays
<1>5. /\ Code(first, path[0].backPrev, q, ahead)
      /\ endIndex' = cur /\ curIndex' = first
      /\ optimum' = IF first = cur THEN << >> ELSE path
      /\ searching' = FALSE
  BY DEF TakePath
<1> HIDE DEF path
<1>6. first \in (0 + 1)..cur
  BY <1>3, <1>4, WayRest
<1>7. first - 0 = first /\ ahead = cur - 0 + k /\ q \in Nat /\ ahead \in Nat /\ q = nowPos + ahead
      /\ nowPos = nowPos + 0 /\ 0 # cur
  <2> HIDE DEF cur
  <2> QED
    BY <1>3, <1>6 DEF cur
<1>8. Sets(nowPos, path, P, ctx, 0, cur, first, q, ahead)
  <2>1. ctx[0] = Coder /\ 0 \in Nat /\ cur \in Nat
    BY <1>3, <1>4
  <2>2. Code(first - 0, path[0].backPrev, q, ahead)
    BY <1>5, <1>7
  <2>3. ahead = cur - 0 + (IF longestMatchLen' > 0 THEN 1 ELSE 0)
    BY <1>7
  <2> QED
    BY ONLY <1>3, <1>4, <1>5, <1>7, <2>1, <2>2, <2>3, q <= Len(input), longestMatchLen' \in Nat DEF Sets
<1> QED
  BY <1>1, <1>3, <1>8, PathKeeps

LEMMA EndSearchKeeps ==
  ASSUME IInv, EndSearch
  PROVE  IInv' /\ Parse!ParseNext
<1>1. searching /\ UNCHANGED <<matches, longestMatchLen>>
  BY DEF EndSearch
<1>2. TakePath(additionalOffset, at, additionalOffset)
  BY <1>1, SearchAt DEF EndSearch
<1>3. longestMatchLen' = 0 /\ at \in Nat /\ additionalOffset \in Nat
  BY <1>1, SearchAt
<1>4. KeptReport'
  BY <1>3 DEF KeptReport
<1>5. at = at + 0 /\ additionalOffset = additionalOffset + 0 /\ at <= Len(input)
  BY <1>3 DEF IInv, InRange
<1>6. longestMatchLen' \in Nat /\ 0 = IF longestMatchLen' > 0 THEN 1 ELSE 0
  BY <1>3
<1> QED
  BY <1>1, <1>2, <1>4, <1>5, <1>6, TakePathKeeps, 0 \in {0, 1}

LEMMA SearchKeeps ==
  ASSUME IInv, Search
  PROVE  IInv' /\ (Parse!ParseNext \/ UNCHANGED Parse!encVars)
<1> DEFINE cur == additionalOffset
           q == at + 1
<1>1. searching /\ InRange /\ Started
  BY DEF Search, IInv
<1>2. /\ Cardinality(DOMAIN context) = cur /\ cur \in Nat \ {0}
      /\ nowPos \in Nat \ {0} /\ at = nowPos + cur /\ at \in Nat
      /\ context[0] = Coder /\ ~ended /\ longestMatchLen = 0 /\ endIndex = curIndex
      /\ DOMAIN context = 0..(cur - 1)
  BY <1>1, SearchAt
<1>3. PICK end \in Nat : /\ DOMAIN optimum = 0..end /\ Most(DOMAIN optimum) = end
                         /\ Table(input, nowPos, optimum, end, context, cur)
  BY <1>1, SearchAt
<1>4. /\ input \in Seq(Byte) /\ Len(input) <= MaxInput /\ Len(input) \in Nat
      /\ endIndex \in Nat /\ searching = TRUE /\ ended = FALSE
  BY <1>1, <1>2 DEF InRange
<1>5. cur < end /\ nowPos + end <= Len(input)
  BY <1>2, <1>3 DEF Search, Table
<1>6. q \in Nat \ {0} /\ q - 1 = at /\ q = nowPos + cur + 1 /\ q <= Len(input)
  <2> DEFINE p == nowPos
             a == at
             c == additionalOffset
  <2>1. a = p + c /\ p \in Nat \ {0} /\ c \in Nat \ {0} /\ a \in Nat /\ c < end /\ end \in Nat
        /\ p + end <= Len(input) /\ Len(input) \in Nat
    BY <1>2, <1>4, <1>5
  <2> HIDE DEF p, a, c
  <2>2. a + 1 \in Nat \ {0} /\ (a + 1) - 1 = a /\ a + 1 = p + c + 1 /\ a + 1 <= Len(input)
    BY ONLY <2>1
  <2> QED
    BY ONLY <2>2, Zenon DEF p, a, c
<1>7. FastBytes \in Nat /\ 2 <= FastBytes
  BY OptimumAssumption
<1>8. PICK report \in Reports :
        LET newLen == Longest(q, report)
        IN  \/ /\ newLen >= FastBytes
               /\ matches' = report /\ longestMatchLen' = newLen
               /\ TakePath(cur, q, additionalOffset + 1)
            \/ /\ newLen < FastBytes
               /\ context' = Extended(context, cur, ContextAt(cur))
               /\ Relax(cur, q, report)
               /\ at' = q /\ additionalOffset' = additionalOffset + 1
               /\ UNCHANGED <<coderVars, matches, longestMatchLen,
                              endIndex, curIndex, searching>>
  BY <1>2 DEF Search
<1>9. Told(input, at, report)
  BY ReportsAre
<1> DEFINE newLen == Longest(q, report)
<1>10. CASE /\ newLen >= FastBytes
            /\ matches' = report /\ longestMatchLen' = newLen
            /\ TakePath(cur, q, additionalOffset + 1)
  <2>1. newLen \in Nat
    BY <1>4, <1>6, <1>9, LongestIs
  <2>2. input' = input /\ at' = q
    BY <1>10 DEF TakePath, Code
  <2>3. Longest(at, matches)' = newLen
    BY <1>10, <2>2 DEF Longest, MatchLen, Left, ByteBack
  <2>4. at' > 0 /\ at' - 1 = at
    <3> HIDE DEF q
    <3> QED
      BY <1>2, <1>6, <2>2
  <2> HIDE DEF newLen, q
  <2>5. newLen > 0 /\ newLen >= FastBytes /\ 1 = (IF newLen > 0 THEN 1 ELSE 0)
    BY <1>7, <1>10, <2>1
  <2>6. KeptReport'
    <3>1. Told(input', at' - 1, matches')
      BY <1>9, <1>10, <2>2, <2>4
    <3> QED
      BY <1>10, <2>3, <2>4, <2>5, <3>1 DEF KeptReport
  <2>7. /\ 1 \in {0, 1} /\ q = at + 1 /\ longestMatchLen' \in Nat
        /\ 1 = IF longestMatchLen' > 0 THEN 1 ELSE 0
    BY <1>10, <2>1, <2>5 DEF q
  <2>8. IInv' /\ Parse!ParseNext
    BY <1>1, <1>6, <1>10, <2>6, <2>7, TakePathKeeps
  <2> QED
    BY <2>8
<1>11. CASE /\ newLen < FastBytes
            /\ context' = Extended(context, cur, ContextAt(cur))
            /\ Relax(cur, q, report)
            /\ at' = q /\ additionalOffset' = additionalOffset + 1
            /\ UNCHANGED <<coderVars, matches, longestMatchLen, endIndex, curIndex, searching>>
  <2> HIDE DEF newLen
  <2>1. /\ input' = input /\ size' = size /\ ended' = ended /\ state' = state
        /\ prevByte' = prevByte /\ repDistances' = repDistances /\ nowPos' = nowPos
        /\ longestMatchLen' = longestMatchLen /\ endIndex' = endIndex /\ curIndex' = curIndex
        /\ searching' = searching /\ at' = q /\ additionalOffset' = cur + 1
    BY <1>11 DEF coderVars
  <2>2. Coder' = Coder
    BY <2>1 DEF Coder
  <2>3. Told(input, nowPos + cur, report)
    BY <1>2, <1>9
  <2>4. /\ DOMAIN context' = 0..cur
        /\ \E end2 \in Nat : /\ DOMAIN optimum' = 0..end2 /\ cur + 1 <= end2
                             /\ Table(input, nowPos, optimum', end2, context', cur + 1)
    <3>1. /\ context' = Extended(context, cur, ContextAt(cur)) /\ Relax(cur, q, report)
      BY <1>11
    <3> HIDE DEF cur, q
    <3> QED
      BY ONLY <1>2, <1>3, <1>4, <1>5, <1>6, <2>3, <3>1, RelaxIs
  <2>5. context'[0] = Coder
    <3>1. 0 \in DOMAIN context /\ 0 # cur
      BY <1>2
    <3> QED
      BY <1>2, <1>11, <3>1 DEF Extended
  <2>6. additionalOffset' - 1 = cur /\ additionalOffset' \in Nat
    <3> DEFINE a == additionalOffset'
    <3>1. a = cur + 1
      BY <2>1
    <3> HIDE DEF a, cur
    <3>2. a - 1 = cur /\ a \in Nat
      BY <1>2, <3>1
    <3> QED
      BY <3>2 DEF a
  <2>7. InSearch'
    BY <1>2, <2>1, <2>2, <2>4, <2>5, <2>6 DEF InSearch
  <2>8. InRange'
    <3>1. at' = nowPos' + additionalOffset' /\ at' <= Len(input')
      BY <1>2, <1>6, <2>1
    <3> QED
      BY <1>2, <1>4, <2>1, <2>6, <3>1 DEF InRange
  <2>9. Started'
    BY <1>1, <1>2, <2>1, <2>2 DEF Started
  <2>10. KeptReport' /\ AheadIs' /\ OnPath'
    BY <1>2, <1>4, <2>1 DEF KeptReport, AheadIs, OnPath
  <2>11. IInv'
    BY <1>4, <2>1, <2>7, <2>8, <2>9, <2>10 DEF IInv
  <2>12. UNCHANGED Parse!encVars
    BY <2>1 DEF Parse!encVars
  <2> QED
    BY <2>11, <2>12
<1> QED
  BY <1>8, <1>10, <1>11

\* A packet that getOptimum returns without a search.
LEMMA TakePacketKeeps ==
  ASSUME InRange, Started, ~ended, ~searching, nowPos > 0, NEW n, NEW back,
         Fits(input, nowPos, n, back, Coder), NEW q, q = nowPos + n,
         TakePacket(n, back, q, n), longestMatchLen' = 0
  PROVE  IInv' /\ Parse!ParseNext
<1>1. nowPos \in Nat \ {0} /\ Len(input) \in Nat /\ Sound(Coder, nowPos) /\ searching = FALSE
  BY DEF InRange, Started
<1>2. n \in Nat \ {0} /\ nowPos + n <= Len(input)
  BY <1>1, FitsIs
<1>3. q \in Nat /\ q <= Len(input)
  BY <1>1, <1>2
<1>4. MayCode(n, back)
  BY <1>1 DEF MayCode
<1>5. /\ Code(n, back, q, n) /\ endIndex' = curIndex' /\ endIndex' \in Nat /\ searching' = FALSE
  BY <1>1 DEF TakePacket
<1> QED
  BY <1>1, <1>2, <1>3, <1>4, <1>5, PacketKeeps

\* There is a longest repeat, the first of those that are as long.
LEMMA BestIs ==
  ASSUME NEW f, \A i \in Reps : f[i] \in Nat
  PROVE  \E i \in Reps : \A j \in Reps : f[j] < f[i] \/ (f[j] = f[i] /\ i <= j)
<1> DEFINE a == f[0]
           b == f[1]
           c == f[2]
           d == f[3]
           Beats(x, i, y, j) == y < x \/ (y = x /\ i <= j)
<1>1. a \in Nat /\ b \in Nat /\ c \in Nat /\ d \in Nat
  BY FourReps
<1>2. Reps = {0, 1, 2, 3}
  BY FourReps
<1> HIDE DEF a, b, c, d
<1>3. \/ Beats(a, 0, a, 0) /\ Beats(a, 0, b, 1) /\ Beats(a, 0, c, 2) /\ Beats(a, 0, d, 3)
      \/ Beats(b, 1, a, 0) /\ Beats(b, 1, b, 1) /\ Beats(b, 1, c, 2) /\ Beats(b, 1, d, 3)
      \/ Beats(c, 2, a, 0) /\ Beats(c, 2, b, 1) /\ Beats(c, 2, c, 2) /\ Beats(c, 2, d, 3)
      \/ Beats(d, 3, a, 0) /\ Beats(d, 3, b, 1) /\ Beats(d, 3, c, 2) /\ Beats(d, 3, d, 3)
  BY ONLY <1>1
<1> HIDE DEF Beats
<1>4. \E i \in {0, 1, 2, 3} : \A j \in {0, 1, 2, 3} : Beats(f[i], i, f[j], j)
  BY <1>3 DEF a, b, c, d
<1> QED
  BY <1>2, <1>4 DEF Beats

\* getOptimum, when it is asked for another packet.
LEMMA ChooseKeeps ==
  ASSUME InRange, Started, ~ended, ~searching, nowPos > 0, NEW q, q = nowPos + 1, q <= Len(input),
         NEW report, Told(input, nowPos, report), NEW lenMain, lenMain = Longest(q, report),
         Choose(report, q, 1, lenMain), matches' = << >>, longestMatchLen' = 0
  PROVE  IInv' /\ (Parse!ParseNext \/ UNCHANGED Parse!encVars)
<1> DEFINE repLens == [i \in Reps |-> MatchLen(q, -1, repDistances[i], MaxLen)]
           best == CHOOSE i \in Reps : \A j \in Reps : \/ repLens[j] < repLens[i]
                                                       \/ repLens[j] = repLens[i] /\ i <= j
           lenEnd == Most({repLens[best], lenMain})
           same == ByteBack(q, -1) = ByteBack(q, -repDistances[0] - 2)
           single == {Char} \cup (IF same THEN {0} ELSE {})
           rests == /\ optimum' \in Relaxed(<< >>, {Target(0, Infinite)}
                                       \cup {Target(1, Entry(0, back)) : back \in single}
                                       \cup FirstTargets(report, repLens, lenMain), 0, lenEnd)
                    /\ context' = [i \in {0} |-> Coder]
                    /\ endIndex' = 0 /\ curIndex' = 0 /\ searching' = TRUE
                    /\ at' = q /\ additionalOffset' = 1
                    /\ UNCHANGED coderVars
<1>c. /\ FastBytes \in Nat /\ MaxLen \in Nat /\ NumOpts \in Nat /\ FastBytes <= MaxLen
      /\ 2 <= FastBytes /\ FastBytes < NumOpts
  BY OptimumAssumption
<1>1. /\ input \in Seq(Byte) /\ Len(input) <= MaxInput /\ Len(input) \in Nat
      /\ nowPos \in Nat \ {0} /\ Sound(Coder, nowPos) /\ ended = FALSE
  BY DEF InRange, Started
<1>2. Coder.reps = repDistances /\ nowPos + 0 = nowPos
  BY <1>1 DEF Coder
<1>3. Here(nowPos, 0, Coder, q)
  <2>1. q = nowPos + 0 + 1 /\ 0 + 1 < NumOpts /\ 0 \in Nat
    BY <1>1, <1>c
  <2> QED
    BY <1>1, <1>2, <2>1 DEF Here
<1>4. q \in Nat \ {0} /\ q - 1 = nowPos /\ q + (-1) = nowPos
  BY <1>1
<1>5. ASSUME NEW i \in Reps
      PROVE  /\ repLens[i] \in Nat /\ repLens[i] <= MaxLen
             /\ repLens[i] = MatchLen(q, -1, Coder.reps[i], MaxLen)
             /\ Repeated(input, nowPos, repDistances[i], repLens[i])
  <2> DEFINE d == repDistances[i]
  <2>1. d \in Before(nowPos)
    BY <1>1, <1>2 DEF Sound
  <2>2. d \in Nat /\ d < nowPos
    BY <1>1, <2>1 DEF Before
  <2>3. repLens[i] = MatchLen(q, -1, d, MaxLen)
    OBVIOUS
  <2> HIDE DEF d
  <2>4. /\ MatchLen(q, -1, d, MaxLen) \in 0..MaxLen
        /\ Repeated(input, nowPos, d, MatchLen(q, -1, d, MaxLen))
    <3>1. -1 \in Int /\ q + (-1) \in Nat /\ q + (-1) <= Len(input) /\ d < q + (-1) /\ q \in Nat
      BY <1>1, <1>4, <2>2
    <3> QED
      BY ZenonT(40), <1>1, <1>4, <1>c, <2>2, <3>1, MatchLenIs
  <2> HIDE DEF repLens
  <2>5. repLens[i] \in 0..MaxLen
    BY <2>3, <2>4
  <2> QED
    BY <1>2, <1>c, <2>3, <2>4, <2>5 DEF d
<1>6. best \in Reps /\ \A j \in Reps : repLens[j] <= repLens[best]
  <2> DEFINE Beats(i) == \A j \in Reps : \/ repLens[j] < repLens[i]
                                         \/ repLens[j] = repLens[i] /\ i <= j
  <2> HIDE DEF repLens
  <2>1. \E i \in Reps : Beats(i)
    BY <1>5, BestIs
  <2>2. best \in Reps /\ Beats(best)
    BY <2>1
  <2> DEFINE b == best
  <2>3. b \in Reps /\ Beats(b)
    BY <2>2
  <2> HIDE DEF b
  <2>4. \A j \in Reps : repLens[j] <= repLens[b]
    BY <1>5, <2>3
  <2> QED
    BY <2>3, <2>4 DEF b
<1> HIDE DEF best
<1>7. /\ lenMain \in Nat /\ lenMain <= MaxLen
      /\ (report = << >> => lenMain = 0)
      /\ (report # << >> => /\ Last(report).dist \in 0..(DictSize - 1)
                            /\ Repeated(input, nowPos, Last(report).dist, lenMain)
                            /\ (lenMain < FastBytes => lenMain = Last(report).len))
  BY <1>1, <1>4, LongestIs
<1> DEFINE rb == repLens[best]
<1>8. rb \in Nat /\ rb <= MaxLen
  BY <1>5, <1>6
<1>l. lenEnd \in {rb, lenMain}
  <2> HIDE DEF rb
  <2>1. {rb, lenMain} \subseteq Nat /\ {rb, lenMain} # {} /\ \A x \in {rb, lenMain} : x <= MaxLen
    BY ONLY <1>c, <1>7, <1>8
  <2> QED
    BY <1>c, <2>1, MostIs DEF rb
<1>9. \/ Left(q) + 1 < 2 /\ TakePacket(1, Char, q, 1)
      \/ rb >= FastBytes /\ TakePacket(rb, best, q + rb - 1, 1 + rb - 1)
      \/ lenMain >= FastBytes
         /\ TakePacket(lenMain, Last(report).dist + NumReps, q + lenMain - 1, 1 + lenMain - 1)
      \/ \E back \in single : TakePacket(1, back, q, 1)
      \/ ~(rb >= FastBytes) /\ lenMain < FastBytes /\ lenEnd >= 2 /\ rests
  <2>1. Choose(report, q, 1, lenMain)
    OBVIOUS
  <2> HIDE DEF lenEnd, rests
  <2>2. \/ lenMain >= FastBytes
        \/ lenMain < FastBytes /\ lenEnd < 2
        \/ lenMain < FastBytes /\ lenEnd >= 2
    <3> HIDE DEF rb, repLens
    <3> QED
      BY ONLY <1>c, <1>7, <1>8, <1>l
  <2> QED
    BY ONLY <2>1, <2>2 DEF Choose, best, lenEnd, rests
<1>10. ASSUME NEW n, NEW back, Fits(input, nowPos, n, back, Coder), TakePacket(n, back, nowPos + n, n)
       PROVE  IInv' /\ Parse!ParseNext
  <2> HIDE DEF repLens, lenEnd, same, single, rests
  <2> QED
    BY <1>10, TakePacketKeeps
<1>11. CASE Left(q) + 1 < 2 /\ TakePacket(1, Char, q, 1)
  <2>1. nowPos < Len(input)
    BY <1>1
  <2>2. Fits(input, nowPos, 1, Char, Coder)
    BY <2>1 DEF Fits
  <2> QED
    BY <1>10, <1>11, <2>2
<1>12. CASE rb >= FastBytes /\ TakePacket(rb, best, q + rb - 1, 1 + rb - 1)
  <2>1. rb = MatchLen(q, -1, Coder.reps[best], MaxLen)
    BY <1>5, <1>6
  <2> HIDE DEF rb, repLens, lenEnd, same, single, rests
  <2>2. rb \in 2..rb /\ q + rb - 1 = nowPos + rb /\ 1 + rb - 1 = rb
    BY ONLY <1>1, <1>4, <1>8, <1>12, <1>c, q = nowPos + 1
  <2>3. Fits(input, nowPos + 0, rb, best, Coder)
    BY <1>3, <1>6, <1>c, <2>1, <2>2, RepFits, MaxLen <= MaxLen
  <2> QED
    BY <1>2, <1>10, <1>12, <2>2, <2>3
<1>13. CASE lenMain >= FastBytes
            /\ TakePacket(lenMain, Last(report).dist + NumReps, q + lenMain - 1, 1 + lenMain - 1)
  <2> DEFINE d == Last(report).dist
  <2> HIDE DEF rb, repLens, lenEnd, same, single, rests
  <2>1. lenMain \in Nat /\ lenMain <= MaxLen /\ lenMain # 0
    BY <1>7, <1>13, <1>c
  <2>2. d \in 0..(DictSize - 1) /\ Repeated(input, nowPos, d, lenMain)
    BY <1>7, <2>1
  <2> HIDE DEF d
  <2>3. lenMain \in 2..MaxLen /\ q + lenMain - 1 = nowPos + lenMain /\ 1 + lenMain - 1 = lenMain
    BY ONLY <1>1, <1>4, <1>13, <1>c, <2>1, q = nowPos + 1
  <2>4. Fits(input, nowPos + 0, lenMain, d + NumReps, Coder)
    BY <1>2, <2>2, <2>3, MatchFits
  <2> QED
    BY <1>2, <1>10, <1>13, <2>3, <2>4 DEF d
<1>14. CASE \E back \in single : TakePacket(1, back, q, 1)
  <2>1. PICK back \in single : TakePacket(1, back, q, 1)
    BY <1>14
  <2>2. back = Char \/ (back = 0 /\ same)
    <3>1. CASE same
      BY <3>1
    <3>2. CASE ~same
      BY <3>2
    <3> QED
      BY <3>1, <3>2
  <2>3. Fits(input, nowPos, 1, back, Coder)
    BY <1>2, <1>3, <2>2, SingleFits
  <2> QED
    BY <1>10, <2>1, <2>3
<1>15. CASE ~(rb >= FastBytes) /\ lenMain < FastBytes /\ lenEnd >= 2 /\ rests
  <2> DEFINE T == FirstTargets(report, repLens, lenMain)
             C == {Target(0, Infinite)} \cup {Target(1, Entry(0, back)) : back \in single} \cup T
  <2>1. \A i \in Reps : repLens[i] < FastBytes
    <3> HIDE DEF repLens, lenEnd, rests
    <3>1. rb < FastBytes
      <4> HIDE DEF rb
      <4> QED
        BY <1>8, <1>15, <1>c
    <3> QED
      BY <1>5, <1>6, <1>c, <3>1
  <2>2. repLens = [i \in Reps |-> MatchLen(q, -1, Coder.reps[i], MaxLen)]
    BY <1>2
  <2>3. lenMain = (IF report = << >> THEN 0 ELSE Last(report).len)
    BY <1>7, <1>15
  <2>4. \A x \in T : Candidate(input, nowPos, 0, Coder, x.place, x.entry)
    <3> HIDE DEF repLens, rb, lenEnd, single, same, rests
    <3>1. lenMain < FastBytes
      BY <1>15
    <3> QED
      BY ONLY <1>3, <1>7, <2>1, <2>2, <2>3, <3>1, FirstCandidates, Told(input, nowPos, report)
  <2>5. /\ lenEnd \in Nat /\ lenEnd >= 2 /\ lenEnd < NumOpts /\ nowPos + lenEnd <= Len(input)
    <3> HIDE DEF repLens, rests
    <3>1. /\ rb < FastBytes /\ rb \in Nat /\ nowPos + rb <= Len(input)
          /\ lenMain \in Nat /\ lenMain < FastBytes
          /\ nowPos + lenMain <= Len(input)
      <4>1. nowPos + rb <= Len(input)
        BY <1>5, <1>6 DEF Repeated
      <4>2. nowPos + lenMain <= Len(input)
        BY <1>1, <1>7 DEF Repeated
      <4> QED
        BY <1>6, <1>7, <1>8, <1>15, <2>1, <4>1, <4>2
    <3> HIDE DEF rb, lenEnd
    <3> QED
      BY <1>c, <1>l, <1>15, <3>1
  <2>6. optimum' \in Relaxed(<< >>, C, 0, lenEnd) /\ context' = [i \in {0} |-> Coder]
    BY <1>15
  <2>8. /\ DOMAIN optimum' = 0..lenEnd /\ DOMAIN context' = 0..0
        /\ Table(input, nowPos, optimum', lenEnd, context', 1)
    <3> DEFINE opt == optimum'
               ctxs == context'
    <3>1. FirstSteps(Coder, q, T, lenEnd, opt, ctxs)
      BY <1>2, <2>6 DEF FirstSteps
    <3> HIDE DEF opt, ctxs, same, single, C, T, lenEnd
    <3>4. /\ DOMAIN opt = 0..lenEnd /\ DOMAIN ctxs = 0..0
          /\ Table(input, nowPos, opt, lenEnd, ctxs, 1)
      BY ONLY <1>3, <2>4, <2>5, <3>1, FirstTable
    <3> QED
      BY <3>4 DEF opt, ctxs
  <2>9. /\ endIndex' = 0 /\ curIndex' = 0 /\ searching' = TRUE /\ at' = q /\ additionalOffset' = 1
        /\ input' = input /\ size' = size /\ ended' = ended /\ state' = state
        /\ prevByte' = prevByte /\ repDistances' = repDistances /\ nowPos' = nowPos
    BY <1>15 DEF coderVars
  <2> HIDE DEF repLens, rb, lenEnd, single, same, rests, T, C
  <2>10. Coder' = Coder
    BY <2>9 DEF Coder
  <2>11. InSearch'
    <3>1. context'[0] = Coder /\ 1 - 1 = 0
      BY <2>6
    <3> QED
      BY <2>5, <2>8, <2>9, <2>10, <3>1 DEF InSearch
  <2>12. InRange'
    <3>1. at' = nowPos' + additionalOffset' /\ at' <= Len(input')
      BY <2>9
    <3>2. nowPos' \in Nat /\ additionalOffset' \in Nat /\ longestMatchLen' \in Nat
          /\ endIndex' \in Nat /\ curIndex' \in Nat
      BY <1>1, <2>9
    <3>3. input' \in Seq(Byte) /\ Len(input') <= MaxInput /\ searching' \in BOOLEAN
          /\ ended' \in BOOLEAN
      BY <1>1, <2>9
    <3> QED
      BY ONLY <3>1, <3>2, <3>3, Zenon DEF InRange
  <2>13. Started'
    BY <1>1, <2>9, <2>10 DEF Started
  <2>14. KeptReport' /\ AheadIs' /\ OnPath'
    BY <2>9 DEF KeptReport, AheadIs, OnPath
  <2>15. IInv'
    BY <1>1, <2>9, <2>11, <2>12, <2>13, <2>14 DEF IInv
  <2>16. UNCHANGED Parse!encVars
    BY <2>9 DEF Parse!encVars
  <2> QED
    BY <2>15, <2>16
<1> QED
  BY <1>9, <1>11, <1>12, <1>13, <1>14, <1>15

LEMMA BeginKeeps ==
  ASSUME IInv, Begin
  PROVE  IInv' /\ (Parse!ParseNext \/ UNCHANGED Parse!encVars)
<1>1. /\ InRange /\ Started /\ KeptReport /\ AheadIs /\ (ended => AtEnd)
      /\ endIndex = curIndex /\ ~searching /\ nowPos > 0 /\ ~AtEnd /\ ~ended
      /\ matches' = << >> /\ longestMatchLen' = 0
  BY DEF IInv, Begin
<1>2. /\ nowPos \in Nat /\ additionalOffset \in Nat /\ at = nowPos + additionalOffset
      /\ at <= Len(input) /\ Len(input) \in Nat /\ longestMatchLen \in Nat /\ endIndex \in Nat
      /\ at \in Nat
  BY <1>1 DEF InRange
<1>3. CASE longestMatchLen > 0
  <2>1. additionalOffset = 1
    BY <1>1, <1>2, <1>3 DEF AheadIs
  <2>2. at = nowPos + 1 /\ at - 1 = nowPos /\ at + 0 = at
    BY <1>2, <2>1
  <2>3. Choose(matches, at + 0, additionalOffset + 0, longestMatchLen)
    BY <1>3 DEF Begin
  <2>4. Told(input, nowPos, matches) /\ longestMatchLen = Longest(at, matches)
    BY <1>1, <1>3, <2>2 DEF KeptReport
  <2>5. Choose(matches, at, 1, longestMatchLen)
    BY <2>1, <2>2, <2>3
  <2> QED
    BY ONLY <1>1, <1>2, <2>2, <2>4, <2>5, ChooseKeeps
<1>4. CASE ~(longestMatchLen > 0)
  <2>1. additionalOffset = 0
    BY <1>1, <1>2, <1>4 DEF AheadIs
  <2>2. at = nowPos /\ at + 1 = nowPos + 1 /\ additionalOffset + 1 = 1 /\ at + 1 <= Len(input)
    BY <1>1, <1>2, <2>1 DEF AtEnd, Left
  <2>3. PICK report \in Reports :
          Choose(report, at + 1, additionalOffset + 1, Longest(at + 1, report))
    BY <1>4 DEF Begin
  <2>4. Told(input, nowPos, report)
    BY <2>2, ReportsAre
  <2> DEFINE q == at + 1
             l == Longest(at + 1, report)
  <2>5. Choose(report, q, 1, l) /\ l = Longest(q, report) /\ q = nowPos + 1 /\ q <= Len(input)
    BY <2>2, <2>3
  <2> HIDE DEF q, l
  <2> QED
    BY ONLY <1>1, <1>2, <2>4, <2>5, ChooseKeeps
<1> QED
  BY <1>3, <1>4

(***************************************************************************)
(* The invariant, and what follows from it.                                *)
(***************************************************************************)
LEMMA StepKeeps == IInv /\ [Next]_vars => IInv' /\ [Parse!ParseNext]_(Parse!encVars)
<1> SUFFICES ASSUME IInv, [Next]_vars
             PROVE  IInv' /\ (Parse!ParseNext \/ UNCHANGED Parse!encVars)
  OBVIOUS
<1>1. CASE FirstByte
  BY <1>1, FirstByteKeeps
<1>2. CASE NextOfPath
  BY <1>2, NextOfPathKeeps
<1>3. CASE Begin
  BY <1>3, BeginKeeps
<1>4. CASE EndSearch
  BY <1>4, EndSearchKeeps
<1>5. CASE Search
  BY <1>5, SearchKeeps
<1>6. CASE Flush
  BY <1>6, FlushKeeps
<1>7. CASE UNCHANGED vars
  <2>1. /\ input' = input /\ size' = size /\ ended' = ended /\ state' = state
        /\ prevByte' = prevByte /\ repDistances' = repDistances /\ nowPos' = nowPos
        /\ at' = at /\ additionalOffset' = additionalOffset /\ matches' = matches
        /\ longestMatchLen' = longestMatchLen /\ optimum' = optimum /\ context' = context
        /\ endIndex' = endIndex /\ curIndex' = curIndex /\ searching' = searching
    BY <1>7 DEF vars, coderVars, finderVars, searchVars
  <2>2. Coder' = Coder /\ AtEnd' = AtEnd
    BY <2>1 DEF Coder, AtEnd, Left
  <2>3. Longest(at, matches)' = Longest(at, matches)
    BY <2>1 DEF Longest, MatchLen, Left, ByteBack
  <2>4. InRange' /\ Started' /\ (ended' => AtEnd')
    BY <2>1, <2>2 DEF IInv, InRange, Started
  <2>5. KeptReport' /\ AheadIs'
    BY <2>1, <2>3, Zenon DEF IInv, KeptReport, AheadIs
  <2>6. OnPath'
    BY <2>1, <2>2 DEF IInv, OnPath
  <2>7. InSearch'
    BY <2>1, <2>2 DEF IInv, InSearch
  <2>8. UNCHANGED Parse!encVars
    BY <2>1 DEF Parse!encVars
  <2> QED
    BY <2>4, <2>5, <2>6, <2>7, <2>8 DEF IInv
<1> QED
  BY <1>1, <1>2, <1>3, <1>4, <1>5, <1>6, <1>7 DEF Next

\* The inductive invariant holds of what codeOneBlock, getOptimum and backward do.
THEOREM ParserInvariant == Spec => []IInv
<1>1. IInv /\ [Next]_vars => IInv'
  BY StepKeeps
<1> QED
  BY InitHolds, <1>1, PTL DEF Spec

\* getOptimum never reaches past the end of optimum, and asks for the price of
\* no length above fastBytes, for which the length coder has no price.
THEOREM TablesAreEnough == Spec => []StaysInTables
<1>1. IInv => StaysInTables
  <2> SUFFICES ASSUME IInv, searching, NEW i \in DOMAIN optimum
               PROVE  LET e == optimum[i]
                      IN  /\ i < NumOpts
                          /\ i > 0 /\ e # Infinite =>
                               /\ i - e.posPrev <= FastBytes
                               /\ e.prev1IsChar /\ e.prev2 => e.posPrev - 1 - e.posPrev2 <= FastBytes
    BY DEF StaysInTables
  <2> DEFINE e == optimum[i]
             c == context[Origin(e)]
  <2>1. PICK end \in Nat : /\ DOMAIN optimum = 0..end
                           /\ Table(input, nowPos, optimum, end, context, additionalOffset)
    BY SearchAt
  <2>2. end < NumOpts /\ NumOpts \in Nat /\ FastBytes \in Nat
    BY <2>1, OptimumAssumption DEF Table
  <2>3. i \in 0..end /\ i < NumOpts
    BY <2>1, <2>2
  <2>4. ASSUME i > 0, e # Infinite
        PROVE  /\ i - e.posPrev <= FastBytes
               /\ (e.prev1IsChar /\ e.prev2 => e.posPrev - 1 - e.posPrev2 <= FastBytes)
    <3>1. i \in 1..end
      BY <2>3, <2>4
    <3>2. Leads(input, nowPos, i, e, c)
      BY <2>1, <2>4, <3>1 DEF Table
    <3> DEFINE n == i - e.posPrev
               m == e.posPrev - 1 - e.posPrev2
    <3>3. n \in 1..FastBytes /\ (e.prev1IsChar /\ e.prev2 => m \in 2..FastBytes)
      BY <3>2 DEF Leads
    <3> HIDE DEF n, m
    <3>4. n <= FastBytes /\ (e.prev1IsChar /\ e.prev2 => m <= FastBytes)
      BY <2>2, <3>3
    <3> QED
      BY <3>4 DEF n, m
  <2> QED
    BY <2>3, <2>4
<1> QED
  BY <1>1, ParserInvariant, PTL

\* The state and the repeat distances with which getOptimum prices and looks for
\* repeats at a place are those codeOneBlock has when it takes the packets that
\* backward would lay out to it.
THEOREM PathsArePricedAsCoded == Spec => []PricesWhatIsCoded
<1>1. IInv => PricesWhatIsCoded
  <2> DEFINE k == Cardinality(DOMAIN context) - 1
  <2> SUFFICES ASSUME IInv, searching, k > 0
               PROVE  Replay(Backward(k), k, context[0]) = context[k]
    BY DEF PricesWhatIsCoded
  <2>1. PICK end \in Nat : Table(input, nowPos, optimum, end, context, additionalOffset)
    BY SearchAt
  <2>2. Cardinality(DOMAIN context) = additionalOffset /\ additionalOffset \in Nat \ {0}
    BY SearchAt
  <2>3. k \in 1..(additionalOffset - 1) /\ k \in 1..additionalOffset /\ k \in Nat /\ k # 0
    BY <2>2
  <2> HIDE DEF k
  <2>4. PICK P, ctx : /\ Way(input, nowPos, Backward(k), P, ctx, 0, k)
                      /\ ctx[0] = context[0]
                      /\ ctx[k] = ContextOf(optimum, context, k)
    BY <2>1, <2>3, BackwardLays
  <2>5. Replay(Backward(k), k, ctx[0]) = ctx[k]
    BY <2>3, <2>4, ReplayIs
  <2>6. context[k] = ContextOf(optimum, context, k)
    BY <2>1, <2>3 DEF Table, ContextOf
  <2> QED
    BY <2>4, <2>5, <2>6
<1> QED
  BY <1>1, ParserInvariant, PTL

\* Whatever the prices are, codeOneBlock codes a parse of the input: getOptimum
\* and backward, and the match finder's reports kept from one call to the next,
\* never give it a packet that is not there.
THEOREM ParserImplementsParse == Spec => ImplementsParse
<1>1. Init => Parse!ParseInit
  <2> SUFFICES ASSUME Init PROVE Parse!ParseInit
    OBVIOUS
  <2>1. input \in Seq(Byte) /\ Len(input) <= MaxInput
    BY OptimumAssumption DEF Init
  <2>2. [state |-> state, reps |-> repDistances, prev |-> prevByte, pos |-> nowPos] = Parse!Start
    BY DEF Init, Parse!Start, Reps
  <2> QED
    BY <2>1, <2>2 DEF Init, Parse!ParseInit
<1>2. IInv /\ [Next]_vars => [Parse!ParseNext]_(Parse!encVars)
  BY StepKeeps
<1> QED
  BY <1>1, <1>2, ParserInvariant, PTL DEF Spec, ImplementsParse, Parse!ParseSpec
=============================================================================
