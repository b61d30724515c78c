------------------------- MODULE PacketCodecProofs -------------------------
(***************************************************************************)
(* Proofs about PacketCodec, for every set of inputs and every size of the *)
(* dictionary, the lengths and the context tables, and however far the     *)
(* encoder is ahead.                                                       *)
(*                                                                         *)
(* Lockstep says that both sides agree when no packet is under way. To     *)
(* prove it one has to say what a packet under way means: from the         *)
(* decoder's state to the encoder's there is a chain of states, one per    *)
(* packet, in which every packet is coded in the contexts of the state     *)
(* before it and describes the input up to the state after it (Chain). The *)
(* encoder adds a link at the one end and the decoder, which computes the  *)
(* contexts anew, takes one off at the other.                              *)
(***************************************************************************)
EXTENDS PacketCodec, SequenceTheorems, WellFoundedInduction, TLAPS

(***************************************************************************)
(* Arithmetic and sequences.                                               *)
(***************************************************************************)
\* A set of numbers that is not empty has a least one: induction, for the provers.
LEMMA Least ==
  ASSUME NEW T, T \subseteq Nat, T # {}
  PROVE  \E x \in T : \A y \in T : x <= y
<1>1. PICK x \in T : \A y \in T : ~ (<<y, x>> \in OpToRel(<, Nat))
  BY NatLessThanWellFounded, WFMin
<1>2. \A y \in T : ~(y < x)
  BY <1>1 DEF OpToRel
<1> QED
  BY <1>2

LEMMA ModDown ==
  ASSUME NEW x \in Nat, NEW m \in Nat \ {0}
  PROVE  /\ x % m \in 0..(m - 1)
         /\ x < m => x % m = x
         /\ x >= m => x % m = (x - m) % m
<1>1. x % m \in 0..(m - 1)
  OBVIOUS
<1>2. x < m => x % m = x
  OBVIOUS
<1>3. ASSUME x >= m PROVE x % m = (x - m) % m
  <2> DEFINE q == x \div m
             r == x % m
             s == (x - m) \div m
             t == (x - m) % m
  <2>1. q \in Int /\ r \in 0..(m - 1) /\ x = m * q + r
    OBVIOUS
  <2>2. s \in Int /\ t \in 0..(m - 1) /\ x - m = m * s + t
    BY <1>3
  <2> HIDE DEF q, r, s, t
  <2>3. m * q + r = m * (s + 1) + t
    BY <2>1, <2>2
  <2>4. r = t
    BY <2>1, <2>2, <2>3
  <2> QED
    BY <2>4 DEF r, t
<1> QED
  BY <1>1, <1>2, <1>3

\* Each of the n elements of f behind p equals the one d + 1 before it.
Repeating(f, p, d, n) == \A i \in 1..n : f[p + i] = f[p + i - d - 1]

\* They then equal the d + 1 elements up to p, time and again.
LEMMA Periodic ==
  ASSUME NEW f, NEW p \in Nat, NEW d \in Nat, d < p, NEW n \in Nat, Repeating(f, p, d, n)
  PROVE  \A i \in 1..n : f[p + i] = f[p - d + ((i - 1) % (d + 1))]
<1> USE DEF Repeating
<1> DEFINE T == {i \in 1..n : f[p + i] # f[p - d + ((i - 1) % (d + 1))]}
<1> SUFFICES ASSUME T # {} PROVE FALSE
  OBVIOUS
<1>1. PICK i \in T : \A j \in T : i <= j
  <2>1. T \subseteq Nat
    OBVIOUS
  <2> HIDE DEF T
  <2> QED
    BY <2>1, Least
<1>2. /\ i \in 1..n /\ f[p + i] # f[p - d + ((i - 1) % (d + 1))]
      /\ f[p + i] = f[p + i - d - 1]
  OBVIOUS
<1>3. i - 1 \in Nat /\ d + 1 \in Nat \ {0}
  BY <1>2
<1>4. CASE i - 1 < d + 1
  <2>1. (i - 1) % (d + 1) = i - 1
    BY <1>3, <1>4, ModDown
  <2>2. p - d + (i - 1) = p + i - d - 1
    BY <1>2
  <2> QED
    BY <1>2, <2>1, <2>2
<1>5. CASE i - 1 >= d + 1
  <2> DEFINE j == i - (d + 1)
  <2>1. j \in 1..n /\ j < i
    BY <1>2, <1>5
  <2>2. f[p + j] = f[p - d + ((j - 1) % (d + 1))]
    <3>1. j \notin T
      <4> HIDE DEF T
      <4> QED
        BY <1>1, <1>2, <2>1
    <3> HIDE DEF j
    <3> QED
      BY <2>1, <3>1
  <2>3. (i - 1) % (d + 1) = (j - 1) % (d + 1)
    <3>1. (i - 1) % (d + 1) = ((i - 1) - (d + 1)) % (d + 1)
      BY <1>3, <1>5, ModDown
    <3>2. (i - 1) - (d + 1) = j - 1
      BY <1>2
    <3> QED
      BY <3>1, <3>2
  <2>4. p + j = p + i - d - 1
    BY <1>2
  <2> QED
    BY <1>2, <2>2, <2>3, <2>4
<1> QED
  BY <1>2, <1>4, <1>5
-----------------------------------------------------------------------------
(***************************************************************************)
(* Packets, as links between two states of a side that codes or decodes    *)
(* the bytes `in'.                                                         *)
(***************************************************************************)
States == [state : 0..11, reps : [Reps -> Nat], prev : Byte, pos : Nat]

\* Repeat distances lie within what has been coded and within the dictionary.
RepsFit(a) ==
  \A i \in Reps : a.reps[i] = 0 \/ (a.reps[i] < a.pos /\ a.reps[i] < DictSize)

\* After a match there is something to match a literal against, unless none is left.
Fits(in, a) ==
  /\ a \in States /\ a.pos <= Len(in) /\ RepsFit(a)
  /\ a.state >= 7 /\ a.pos < Len(in) => a.reps[0] < a.pos

After(in, a, n, state, reps) ==
  [state |-> state, reps |-> reps, prev |-> in[a.pos + n], pos |-> a.pos + n]

RepeatsAt(in, a, d, n) ==
  /\ d < a.pos /\ a.pos + n <= Len(in)
  /\ Repeating(in, a.pos, d, n)

\* Symbol i of packet p, coded in context `at', is `sym'.
Has(p, i, at, sym) == i \in 1..Len(p) /\ p[i].at = at /\ p[i].sym = sym

LiteralAt(in, a) == IF IsCharState(a.state) THEN Plain(a.pos, a.prev)
                    ELSE Matched(a.pos, a.prev, in[a.pos - a.reps[0]])

LiteralMove(in, a, p, b) ==
  /\ a.pos < Len(in)
  /\ Has(p, 1, IsMatch(a.state, a.pos), 0)
  /\ Has(p, 2, LiteralAt(in, a), in[a.pos + 1])
  /\ b = After(in, a, 1, AfterLiteral(a.state), a.reps)

HasRep(p, a) == Has(p, 1, IsMatch(a.state, a.pos), 1) /\ Has(p, 2, IsRep(a.state), 1)

ShortRepMove(in, a, p, b) ==
  /\ RepeatsAt(in, a, a.reps[0], 1)
  /\ HasRep(p, a)
  /\ Has(p, 3, IsRepG(0, a.state), 0) /\ Has(p, 4, Rep0Long(a.state, a.pos), 0)
  /\ b = After(in, a, 1, AfterShortRep(a.state), a.reps)

HasChoice(p, a, k) ==
  \/ /\ k = 0 /\ Has(p, 3, IsRepG(0, a.state), 0)
     /\ Has(p, 4, Rep0Long(a.state, a.pos), 1)
  \/ /\ k = 1 /\ Has(p, 3, IsRepG(0, a.state), 1)
     /\ Has(p, 4, IsRepG(1, a.state), 0)
  \/ /\ k \in {2, 3} /\ Has(p, 3, IsRepG(0, a.state), 1)
     /\ Has(p, 4, IsRepG(1, a.state), 1) /\ Has(p, 5, IsRepG(2, a.state), k - 2)

RepMove(in, a, p, b, k, n) ==
  /\ RepeatsAt(in, a, a.reps[k], n)
  /\ HasRep(p, a) /\ HasChoice(p, a, k)
  /\ Has(p, IF k < 2 THEN 5 ELSE 6, RepLenAt(a.pos), n)
  /\ b = After(in, a, n, AfterRep(a.state), ToFront(a.reps, k))

HasMatch(p, a, n, d) ==
  /\ Has(p, 1, IsMatch(a.state, a.pos), 1) /\ Has(p, 2, IsRep(a.state), 0)
  /\ Has(p, 3, LenAt(a.pos), n) /\ Has(p, 4, DistanceAt(n), d)

MatchMove(in, a, p, b, d, n) ==
  /\ RepeatsAt(in, a, d, n) /\ d < DictSize
  /\ HasMatch(p, a, n, d)
  /\ b = After(in, a, n, AfterMatch(a.state), Pushed(a.reps, d))

Moves(in, a, p, b) ==
  \/ LiteralMove(in, a, p, b)
  \/ ShortRepMove(in, a, p, b)
  \/ \E k \in Reps, n \in Lengths : RepMove(in, a, p, b, k, n)
  \/ \E d \in Distances, n \in Lengths : MatchMove(in, a, p, b, d, n)

\* The packet that marks the end of a stream of unknown size.
Marks(in, sz, a, p, b) ==
  /\ sz = -1 /\ a.pos = Len(in)
  /\ HasMatch(p, a, MinLen, EndDistance)
  /\ b = [a EXCEPT !.state = AfterMatch(@)]

Leads(in, sz, a, p, b) == Moves(in, a, p, b) \/ Marks(in, sz, a, p, b)

\* The packets of ch lead through the states st; a mark comes last.
Linked(in, sz, ch, st) ==
  /\ DOMAIN st = 0..Len(ch)
  /\ \A i \in 0..Len(ch) : Fits(in, st[i]) /\ st[i].pos <= st[Len(ch)].pos
  /\ \A i \in 1..Len(ch) : \/ Moves(in, st[i - 1], ch[i], st[i])
                           \/ i = Len(ch) /\ Marks(in, sz, st[i - 1], ch[i], st[i])

\* They lead from a to b.
Chain(in, sz, ch, a, b) == \E st : Linked(in, sz, ch, st) /\ st[0] = a /\ st[Len(ch)] = b

LEMMA StateRanges ==
  ASSUME NEW s \in 0..11
  PROVE  /\ AfterLiteral(s) \in 0..6
         /\ AfterMatch(s) \in 7..11 /\ AfterRep(s) \in 7..11 /\ AfterShortRep(s) \in 7..11
BY DEF AfterLiteral, AfterMatch, AfterRep, AfterShortRep, IsCharState

LEMMA AfterFits ==
  ASSUME NEW in \in Seq(Byte), NEW a, a \in States, NEW n \in Nat, n > 0,
         a.pos + n <= Len(in), NEW state \in 0..11, NEW reps \in [Reps -> Nat],
         \A i \in Reps : reps[i] = 0 \/ (reps[i] < a.pos + n /\ reps[i] < DictSize),
         state >= 7 => reps[0] < a.pos + n
  PROVE  /\ Fits(in, After(in, a, n, state, reps))
         /\ a.pos < After(in, a, n, state, reps).pos
<1> DEFINE b == After(in, a, n, state, reps)
<1>1. a.pos \in Nat /\ Len(in) \in Nat /\ \A i \in 1..Len(in) : in[i] \in Byte
  BY DEF States
<1>2. a.pos + n \in 1..Len(in) /\ in[a.pos + n] \in Byte
  BY <1>1
<1>3. b.state = state /\ b.reps = reps /\ b.pos = a.pos + n /\ b \in States
  BY <1>1, <1>2 DEF After, States
<1> HIDE DEF b
<1>4. RepsFit(b)
  BY <1>3 DEF RepsFit
<1>5. b.pos <= Len(in) /\ a.pos < b.pos
  BY <1>1, <1>3
<1>6. b.state >= 7 /\ b.pos < Len(in) => b.reps[0] < b.pos
  BY <1>3
<1>7. Fits(in, b)
  BY <1>3, <1>4, <1>5, <1>6 DEF Fits
<1> QED
  BY <1>5, <1>7 DEF b

\* A packet leads to a state that fits, farther on.
LEMMA MovesFit ==
  ASSUME NEW in \in Seq(Byte), NEW a, Fits(in, a), NEW p, NEW b, Moves(in, a, p, b)
  PROVE  Fits(in, b) /\ a.pos < b.pos
<1> USE ParseAssumption
<1>1. /\ a \in States /\ a.state \in 0..11 /\ a.reps \in [Reps -> Nat] /\ a.pos \in Nat
      /\ Len(in) \in Nat /\ 0 \in Reps /\ 1 \in Nat /\ 1 > 0
      /\ \A i \in Reps : a.reps[i] \in Nat
      /\ \A i \in Reps : a.reps[i] = 0 \/ (a.reps[i] < a.pos /\ a.reps[i] < DictSize)
  BY DEF Fits, States, Reps, RepsFit
<1>2. CASE LiteralMove(in, a, p, b)
  <2>1. AfterLiteral(a.state) \in 0..6
    BY <1>1, StateRanges
  <2>2. /\ AfterLiteral(a.state) \in 0..11 /\ ~(AfterLiteral(a.state) >= 7)
        /\ a.pos + 1 <= Len(in)
    BY <1>1, <1>2, <2>1 DEF LiteralMove
  <2>3. \A i \in Reps : \/ a.reps[i] = 0
                        \/ a.reps[i] < a.pos + 1 /\ a.reps[i] < DictSize
    BY <1>1
  <2>4. b = After(in, a, 1, AfterLiteral(a.state), a.reps)
    BY <1>2 DEF LiteralMove
  <2> QED
    BY <1>1, AfterFits, <2>2, <2>3, <2>4
<1>3. CASE ShortRepMove(in, a, p, b)
  <2>1. AfterShortRep(a.state) \in 7..11
    BY <1>1, StateRanges
  <2>2. AfterShortRep(a.state) \in 0..11 /\ a.pos + 1 <= Len(in)
    BY <1>1, <1>3, <2>1 DEF ShortRepMove, RepeatsAt
  <2>3. /\ \A i \in Reps : \/ a.reps[i] = 0
                           \/ a.reps[i] < a.pos + 1 /\ a.reps[i] < DictSize
        /\ a.reps[0] < a.pos + 1
    BY <1>1, <1>3 DEF ShortRepMove, RepeatsAt
  <2>4. b = After(in, a, 1, AfterShortRep(a.state), a.reps)
    BY <1>3 DEF ShortRepMove
  <2> QED
    BY <1>1, AfterFits, <2>2, <2>3, <2>4
<1>4. ASSUME NEW k \in Reps, NEW n \in Lengths, RepMove(in, a, p, b, k, n)
      PROVE  Fits(in, b) /\ a.pos < b.pos
  <2> DEFINE r == ToFront(a.reps, k)
  <2>1. AfterRep(a.state) \in 7..11
    BY <1>1, StateRanges
  <2>2. AfterRep(a.state) \in 0..11
    BY <2>1
  <2>3. n \in Nat /\ n > 0 /\ a.pos + n <= Len(in) /\ a.reps[k] < a.pos
    BY <1>4 DEF RepMove, RepeatsAt, Lengths, MinLen
  <2>4. r \in [Reps -> Nat] /\ \A i \in Reps : \E j \in Reps : r[i] = a.reps[j]
    BY SMTT(30), <1>1 DEF ToFront, Reps
  <2>5. r[0] = a.reps[k]
    BY <1>1 DEF ToFront
  <2> HIDE DEF r
  <2>6. ASSUME NEW i \in Reps
        PROVE  r[i] = 0 \/ (r[i] < a.pos + n /\ r[i] < DictSize)
    <3>1. PICK j \in Reps : r[i] = a.reps[j]
      BY <2>4
    <3> QED
      BY <1>1, <2>3, <3>1
  <2>7. r[0] < a.pos + n
    BY <1>1, <2>3, <2>5
  <2>8. b = After(in, a, n, AfterRep(a.state), r)
    BY <1>4 DEF RepMove, r
  <2> QED
    BY <1>1, AfterFits, <2>2, <2>3, <2>4, <2>6, <2>7, <2>8
<1>5. ASSUME NEW d \in Distances, NEW n \in Lengths, MatchMove(in, a, p, b, d, n)
      PROVE  Fits(in, b) /\ a.pos < b.pos
  <2> DEFINE r == Pushed(a.reps, d)
  <2>1. AfterMatch(a.state) \in 0..11
    BY SMTT(30), <1>1, StateRanges
  <2>2. /\ n \in Nat /\ n > 0 /\ a.pos + n <= Len(in)
        /\ d \in Nat /\ d < a.pos /\ d < DictSize
    BY <1>5 DEF MatchMove, RepeatsAt, Lengths, MinLen, Distances
  <2>3. /\ r \in [Reps -> Nat] /\ r[0] = d
        /\ \A i \in Reps : r[i] = d \/ \E j \in Reps : r[i] = a.reps[j]
    BY <1>1, <2>2 DEF Pushed, Reps
  <2> HIDE DEF r
  <2>4. ASSUME NEW i \in Reps
        PROVE  r[i] = 0 \/ (r[i] < a.pos + n /\ r[i] < DictSize)
    <3>1. CASE r[i] = d
      BY <1>1, <2>2, <3>1
    <3>2. ASSUME NEW j \in Reps, r[i] = a.reps[j]
          PROVE  r[i] = 0 \/ (r[i] < a.pos + n /\ r[i] < DictSize)
      BY <1>1, <2>2, <3>2
    <3> QED
      BY <2>3, <3>1, <3>2
  <2>5. r[0] < a.pos + n
    BY <1>1, <2>2, <2>3
  <2>6. b = After(in, a, n, AfterMatch(a.state), r)
    BY <1>5 DEF MatchMove, r
  <2> QED
    BY <1>1, AfterFits, <2>1, <2>2, <2>3, <2>4, <2>5, <2>6
<1> QED
  BY <1>2, <1>3, <1>4, <1>5 DEF Moves

LEMMA MarksFit ==
  ASSUME NEW in \in Seq(Byte), NEW sz, NEW a, Fits(in, a), NEW p, NEW b,
         Marks(in, sz, a, p, b)
  PROVE  Fits(in, b) /\ b.pos = a.pos
<1>1. a \in States /\ a.state \in 0..11 /\ a.pos = Len(in) /\ Len(in) \in Nat
  BY DEF Marks, Fits, States
<1>2. AfterMatch(a.state) \in 0..11
  BY <1>1, StateRanges
<1>3. b \in States /\ b.reps = a.reps /\ b.pos = a.pos
  BY <1>1, <1>2 DEF Marks, States
<1> QED
  BY <1>1, <1>3 DEF Fits, RepsFit
-----------------------------------------------------------------------------
(***************************************************************************)
(* Chains of packets.                                                      *)
(***************************************************************************)
\* A chain of no packets.
LEMMA LinkNone ==
  ASSUME NEW in, NEW sz, NEW a, Fits(in, a)
  PROVE  Chain(in, sz, << >>, a, a)
<1> DEFINE st == [i \in 0..0 |-> a]
<1>1. DOMAIN st = 0..0 /\ Len(<< >>) = 0 /\ st[0] = a /\ a.pos \in Nat
  BY DEF Fits, States
<1> HIDE DEF st
<1>2. Linked(in, sz, << >>, st)
  BY <1>1 DEF Linked
<1> QED
  BY <1>1, <1>2 DEF Chain

\* The states at the two ends of a chain.
LEMMA LinkEnds ==
  ASSUME NEW in, NEW sz, NEW S, NEW ch \in Seq(S), NEW a, NEW b, Chain(in, sz, ch, a, b)
  PROVE  /\ Fits(in, a) /\ Fits(in, b) /\ a.pos <= b.pos
         /\ ch = << >> => a = b
<1>1. PICK st : Linked(in, sz, ch, st) /\ st[0] = a /\ st[Len(ch)] = b
  BY DEF Chain
<1>2. Len(ch) \in Nat /\ (ch = << >> => Len(ch) = 0)
  OBVIOUS
<1>3. 0 \in 0..Len(ch) /\ Len(ch) \in 0..Len(ch)
  BY <1>2
<1>4. \A i \in 0..Len(ch) : Fits(in, st[i]) /\ st[i].pos <= st[Len(ch)].pos
  BY <1>1 DEF Linked
<1> QED
  BY <1>1, <1>2, <1>3, <1>4

\* Without a mark a chain is one for every size.
LEMMA LinkSized ==
  ASSUME NEW in, NEW sz, sz # -1, NEW ch, NEW a, NEW b, Chain(in, sz, ch, a, b), NEW to
  PROVE  Chain(in, to, ch, a, b)
BY DEF Chain, Linked, Marks

\* The encoder adds a link to a chain without a mark.
LEMMA LinkAppend ==
  ASSUME NEW in \in Seq(Byte), NEW past, past # -1, NEW S, NEW ch \in Seq(S), NEW first,
         NEW a, Chain(in, past, ch, first, a),
         NEW sz, NEW p, NEW b, Leads(in, sz, a, p, b)
  PROVE  Chain(in, sz, Append(ch, p), first, b)
<1>1. PICK st : Linked(in, past, ch, st) /\ st[0] = first /\ st[Len(ch)] = a
  BY DEF Chain
<1> DEFINE n == Len(ch)
           c == Append(ch, p)
           t == [i \in 0..(n + 1) |-> IF i <= n THEN st[i] ELSE b]
<1>2. n \in Nat /\ Len(c) = n + 1 /\ c[n + 1] = p /\ \A i \in 1..n : c[i] = ch[i]
  OBVIOUS
<1>3. /\ t[0] = st[0] /\ t[n + 1] = b /\ \A i \in 0..n : t[i] = st[i]
      /\ DOMAIN t = 0..(n + 1)
  BY <1>2
<1>4. \A i \in 0..n : Fits(in, st[i]) /\ st[i].pos <= st[n].pos
  BY <1>1 DEF Linked
<1>5. Fits(in, b) /\ st[n].pos <= b.pos /\ b.pos \in Nat
  <2>1. Fits(in, st[n]) /\ st[n].pos \in Nat
    BY <1>2, <1>4 DEF Fits, States
  <2>2. CASE Moves(in, st[n], p, b)
    <3>1. Fits(in, b) /\ st[n].pos < b.pos
      BY <2>1, <2>2, MovesFit
    <3> QED
      BY <2>1, <3>1 DEF Fits, States
  <2>3. CASE Marks(in, sz, st[n], p, b)
    BY <2>1, <2>3, MarksFit
  <2> QED
    BY <1>1, <2>2, <2>3 DEF Leads
<1>6. \A i \in 1..n : Moves(in, st[i - 1], ch[i], st[i])
  BY <1>1 DEF Linked, Marks
<1>7. Leads(in, sz, st[n], p, b)
  BY <1>1
<1> HIDE DEF n, c, t
<1>8. ASSUME NEW i \in 0..(n + 1)
      PROVE  Fits(in, t[i]) /\ t[i].pos <= t[n + 1].pos
  <2>1. CASE i \in 0..n
    <3>1. t[i] = st[i] /\ Fits(in, st[i]) /\ st[i].pos <= st[n].pos
      BY <1>3, <1>4, <2>1
    <3>2. st[i].pos \in Nat /\ st[n].pos \in Nat
      BY <1>2, <1>4, <2>1 DEF Fits, States
    <3> QED
      BY <1>3, <1>5, <3>1, <3>2
  <2>2. CASE i = n + 1
    BY <1>3, <1>5, <2>2
  <2> QED
    BY <1>2, <2>1, <2>2
<1>9. ASSUME NEW i \in 1..(n + 1)
      PROVE  \/ Moves(in, t[i - 1], c[i], t[i])
             \/ i = n + 1 /\ Marks(in, sz, t[i - 1], c[i], t[i])
  <2>1. CASE i \in 1..n
    <3>1. i - 1 \in 0..n /\ i \in 0..n
      BY <1>2, <2>1
    <3>2. t[i - 1] = st[i - 1] /\ t[i] = st[i] /\ c[i] = ch[i]
      BY <1>2, <1>3, <2>1, <3>1
    <3> QED
      BY <1>6, <2>1, <3>2
  <2>2. CASE i = n + 1
    <3>1. i - 1 = n /\ n \in 0..n
      BY <1>2, <2>2
    <3>2. t[i - 1] = st[n] /\ t[i] = b /\ c[i] = p
      BY <1>2, <1>3, <2>2, <3>1
    <3> QED
      BY <1>7, <2>2, <3>2 DEF Leads
  <2> QED
    BY <1>2, <2>1, <2>2
<1>10. Linked(in, sz, c, t)
  BY <1>2, <1>3, <1>8, <1>9 DEF Linked
<1> QED
  BY <1>1, <1>2, <1>3, <1>10 DEF Chain, c

\* The decoder takes one off.
LEMMA LinkTail ==
  ASSUME NEW in, NEW sz, NEW S, NEW ch \in Seq(S), ch # << >>,
         NEW a, NEW last, Chain(in, sz, ch, a, last)
  PROVE  \E b : /\ Chain(in, sz, Tail(ch), b, last)
                /\ \/ Moves(in, a, Head(ch), b)
                   \/ Tail(ch) = << >> /\ Marks(in, sz, a, Head(ch), b)
<1>1. PICK st : Linked(in, sz, ch, st) /\ st[0] = a /\ st[Len(ch)] = last
  BY DEF Chain
<1> DEFINE n == Len(ch)
           c == Tail(ch)
           t == [i \in 0..(n - 1) |-> st[i + 1]]
<1>2. /\ n \in Nat /\ n > 0 /\ Len(c) = n - 1 /\ ch[1] = Head(ch) /\ (n = 1 => c = << >>)
      /\ \A i \in 1..(n - 1) : c[i] = ch[i + 1]
  <2>1. n \in Nat /\ n > 0
    BY EmptySeq
  <2>2. c \in Seq(S) /\ Len(c) = n - 1 /\ \A i \in 1..Len(c) : c[i] = ch[i + 1]
    BY HeadTailProperties
  <2>3. ch[1] = Head(ch)
    OBVIOUS
  <2> HIDE DEF n, c
  <2>4. n = 1 => c = << >>
    BY <2>2, EmptySeq
  <2> QED
    BY <2>1, <2>2, <2>3, <2>4
<1>3. /\ t[0] = st[1] /\ t[n - 1] = st[n] /\ DOMAIN t = 0..(n - 1)
      /\ \A i \in 0..(n - 1) : t[i] = st[i + 1]
  BY <1>2
<1>4. \A i \in 0..n : Fits(in, st[i]) /\ st[i].pos <= st[n].pos
  BY <1>1 DEF Linked
<1>5. \A i \in 1..n : \/ Moves(in, st[i - 1], ch[i], st[i])
                      \/ i = n /\ Marks(in, sz, st[i - 1], ch[i], st[i])
  BY <1>1 DEF Linked
<1>6. st[0] = a /\ st[n] = last
  BY <1>1
<1> HIDE DEF n, c, t
<1>7. \A i \in 0..(n - 1) : Fits(in, t[i]) /\ t[i].pos <= t[n - 1].pos
  <2> SUFFICES ASSUME NEW i \in 0..(n - 1)
               PROVE  Fits(in, t[i]) /\ t[i].pos <= t[n - 1].pos
    OBVIOUS
  <2>1. i + 1 \in 0..n
    BY <1>2
  <2> QED
    BY <1>3, <1>4, <2>1
<1>8. ASSUME NEW i \in 1..(n - 1)
      PROVE  \/ Moves(in, t[i - 1], c[i], t[i])
             \/ i = n - 1 /\ Marks(in, sz, t[i - 1], c[i], t[i])
  <2>1. i + 1 \in 1..n /\ (i + 1) - 1 = i /\ i - 1 \in 0..(n - 1) /\ i \in 0..(n - 1)
    BY <1>2
  <2>2. t[i - 1] = st[i] /\ t[i] = st[i + 1] /\ c[i] = ch[i + 1]
    <3>1. (i - 1) + 1 = i
      OBVIOUS
    <3> QED
      BY <1>2, <1>3, <2>1, <3>1
  <2>3. \/ Moves(in, st[i], ch[i + 1], st[i + 1])
        \/ i + 1 = n /\ Marks(in, sz, st[i], ch[i + 1], st[i + 1])
    BY <1>5, <2>1
  <2> QED
    BY <1>2, <2>2, <2>3
<1>9. Linked(in, sz, c, t)
  BY <1>2, <1>3, <1>7, <1>8 DEF Linked
<1>10. Chain(in, sz, c, st[1], last)
  BY <1>2, <1>3, <1>9, <1>6 DEF Chain
<1>11. \/ Moves(in, a, Head(ch), st[1])
       \/ c = << >> /\ Marks(in, sz, a, Head(ch), st[1])
  <2>1. 1 \in 1..n /\ 1 - 1 = 0
    BY <1>2
  <2> QED
    BY <1>2, <1>5, <1>6, <2>1
<1> QED
  BY <1>10, <1>11 DEF c
-----------------------------------------------------------------------------
(***************************************************************************)
(* The encoder: every packet it sends is a move from its state to its next *)
(* one.                                                                    *)
(***************************************************************************)
\* The symbols of a packet that is put together from three parts.
LEMMA Joined ==
  ASSUME NEW S, NEW first \in S, NEW second \in S, NEW mid \in Seq(S), NEW last \in S,
         NEW p, p = <<first, second>> \o mid \o <<last>>
  PROVE  /\ Len(p) = Len(mid) + 3
         /\ p[1] = first /\ p[2] = second /\ p[Len(mid) + 3] = last
         /\ \A i \in 1..Len(mid) : p[i + 2] = mid[i]
OBVIOUS

LEMMA LiteralMoves ==
  ASSUME CodeLiteral, Fits(input, enc)
  PROVE  \E p : channel' = Append(channel, p) /\ Moves(input, enc, p, enc')
<1> DEFINE p == <<Coded(IsMatch(enc.state, enc.pos), 0),
                  Coded(IF IsCharState(enc.state)
                        THEN Plain(enc.pos, enc.prev)
                        ELSE Matched(enc.pos, enc.prev, input[enc.pos - enc.reps[0]]),
                        input[enc.pos + 1])>>
<1>1. channel' = Append(channel, p)
  BY DEF CodeLiteral, Send
<1>2. /\ enc.pos < Len(input)
      /\ enc' = After(input, enc, 1, AfterLiteral(enc.state), enc.reps)
  BY DEF CodeLiteral, Literal, Advance, After
<1>3. Has(p, 1, IsMatch(enc.state, enc.pos), 0)
  BY DEF Has, Coded
<1>4. Has(p, 2, LiteralAt(input, enc), input[enc.pos + 1])
  BY DEF Has, Coded, LiteralAt
<1>5. LiteralMove(input, enc, p, enc')
  BY <1>2, <1>3, <1>4 DEF LiteralMove
<1> QED
  BY <1>1, <1>5 DEF Moves

LEMMA ShortRepMoves ==
  ASSUME CodeShortRep
  PROVE  \E p : channel' = Append(channel, p) /\ Moves(input, enc, p, enc')
<1> DEFINE s == enc.state
           p == <<Coded(IsMatch(s, enc.pos), 1), Coded(IsRep(s), 1),
                  Coded(IsRepG(0, s), 0), Coded(Rep0Long(s, enc.pos), 0)>>
<1>1. channel' = Append(channel, p)
  BY DEF CodeShortRep, Send
<1>2. /\ RepeatsAt(input, enc, enc.reps[0], 1)
      /\ enc' = After(input, enc, 1, AfterShortRep(enc.state), enc.reps)
  BY DEF CodeShortRep, ShortRep, Repeats, RepeatsAt, Repeating, Advance, After
<1>3. HasRep(p, enc)
  BY DEF HasRep, Has, Coded
<1>4. Has(p, 3, IsRepG(0, s), 0) /\ Has(p, 4, Rep0Long(s, enc.pos), 0)
  BY DEF Has, Coded
<1>5. ShortRepMove(input, enc, p, enc')
  BY <1>2, <1>3, <1>4 DEF ShortRepMove
<1> QED
  BY <1>1, <1>5 DEF Moves

RepPacket(k, s, pos, n) ==
  <<Coded(IsMatch(s, pos), 1), Coded(IsRep(s), 1)>>
  \o RepChoice(k, s, pos) \o <<Coded(RepLenAt(pos), n)>>

LEMMA RepHas ==
  ASSUME NEW k \in Reps, NEW n, NEW a
  PROVE  LET p == RepPacket(k, a.state, a.pos, n)
         IN  /\ HasRep(p, a) /\ HasChoice(p, a, k)
             /\ Has(p, IF k < 2 THEN 5 ELSE 6, RepLenAt(a.pos), n)
<1> DEFINE p == RepPacket(k, a.state, a.pos, n)
           u == Coded(IsMatch(a.state, a.pos), 1)
           v == Coded(IsRep(a.state), 1)
           w == Coded(IsRepG(0, a.state), IF k = 0 THEN 0 ELSE 1)
           x == IF k = 0 THEN Coded(Rep0Long(a.state, a.pos), 1)
                ELSE Coded(IsRepG(1, a.state), IF k = 1 THEN 0 ELSE 1)
           y == Coded(IsRepG(2, a.state), k - 2)
           z == Coded(RepLenAt(a.pos), n)
           c == IF k < 2 THEN <<w, x>> ELSE <<w, x, y>>
<1>1. /\ u.at = IsMatch(a.state, a.pos) /\ u.sym = 1
      /\ v.at = IsRep(a.state) /\ v.sym = 1
      /\ z.at = RepLenAt(a.pos) /\ z.sym = n
  BY DEF Coded
<1>2. /\ w.at = IsRepG(0, a.state) /\ w.sym = IF k = 0 THEN 0 ELSE 1
      /\ k = 0 => x.at = Rep0Long(a.state, a.pos) /\ x.sym = 1
      /\ k # 0 => x.at = IsRepG(1, a.state) /\ x.sym = IF k = 1 THEN 0 ELSE 1
      /\ y.at = IsRepG(2, a.state) /\ y.sym = k - 2
  BY DEF Coded
<1>3. p = <<u, v>> \o c \o <<z>>
  <2>1. c = RepChoice(k, a.state, a.pos)
    BY DEF RepChoice, Reps
  <2> QED
    BY <2>1 DEF RepPacket
<1> HIDE DEF p, u, v, w, x, y, z
<1>4. \E S : c \in Seq(S) /\ u \in S /\ v \in S /\ z \in S
  <2> DEFINE S == {u, v, w, x, y, z}
  <2>1. <<w, x>> \in Seq(S)
    OBVIOUS
  <2>2. <<w, x, y>> \in Seq(S)
    OBVIOUS
  <2>3. c \in Seq(S) /\ u \in S /\ v \in S /\ z \in S
    BY <2>1, <2>2
  <2> HIDE DEF S, c
  <2> QED
    BY <2>3
<1>5. /\ Len(c) = IF k < 2 THEN 2 ELSE 3
      /\ c[1] = w /\ c[2] = x /\ (k >= 2 => c[3] = y)
  BY DEF Reps
<1> HIDE DEF c
<1>6. /\ Len(p) = Len(c) + 3
      /\ p[1] = u /\ p[2] = v /\ p[Len(c) + 3] = z
      /\ \A i \in 1..Len(c) : p[i + 2] = c[i]
  BY <1>3, <1>4, Joined
<1>7. /\ p[3] = w /\ p[4] = x /\ (k >= 2 => p[5] = y)
      /\ Len(p) = IF k < 2 THEN 5 ELSE 6
      /\ p[IF k < 2 THEN 5 ELSE 6] = z
  BY <1>5, <1>6 DEF Reps
<1>8. HasRep(p, a)
  BY <1>1, <1>6, <1>7 DEF HasRep, Has
<1>9. Has(p, IF k < 2 THEN 5 ELSE 6, RepLenAt(a.pos), n)
  BY <1>1, <1>7 DEF Has
<1>10. HasChoice(p, a, k)
  <2>1. CASE k = 0
    BY <1>2, <1>7, <2>1 DEF HasChoice, Has
  <2>2. CASE k = 1
    BY <1>2, <1>7, <2>2 DEF HasChoice, Has
  <2>3. CASE k \in {2, 3}
    BY <1>2, <1>7, <2>3 DEF HasChoice, Has
  <2> QED
    BY <2>1, <2>2, <2>3 DEF Reps
<1> QED
  BY <1>8, <1>9, <1>10 DEF p

LEMMA RepMoves ==
  ASSUME NEW k \in Reps, NEW n \in Lengths, CodeRep(k, n)
  PROVE  \E p : channel' = Append(channel, p) /\ Moves(input, enc, p, enc')
<1> DEFINE p == RepPacket(k, enc.state, enc.pos, n)
<1>1. channel' = Append(channel, p)
  BY DEF CodeRep, Send, RepPacket
<1>2. /\ RepeatsAt(input, enc, enc.reps[k], n)
      /\ enc' = After(input, enc, n, AfterRep(enc.state), ToFront(enc.reps, k))
  BY DEF CodeRep, Rep, Repeats, RepeatsAt, Repeating, Advance, After
<1>3. /\ HasRep(p, enc) /\ HasChoice(p, enc, k)
      /\ Has(p, IF k < 2 THEN 5 ELSE 6, RepLenAt(enc.pos), n)
  BY RepHas
<1> HIDE DEF p
<1>4. RepMove(input, enc, p, enc', k, n)
  BY <1>2, <1>3 DEF RepMove
<1> QED
  BY <1>1, <1>4 DEF Moves

LEMMA MatchHas ==
  ASSUME NEW a, NEW n, NEW d
  PROVE  HasMatch(MatchPacket(a.state, a.pos, n, d), a, n, d)
BY DEF HasMatch, MatchPacket, Has, Coded

LEMMA MatchMoves ==
  ASSUME NEW d \in Distances, NEW n \in Lengths, CodeMatch(d, n)
  PROVE  \E p : channel' = Append(channel, p) /\ Moves(input, enc, p, enc')
<1> DEFINE p == MatchPacket(enc.state, enc.pos, n, d)
<1>1. channel' = Append(channel, p)
  BY DEF CodeMatch, Send
<1>2. /\ RepeatsAt(input, enc, d, n) /\ d < DictSize
      /\ enc' = After(input, enc, n, AfterMatch(enc.state), Pushed(enc.reps, d))
  BY DEF CodeMatch, Match, Repeats, RepeatsAt, Repeating, Advance, After
<1>3. HasMatch(p, enc, n, d)
  BY MatchHas
<1> HIDE DEF p
<1>4. MatchMove(input, enc, p, enc', d, n)
  BY <1>2, <1>3 DEF MatchMove
<1> QED
  BY <1>1, <1>4 DEF Moves

\* What the packets of the encoder have in common.
LEMMA EncoderMoves ==
  ASSUME Fits(input, enc),
         \/ CodeLiteral \/ CodeShortRep
         \/ \E k \in Reps, n \in Lengths : CodeRep(k, n)
         \/ \E d \in Distances, n \in Lengths : CodeMatch(d, n)
  PROVE  /\ \E p : channel' = Append(channel, p) /\ Moves(input, enc, p, enc')
         /\ ~lost /\ ~ended /\ enc.pos < Len(input)
         /\ UNCHANGED <<input, size, ended, lost, decVars>>
<1>1. CASE CodeLiteral
  BY <1>1, LiteralMoves DEF CodeLiteral, Literal, Coding, Advance, Send
<1>2. CASE CodeShortRep
  <2>1. enc.pos < Len(input)
    BY SMTT(30), <1>2 DEF CodeShortRep, ShortRep, Repeats, Fits, States
  <2> QED
    BY <1>2, <2>1, ShortRepMoves DEF CodeShortRep, ShortRep, Coding, Advance, Send
<1>3. ASSUME NEW k \in Reps, NEW n \in Lengths, CodeRep(k, n)
      PROVE  /\ \E p : channel' = Append(channel, p) /\ Moves(input, enc, p, enc')
             /\ ~lost /\ ~ended /\ enc.pos < Len(input)
             /\ UNCHANGED <<input, size, ended, lost, decVars>>
  <2>1. enc.pos < Len(input)
    BY <1>3, ParseAssumption DEF CodeRep, Rep, Repeats, Fits, States, Lengths, MinLen
  <2> QED
    BY <1>3, <2>1, RepMoves DEF CodeRep, Rep, Coding, Advance, Send
<1>4. ASSUME NEW d \in Distances, NEW n \in Lengths, CodeMatch(d, n)
      PROVE  /\ \E p : channel' = Append(channel, p) /\ Moves(input, enc, p, enc')
             /\ ~lost /\ ~ended /\ enc.pos < Len(input)
             /\ UNCHANGED <<input, size, ended, lost, decVars>>
  <2>1. enc.pos < Len(input)
    BY <1>4, ParseAssumption DEF CodeMatch, Match, Repeats, Fits, States, Lengths, MinLen
  <2> QED
    BY <1>4, <2>1, MatchMoves DEF CodeMatch, Match, Coding, Advance, Send
<1> QED
  BY <1>1, <1>2, <1>3, <1>4
-----------------------------------------------------------------------------
(***************************************************************************)
(* The decoder: of a packet that moves from its state to the next, it      *)
(* makes that move and decodes the bytes of the input in between.          *)
(***************************************************************************)
Agrees(out, in, pos) ==
  out \in Seq(Byte) /\ Len(out) = pos /\ \A j \in 1..pos : out[j] = in[j]

LEMMA AgreesIsPrefix ==
  ASSUME NEW in \in Seq(Byte), NEW s, NEW pos \in 0..Len(in), Agrees(s, in, pos)
  PROVE  IsPrefix(s, in)
<1>1. s \in Seq(Byte) /\ Len(s) = pos /\ \A j \in 1..pos : s[j] = in[j]
  BY DEF Agrees
<1>2. /\ SubSeq(s, 1, pos) \in Seq(Byte) /\ Len(SubSeq(s, 1, pos)) = pos
      /\ SubSeq(in, 1, pos) \in Seq(Byte) /\ Len(SubSeq(in, 1, pos)) = pos
      /\ \A j \in 1..pos : SubSeq(s, 1, pos)[j] = s[j] /\ SubSeq(in, 1, pos)[j] = in[j]
  BY <1>1
<1>3. SubSeq(s, 1, pos) = SubSeq(in, 1, pos)
  BY <1>1, <1>2, SeqEqual
<1> QED
  BY <1>1, <1>3 DEF IsPrefix

\* What has been encoded in the decoder's context is decoded.
LEMMA ReadIs ==
  ASSUME ~lost, NEW i, NEW at, NEW alphabet, NEW sym, Has(Head(channel), i, at, sym),
         NEW s \in Read(i, at, alphabet)
  PROVE  s = sym
BY DEF Has, Read

LEMMA CopiedBytes ==
  ASSUME decoded \in Seq(Byte), NEW d \in Nat, d < Len(decoded), NEW n \in Nat
  PROVE  /\ Copied(d, n) \in Seq(Byte) /\ Len(Copied(d, n)) = Len(decoded) + n
         /\ \A j \in 1..Len(decoded) : Copied(d, n)[j] = decoded[j]
         /\ \A i \in 1..n : Copied(d, n)[Len(decoded) + i]
                            = decoded[Len(decoded) - d + ((i - 1) % (d + 1))]
<1> DEFINE l == Len(decoded)
           t == [i \in 1..n |-> decoded[l - d + ((i - 1) % (d + 1))]]
<1>1. l \in Nat /\ \A j \in 1..l : decoded[j] \in Byte
  OBVIOUS
<1>2. ASSUME NEW i \in 1..n
      PROVE  l - d + ((i - 1) % (d + 1)) \in 1..l
  <2>1. i - 1 \in Nat /\ d + 1 \in Nat \ {0}
    OBVIOUS
  <2>2. (i - 1) % (d + 1) \in 0..d
    <3>1. (i - 1) % (d + 1) \in 0..((d + 1) - 1)
      BY <2>1, ModDown
    <3> QED
      BY <3>1
  <2> QED
    BY <1>1, <2>2
<1>3. /\ t \in Seq(Byte) /\ Len(t) = n
      /\ \A i \in 1..n : t[i] = decoded[l - d + ((i - 1) % (d + 1))]
  <2>1. t \in [1..n -> Byte]
    BY <1>1, <1>2
  <2> QED
    BY <2>1
<1>4. Copied(d, n) = decoded \o t
  BY DEF Copied
<1> HIDE DEF t
<1>5. /\ decoded \o t \in Seq(Byte) /\ Len(decoded \o t) = Len(decoded) + Len(t)
      /\ \A j \in 1..(Len(decoded) + Len(t)) :
           (decoded \o t)[j] = IF j <= Len(decoded) THEN decoded[j]
                                ELSE t[j - Len(decoded)]
  BY <1>3, ConcatProperties
<1>6. /\ Copied(d, n) \in Seq(Byte) /\ Len(Copied(d, n)) = l + n
      /\ \A j \in 1..(l + n) : Copied(d, n)[j] = IF j <= l THEN decoded[j] ELSE t[j - l]
  BY <1>3, <1>4, <1>5
<1> HIDE DEF l
<1>7. ASSUME NEW i \in 1..n
      PROVE  Copied(d, n)[l + i] = t[i]
  <2>1. l + i \in 1..(l + n) /\ ~(l + i <= l) /\ (l + i) - l = i
    BY <1>1
  <2> QED
    BY <1>6, <2>1
<1>8. \A j \in 1..l : Copied(d, n)[j] = decoded[j]
  BY <1>1, <1>6
<1> QED
  BY <1>3, <1>7, <1>6, <1>8 DEF l

LEMMA CopiedAgrees ==
  ASSUME NEW in, NEW p \in Nat, Agrees(decoded, in, p),
         NEW d \in Nat, d < p, NEW n \in Nat, Repeating(in, p, d, n)
  PROVE  Agrees(Copied(d, n), in, p + n)
<1>1. /\ decoded \in Seq(Byte) /\ Len(decoded) = p
      /\ \A j \in 1..p : decoded[j] = in[j]
  BY DEF Agrees
<1>2. /\ Copied(d, n) \in Seq(Byte) /\ Len(Copied(d, n)) = p + n
      /\ \A j \in 1..p : Copied(d, n)[j] = decoded[j]
      /\ \A i \in 1..n : Copied(d, n)[p + i] = decoded[p - d + ((i - 1) % (d + 1))]
  <2>1. decoded \in Seq(Byte) /\ d < Len(decoded) /\ Len(decoded) = p
    BY <1>1
  <2>2. /\ Copied(d, n) \in Seq(Byte) /\ Len(Copied(d, n)) = Len(decoded) + n
        /\ \A j \in 1..Len(decoded) : Copied(d, n)[j] = decoded[j]
        /\ \A i \in 1..n : Copied(d, n)[Len(decoded) + i]
                           = decoded[Len(decoded) - d + ((i - 1) % (d + 1))]
    BY <2>1, CopiedBytes
  <2> QED
    BY <2>1, <2>2
<1>3. \A i \in 1..n : in[p + i] = in[p - d + ((i - 1) % (d + 1))]
  BY Periodic
<1>4. ASSUME NEW i \in 1..n
      PROVE  Copied(d, n)[p + i] = in[p + i]
  <2>1. i - 1 \in Nat /\ d + 1 \in Nat \ {0}
    OBVIOUS
  <2>2. (i - 1) % (d + 1) \in 0..d
    <3>1. (i - 1) % (d + 1) \in 0..((d + 1) - 1)
      BY <2>1, ModDown
    <3> QED
      BY <3>1
  <2>3. p - d + ((i - 1) % (d + 1)) \in 1..p
    BY <1>1, <2>2
  <2> QED
    BY <1>1, <1>2, <1>3, <2>3
<1>5. ASSUME NEW j \in 1..(p + n)
      PROVE  Copied(d, n)[j] = in[j]
  <2>1. CASE j <= p
    BY <1>1, <1>2, <2>1
  <2>2. CASE j > p
    <3>1. j - p \in 1..n /\ p + (j - p) = j
      BY <1>1, <2>2
    <3> QED
      BY <1>4, <3>1
  <2> QED
    BY <1>1, <2>1, <2>2
<1> QED
  BY <1>2, <1>5 DEF Agrees

\* The end of the loop's body, when the packet repeats bytes of the input.
LEMMA CopyRepeats ==
  ASSUME input \in Seq(Byte), dec \in States, Agrees(decoded, input, dec.pos),
         NEW state, NEW reps, NEW n \in Nat, n > 0, reps[0] \in Nat,
         RepeatsAt(input, dec, reps[0], n), reps[0] < DictSize,
         CopyOrThrow(state, reps, n)
  PROVE  /\ dec' = After(input, dec, n, state, reps)
         /\ Agrees(decoded', input, dec'.pos) /\ UNCHANGED phase
<1>1. dec.pos \in Nat /\ reps[0] < dec.pos /\ DictSize \in Nat
  BY ParseAssumption DEF States, RepeatsAt
<1>2. /\ decoded' = Copied(reps[0], n) /\ UNCHANGED phase
      /\ dec' = [state |-> state, reps |-> reps,
                 prev |-> decoded'[Len(decoded')], pos |-> dec.pos + n]
  BY <1>1 DEF CopyOrThrow
<1>3. Agrees(decoded', input, dec.pos + n)
  <2>1. Repeating(input, dec.pos, reps[0], n)
    BY DEF RepeatsAt
  <2>2. Agrees(Copied(reps[0], n), input, dec.pos + n)
    BY <1>1, <2>1, CopiedAgrees
  <2> QED
    BY <1>2, <2>2
<1>4. decoded'[Len(decoded')] = input[dec.pos + n]
  <2>1. dec.pos + n \in 1..(dec.pos + n)
    BY <1>1
  <2> QED
    BY <1>3, <2>1 DEF Agrees
<1>5. dec' = After(input, dec, n, state, reps) /\ dec'.pos = dec.pos + n
  BY <1>2, <1>4 DEF After
<1> QED
  BY <1>2, <1>3, <1>5

\* The decoder is where the encoder was, and has decoded what lies before.
InStep == /\ ~lost /\ input \in Seq(Byte)
          /\ Fits(input, dec) /\ Agrees(decoded, input, dec.pos)

\* It has made the move to b.
StepsTo(b) == /\ dec' = b /\ Agrees(decoded', input, b.pos)
              /\ UNCHANGED phase

LEMMA Kinds ==
  ASSUME NEW in, NEW a, NEW p, NEW b, Moves(in, a, p, b)
  PROVE  \/ LiteralMove(in, a, p, b)
         \/ ShortRepMove(in, a, p, b)
         \/ \E k \in Reps, n \in Lengths : RepMove(in, a, p, b, k, n)
         \/ \E d \in Distances, n \in Lengths : MatchMove(in, a, p, b, d, n)
BY DEF Moves

LEMMA LiteralSteps ==
  ASSUME InStep, NEW b, Moves(input, dec, Head(channel), b), DecodeLiteral
  PROVE  StepsTo(b)
<1> DEFINE h == Head(channel)
<1>1. LiteralMove(input, dec, h, b)
  <2>1. ~ Has(h, 1, IsMatch(dec.state, dec.pos), 1)
    BY ReadIs DEF DecodeLiteral, InStep
  <2> QED
    BY <2>1, Kinds DEF ShortRepMove, RepMove, MatchMove, HasRep, HasMatch
<1>2. /\ dec \in States /\ dec.state \in 0..11 /\ dec.pos \in Nat /\ dec.reps[0] \in Nat
      /\ dec.pos < Len(input) /\ Len(input) \in Nat
      /\ dec.state >= 7 => dec.reps[0] < dec.pos
      /\ \A j \in 1..Len(input) : input[j] \in Byte
      /\ decoded \in Seq(Byte) /\ Len(decoded) = dec.pos
      /\ \A j \in 1..dec.pos : decoded[j] = input[j]
  BY SMTT(30), <1>1 DEF InStep, Fits, States, Reps, LiteralMove, Agrees
<1>3. LiteralContext = LiteralAt(input, dec)
  <2>1. CASE dec.state < 7
    BY <2>1 DEF LiteralContext, LiteralAt, IsCharState
  <2>2. CASE dec.state >= 7
    <3>1. dec.pos - dec.reps[0] \in 1..dec.pos
      BY <1>2, <2>2
    <3>2. decoded[dec.pos - dec.reps[0]] = input[dec.pos - dec.reps[0]]
      BY <1>2, <3>1
    <3> QED
      BY <3>2 DEF LiteralContext, LiteralAt
  <2> QED
    BY SMTT(30), <1>2, <2>1, <2>2
<1>4. /\ decoded' = Append(decoded, input[dec.pos + 1])
      /\ dec' = [dec EXCEPT !.state = AfterLiteral(@),
                            !.prev = input[dec.pos + 1], !.pos = @ + 1]
      /\ UNCHANGED phase
  <2>1. PICK y \in Read(2, LiteralContext, Byte) :
          /\ decoded' = Append(decoded, y)
          /\ dec' = [dec EXCEPT !.state = AfterLiteral(@), !.prev = y, !.pos = @ + 1]
    BY DEF DecodeLiteral
  <2>2. Has(h, 2, LiteralContext, input[dec.pos + 1])
    BY <1>1, <1>3 DEF LiteralMove
  <2>3. y = input[dec.pos + 1]
    BY <2>2, ReadIs DEF InStep
  <2> QED
    BY <2>1, <2>3 DEF DecodeLiteral
<1>5. dec' = b /\ b.pos = dec.pos + 1
  <2>1. dec' = [state |-> AfterLiteral(dec.state), reps |-> dec.reps,
                prev |-> input[dec.pos + 1], pos |-> dec.pos + 1]
    BY <1>2, <1>4 DEF States
  <2> QED
    BY <1>1, <2>1 DEF LiteralMove, After
<1>6. Agrees(decoded', input, dec.pos + 1)
  <2>1. input[dec.pos + 1] \in Byte
    BY <1>2
  <2>2. /\ decoded' \in Seq(Byte) /\ Len(decoded') = dec.pos + 1
        /\ \A j \in 1..dec.pos : decoded'[j] = decoded[j]
        /\ decoded'[dec.pos + 1] = input[dec.pos + 1]
    BY <1>2, <1>4, <2>1, AppendProperties
  <2>3. \A j \in 1..(dec.pos + 1) : decoded'[j] = input[j]
    BY <1>2, <2>2
  <2> QED
    BY <2>2, <2>3 DEF Agrees
<1> QED
  BY <1>4, <1>5, <1>6 DEF StepsTo

LEMMA ShortRepSteps ==
  ASSUME InStep, NEW b, Moves(input, dec, Head(channel), b), DecodeShortRep
  PROVE  StepsTo(b)
<1> DEFINE h == Head(channel)
<1>1. /\ \A sym : Has(h, 1, IsMatch(dec.state, dec.pos), sym) => sym = 1
      /\ \A sym : Has(h, 2, IsRep(dec.state), sym) => sym = 1
      /\ \A sym : Has(h, 3, IsRepG(0, dec.state), sym) => sym = 0
      /\ \A sym : Has(h, 4, Rep0Long(dec.state, dec.pos), sym) => sym = 0
  BY ReadIs DEF DecodeShortRep, ReadsRep, InStep
<1>2. ShortRepMove(input, dec, h, b)
  <2> HIDE DEF h
  <2>1. ~ LiteralMove(input, dec, h, b)
    BY <1>1 DEF LiteralMove
  <2>2. ASSUME NEW k \in Reps, NEW n \in Lengths, RepMove(input, dec, h, b, k, n)
        PROVE  FALSE
    BY <1>1, <2>2 DEF RepMove, HasChoice
  <2>3. ASSUME NEW d \in Distances, NEW n \in Lengths, MatchMove(input, dec, h, b, d, n)
        PROVE  FALSE
    BY <1>1, <2>3 DEF MatchMove, HasMatch
  <2> QED
    BY <2>1, <2>2, <2>3, Kinds DEF h
<1>3. /\ dec \in States /\ dec.reps[0] \in Nat /\ dec.reps[0] < DictSize
      /\ input \in Seq(Byte) /\ Agrees(decoded, input, dec.pos)
      /\ 1 \in Nat /\ 1 > 0
  BY ParseAssumption DEF InStep, Fits, States, Reps, RepsFit
<1>4. /\ dec' = After(input, dec, 1, AfterShortRep(dec.state), dec.reps)
      /\ Agrees(decoded', input, dec'.pos) /\ UNCHANGED phase
  BY <1>2, <1>3, CopyRepeats DEF DecodeShortRep, ShortRepMove
<1> QED
  BY <1>2, <1>4 DEF StepsTo, ShortRepMove

\* What both sides make of their repeat distances.
LEMMA SameReps ==
  ASSUME dec.reps \in [Reps -> Nat], NEW k \in Reps
  PROVE  RepsAfter(k) = ToFront(dec.reps, k)
BY DEF RepsAfter, ToFront, Reps

LEMMA RepSteps ==
  ASSUME InStep, NEW b, Moves(input, dec, Head(channel), b), NEW k \in Reps, DecodeRep(k)
  PROVE  StepsTo(b)
<1> DEFINE h == Head(channel)
<1>1. /\ \A sym : Has(h, 1, IsMatch(dec.state, dec.pos), sym) => sym = 1
      /\ \A sym : Has(h, 2, IsRep(dec.state), sym) => sym = 1
      /\ \A sym : Has(h, 3, IsRepG(0, dec.state), sym) => sym = IF k = 0 THEN 0 ELSE 1
      /\ k = 0 => \A sym : Has(h, 4, Rep0Long(dec.state, dec.pos), sym) => sym = 1
      /\ k # 0 => \A sym : Has(h, 4, IsRepG(1, dec.state), sym)
                           => sym = IF k = 1 THEN 0 ELSE 1
      /\ k \in {2, 3} => \A sym : Has(h, 5, IsRepG(2, dec.state), sym) => sym = k - 2
  BY ReadIs DEF DecodeRep, ReadsRep, ReadsChoice, InStep, Reps
<1>2. \E n \in Lengths : RepMove(input, dec, h, b, k, n)
  <2> HIDE DEF h
  <2>1. ~ LiteralMove(input, dec, h, b)
    BY <1>1 DEF LiteralMove
  <2>2. ~ ShortRepMove(input, dec, h, b)
    BY <1>1 DEF ShortRepMove, Reps
  <2>3. ASSUME NEW d \in Distances, NEW n \in Lengths, MatchMove(input, dec, h, b, d, n)
        PROVE  FALSE
    BY <1>1, <2>3 DEF MatchMove, HasMatch
  <2>4. ASSUME NEW m \in Reps, NEW n \in Lengths, RepMove(input, dec, h, b, m, n)
        PROVE  m = k
    BY <1>1, <2>4 DEF RepMove, HasChoice, Reps
  <2> QED
    BY <2>1, <2>2, <2>3, <2>4, Kinds DEF h
<1>3. PICK n \in Lengths : RepMove(input, dec, h, b, k, n)
  BY <1>2
<1>4. CopyOrThrow(AfterRep(dec.state), RepsAfter(k), n) /\ n \in Nat /\ n > 0
  <2>1. PICK m \in Read(IF k < 2 THEN 5 ELSE 6, RepLenAt(dec.pos), Lengths) :
          CopyOrThrow(AfterRep(dec.state), RepsAfter(k), m)
    BY DEF DecodeRep
  <2>2. Has(h, IF k < 2 THEN 5 ELSE 6, RepLenAt(dec.pos), n)
    BY <1>3 DEF RepMove
  <2>3. m = n
    BY <2>2, ReadIs DEF InStep
  <2> QED
    BY <2>1, <2>3, ParseAssumption DEF Lengths, MinLen
<1>5. /\ dec \in States /\ dec.reps \in [Reps -> Nat]
      /\ \A i \in Reps : dec.reps[i] < DictSize
      /\ input \in Seq(Byte) /\ Agrees(decoded, input, dec.pos)
  BY ParseAssumption DEF InStep, Fits, States, Reps, RepsFit
<1>6. /\ RepsAfter(k)[0] = dec.reps[k] /\ RepsAfter(k)[0] \in Nat
      /\ RepsAfter(k)[0] < DictSize
  <2>1. ToFront(dec.reps, k)[0] = dec.reps[k]
    BY DEF ToFront, Reps
  <2> QED
    BY <1>5, <2>1, SameReps
<1>7. /\ dec' = After(input, dec, n, AfterRep(dec.state), RepsAfter(k))
      /\ Agrees(decoded', input, dec'.pos) /\ UNCHANGED phase
  <2>1. RepeatsAt(input, dec, RepsAfter(k)[0], n)
    BY <1>3, <1>6 DEF RepMove
  <2> QED
    BY <1>4, <1>5, <1>6, <2>1, CopyRepeats
<1> QED
  BY <1>3, <1>5, <1>7, SameReps DEF StepsTo, RepMove

\* A match, be it the mark of the end.
LEMMA MatchReads ==
  ASSUME InStep, NEW n, NEW d, HasMatch(Head(channel), dec, n, d), DecodeMatch
  PROVE  \/ /\ d < 0
            /\ phase' = IF d = EndDistance THEN "done" ELSE "thrown"
            /\ UNCHANGED decoded
         \/ d >= 0 /\ CopyOrThrow(AfterMatch(dec.state), Pushed(dec.reps, d), n)
<1>1. PICK m \in Read(3, LenAt(dec.pos), Lengths) :
        \E e \in Read(4, DistanceAt(m), -2..MaxDist) :
          \/ /\ e < 0
             /\ phase' = IF e = EndDistance THEN "done" ELSE "thrown"
             /\ UNCHANGED decoded
          \/ e >= 0 /\ CopyOrThrow(AfterMatch(dec.state), Pushed(dec.reps, e), m)
  BY DEF DecodeMatch
<1>2. m = n
  BY ReadIs DEF HasMatch, InStep
<1>3. PICK e \in Read(4, DistanceAt(n), -2..MaxDist) :
        \/ /\ e < 0
           /\ phase' = IF e = EndDistance THEN "done" ELSE "thrown"
           /\ UNCHANGED decoded
        \/ e >= 0 /\ CopyOrThrow(AfterMatch(dec.state), Pushed(dec.reps, e), n)
  BY <1>1, <1>2
<1>4. e = d
  BY ReadIs DEF HasMatch, InStep
<1> QED
  BY <1>3, <1>4

LEMMA MatchSteps ==
  ASSUME InStep, NEW b, Moves(input, dec, Head(channel), b), DecodeMatch
  PROVE  StepsTo(b)
<1> DEFINE h == Head(channel)
<1>1. /\ \A sym : Has(h, 1, IsMatch(dec.state, dec.pos), sym) => sym = 1
      /\ \A sym : Has(h, 2, IsRep(dec.state), sym) => sym = 0
  BY ReadIs DEF DecodeMatch, InStep
<1>2. PICK d \in Distances, n \in Lengths : MatchMove(input, dec, h, b, d, n)
  <2> HIDE DEF h
  <2>1. ~ LiteralMove(input, dec, h, b)
    BY <1>1 DEF LiteralMove
  <2>2. ~ ShortRepMove(input, dec, h, b)
    BY <1>1 DEF ShortRepMove, HasRep
  <2>3. ASSUME NEW m \in Reps, NEW n \in Lengths, RepMove(input, dec, h, b, m, n)
        PROVE  FALSE
    BY <1>1, <2>3 DEF RepMove, HasRep
  <2> QED
    BY <2>1, <2>2, <2>3, Kinds DEF h
<1>3. d \in Nat /\ n \in Nat /\ n > 0 /\ d < DictSize /\ RepeatsAt(input, dec, d, n)
  BY <1>2, ParseAssumption DEF MatchMove, Distances, Lengths, MinLen
<1>4. CopyOrThrow(AfterMatch(dec.state), Pushed(dec.reps, d), n)
  <2>1. HasMatch(h, dec, n, d)
    BY <1>2 DEF MatchMove
  <2>2. ~(d < 0)
    BY <1>3
  <2> QED
    BY <2>1, <2>2, MatchReads
<1>5. Pushed(dec.reps, d)[0] = d
  BY DEF Pushed, Reps
<1>6. dec \in States /\ input \in Seq(Byte) /\ Agrees(decoded, input, dec.pos)
  BY DEF InStep, Fits
<1>7. /\ dec' = After(input, dec, n, AfterMatch(dec.state), Pushed(dec.reps, d))
      /\ Agrees(decoded', input, dec'.pos) /\ UNCHANGED phase
  BY <1>3, <1>4, <1>5, <1>6, CopyRepeats
<1> QED
  BY <1>2, <1>7 DEF StepsTo, MatchMove
-----------------------------------------------------------------------------
(***************************************************************************)
(* The inductive invariant.                                                *)
(***************************************************************************)
Types ==
  /\ input \in Inputs /\ size \in {-1, Len(input)}
  /\ ended \in BOOLEAN /\ lost \in BOOLEAN
  /\ \E S : channel \in Seq(S)

\* While it runs the decoder is inside what it has decoded, whatever the stream holds.
Inside ==
  phase = "run" =>
    /\ dec \in States /\ RepsFit(dec)
    /\ decoded \in Seq(Byte) /\ Len(decoded) = dec.pos

\* A mark is under way only at the end of a stream whose size is not known.
MarkedSize == IF ended THEN size ELSE 0

\* The packets under way lead from the decoder to the encoder.
Underway == /\ Chain(input, MarkedSize, channel, dec, enc)
            /\ Agrees(decoded, input, dec.pos)

\* Both are through.
Through ==
  /\ decoded = input /\ channel = << >> /\ enc.pos = Len(input)
  /\ size # -1 \/ ended

Intact == ~lost => \/ phase = "run" /\ Underway
                   \/ phase = "done" /\ Through

IInv == Types /\ Inside /\ Intact

LEMMA Initially == Init => IInv
<1> SUFFICES ASSUME Init PROVE IInv
  OBVIOUS
<1> USE ParseAssumption, PacketAssumption
<1>1. /\ input \in Inputs /\ input \in Seq(Byte) /\ Len(input) \in Nat
      /\ dec = Start /\ enc = Start /\ channel = << >> /\ decoded = << >>
      /\ lost = FALSE /\ ended = FALSE /\ phase = "run" /\ size \in {-1, Len(input)}
  BY DEF Init, ParseInit
<1>2. Types
  <2>1. channel \in Seq({})
    BY <1>1
  <2> QED
    BY <1>1, <2>1 DEF Types
<1>3. Start \in States /\ RepsFit(Start) /\ Fits(input, Start)
  BY <1>1 DEF Start, States, RepsFit, Fits, Reps
<1>4. Inside
  BY <1>1, <1>3 DEF Inside, Start
<1>5. Agrees(decoded, input, dec.pos)
  BY <1>1 DEF Agrees, Start
<1>6. Underway
  BY <1>1, <1>3, <1>5, LinkNone DEF Underway
<1> QED
  BY <1>1, <1>2, <1>4, <1>6 DEF IInv, Intact

-----------------------------------------------------------------------------
(* The encoder's steps. *)

LEMMA EncoderKeeps ==
  ASSUME IInv,
         \/ CodeLiteral \/ CodeShortRep
         \/ \E k \in Reps, n \in Lengths : CodeRep(k, n)
         \/ \E d \in Distances, n \in Lengths : CodeMatch(d, n)
  PROVE  IInv'
<1>1. /\ Types /\ Inside /\ Intact /\ input \in Seq(Byte) /\ Len(input) \in Nat
  BY PacketAssumption DEF IInv, Types
<1>2. PICK S : channel \in Seq(S)
  BY <1>1 DEF Types
<1>3. ~lost /\ ~ended
  BY DEF CodeLiteral, CodeShortRep, CodeRep, CodeMatch, Coding,
         Literal, ShortRep, Rep, Match, Advance
<1>4. CASE phase = "run"
  <2>1. Underway /\ MarkedSize # -1
    BY <1>1, <1>3, <1>4 DEF Intact, MarkedSize
  <2>2. Fits(input, enc)
    BY <1>2, <2>1, LinkEnds DEF Underway
  <2>3. /\ UNCHANGED <<input, size, ended, lost, decVars>>
        /\ \E p : channel' = Append(channel, p) /\ Moves(input, enc, p, enc')
    BY <2>2, EncoderMoves
  <2>4. PICK p : channel' = Append(channel, p) /\ Moves(input, enc, p, enc')
    BY <2>3
  <2>5. channel \in Seq(S \cup {p}) /\ channel' \in Seq(S \cup {p})
    BY <1>2, <2>4, SeqMonotonic, AppendProperties
  <2>6. Leads(input, MarkedSize, enc, p, enc')
    BY <2>4 DEF Leads
  <2>7. Chain(input, MarkedSize, Append(channel, p), dec, enc')
    BY <1>1, <1>2, <2>1, <2>6, LinkAppend DEF Underway
  <2>8. Underway'
    BY <2>1, <2>3, <2>4, <2>7 DEF Underway, MarkedSize, decVars
  <2>9. Types'
    BY <1>1, <2>3, <2>5 DEF Types
  <2>10. Inside'
    BY <1>1, <2>3 DEF Inside, decVars
  <2>11. Intact'
    BY <1>4, <2>3, <2>8 DEF Intact, decVars
  <2> QED
    BY <2>9, <2>10, <2>11 DEF IInv
<1>5. CASE phase # "run"
  <2>1. enc.pos = Len(input)
    BY <1>1, <1>3, <1>5 DEF Intact, Through
  <2>2. ASSUME NEW d, NEW n \in Nat, n > 0
        PROVE  ~ Repeats(d, n)
    BY <1>1, <2>1, <2>2 DEF Repeats
  <2>3. ~ CodeLiteral
    BY <1>1, <2>1 DEF CodeLiteral, Literal
  <2>4. ~ CodeShortRep
    BY <2>2 DEF CodeShortRep, ShortRep
  <2>5. \A n \in Lengths : n \in Nat /\ n > 0
    BY ParseAssumption DEF Lengths, MinLen
  <2>6. \A k \in Reps, n \in Lengths : ~ CodeRep(k, n)
    BY <2>2, <2>5 DEF CodeRep, Rep
  <2>7. \A d \in Distances, n \in Lengths : ~ CodeMatch(d, n)
    BY <2>2, <2>5 DEF CodeMatch, Match
  <2> QED
    BY <2>3, <2>4, <2>6, <2>7
<1> QED
  BY <1>4, <1>5

LEMMA FlushKeeps ==
  ASSUME IInv, FlushStream
  PROVE  IInv'
<1>1. /\ Types /\ Inside /\ Intact /\ input \in Seq(Byte) /\ Len(input) \in Nat
  BY PacketAssumption DEF IInv, Types
<1>2. PICK S : channel \in Seq(S)
  BY <1>1 DEF Types
<1>3. /\ ~lost /\ ~ended /\ ended' = TRUE /\ enc.pos = Len(input)
      /\ UNCHANGED <<input, size, lost, dec, decoded, phase>>
  BY DEF FlushStream, Coding, Flush, Send, decVars
<1>4. CASE size = -1
  <2> DEFINE p == MatchPacket(enc.state, enc.pos, MinLen, EndDistance)
  <2>1. /\ phase = "run" /\ Underway /\ MarkedSize # -1
    BY <1>1, <1>3, <1>4 DEF Intact, Through, MarkedSize
  <2>2. channel' = Append(channel, p)
    BY <1>4 DEF FlushStream, Send
  <2>3. Marks(input, size, enc, p, enc')
    <3>1. enc' = [enc EXCEPT !.state = AfterMatch(@)]
      BY <1>4 DEF FlushStream, Flush
    <3>2. HasMatch(p, enc, MinLen, EndDistance)
      BY MatchHas
    <3> QED
      BY <1>3, <1>4, <3>1, <3>2 DEF Marks
  <2> HIDE DEF p
  <2>4. channel \in Seq(S \cup {p}) /\ channel' \in Seq(S \cup {p})
    BY <1>2, <2>2, SeqMonotonic, AppendProperties
  <2>5. Leads(input, size, enc, p, enc')
    BY <2>3 DEF Leads
  <2>6. Chain(input, size, Append(channel, p), dec, enc')
    BY <1>1, <1>2, <2>1, <2>5, LinkAppend DEF Underway
  <2>7. Underway'
    BY <1>3, <2>1, <2>2, <2>6 DEF Underway, MarkedSize
  <2>8. Types'
    BY <1>1, <1>3, <2>4 DEF Types
  <2>9. Inside'
    BY <1>1, <1>3 DEF Inside
  <2>10. Intact'
    BY <1>3, <2>1, <2>7 DEF Intact
  <2> QED
    BY <2>8, <2>9, <2>10 DEF IInv
<1>5. CASE size # -1
  <2>1. UNCHANGED <<enc, channel>>
    BY <1>5 DEF FlushStream, Flush
  <2>2. Types' /\ Inside'
    BY <1>1, <1>3, <2>1 DEF Types, Inside
  <2>3. Underway => Underway'
    BY <1>3, <1>5, <2>1, LinkSized DEF Underway, MarkedSize
  <2>4. Through => Through'
    BY <1>3, <2>1 DEF Through
  <2>5. Intact'
    BY SMTT(30), <1>1, <1>3, <2>3, <2>4 DEF Intact
  <2> QED
    BY <2>2, <2>5 DEF IInv
<1> QED
  BY <1>4, <1>5
-----------------------------------------------------------------------------
(* The decoder's steps. *)

DecodePacket == \/ DecodeLiteral \/ DecodeShortRep
                \/ \E k \in Reps : DecodeRep(k)
                \/ DecodeMatch

LEMMA DecodePacketIs ==
  ASSUME DecodePacket
  PROVE  Decoding /\ UNCHANGED <<encVars, lost>>
BY DEF DecodePacket, DecodeLiteral, DecodeShortRep, DecodeRep, DecodeMatch, ReadsRep

\* A packet of the input.
LEMMA DecodesMove ==
  ASSUME InStep, NEW b, Moves(input, dec, Head(channel), b), DecodePacket
  PROVE  StepsTo(b)
BY LiteralSteps, ShortRepSteps, RepSteps, MatchSteps DEF DecodePacket

\* The mark of the end.
LEMMA DecodesMark ==
  ASSUME InStep, NEW b, Marks(input, MarkedSize, dec, Head(channel), b), DecodePacket
  PROVE  phase' = "done" /\ decoded' = decoded
<1>1. /\ HasMatch(Head(channel), dec, MinLen, EndDistance)
      /\ Has(Head(channel), 1, IsMatch(dec.state, dec.pos), 1)
      /\ Has(Head(channel), 2, IsRep(dec.state), 0)
  BY DEF Marks, HasMatch
<1>2. ~ DecodeLiteral
  <2>1. ~ (0 \in Read(1, IsMatch(dec.state, dec.pos), Bit))
    BY <1>1, ReadIs DEF InStep
  <2> QED
    BY <2>1 DEF DecodeLiteral
<1>3. ~ ReadsRep
  BY <1>1, ReadIs DEF ReadsRep, InStep
<1>4. DecodeMatch
  BY <1>2, <1>3 DEF DecodePacket, DecodeShortRep, DecodeRep
<1> QED
  BY <1>1, <1>4, MatchReads DEF EndDistance

LEMMA IntactKeeps ==
  ASSUME IInv, ~lost, DecodePacket
  PROVE  IInv'
<1>1. /\ Types /\ Inside /\ Intact /\ input \in Seq(Byte) /\ Len(input) \in Nat
  BY PacketAssumption DEF IInv, Types
<1>2. PICK S : channel \in Seq(S)
  BY <1>1 DEF Types
<1>3. /\ phase = "run" /\ channel # << >> /\ channel' = Tail(channel)
      /\ UNCHANGED <<input, size, enc, ended, lost>>
  BY DecodePacketIs DEF Decoding, encVars
<1>4. Underway
  BY <1>1, <1>3 DEF Intact
<1>5. InStep
  BY <1>1, <1>2, <1>4, LinkEnds DEF InStep, Underway
<1>6. PICK b : /\ Chain(input, MarkedSize, Tail(channel), b, enc)
               /\ \/ Moves(input, dec, Head(channel), b)
                  \/ /\ Tail(channel) = << >>
                     /\ Marks(input, MarkedSize, dec, Head(channel), b)
  BY <1>2, <1>3, <1>4, LinkTail DEF Underway
<1>7. Tail(channel) \in Seq(S)
  BY <1>2, <1>3, HeadTailProperties
<1>8. Types'
  BY <1>1, <1>3, <1>7 DEF Types
<1>9. Fits(input, b) /\ Fits(input, enc) /\ (Tail(channel) = << >> => b = enc)
  BY <1>6, <1>7, LinkEnds
<1>10. CASE Moves(input, dec, Head(channel), b)
  <2>1. dec' = b /\ Agrees(decoded', input, b.pos) /\ phase' = "run"
    BY <1>3, <1>5, <1>10, DecodesMove DEF StepsTo
  <2>2. Underway'
    BY <1>3, <1>6, <2>1 DEF Underway, MarkedSize
  <2>3. Inside'
    BY <1>9, <2>1 DEF Inside, Fits, Agrees
  <2>4. Intact'
    BY <2>1, <2>2 DEF Intact
  <2> QED
    BY <1>8, <2>3, <2>4 DEF IInv
<1>11. CASE Tail(channel) = << >> /\ Marks(input, MarkedSize, dec, Head(channel), b)
  <2>1. phase' = "done" /\ decoded' = decoded
    BY <1>5, <1>11, DecodesMark
  <2>2. dec.pos = Len(input) /\ MarkedSize = -1 /\ b.pos = dec.pos
    BY <1>1, <1>5, <1>11, MarksFit DEF Marks, InStep
  <2>3. decoded = input
    <3>1. /\ decoded \in Seq(Byte) /\ Len(decoded) = Len(input)
          /\ \A j \in 1..Len(decoded) : decoded[j] = input[j]
      BY <1>4, <2>2 DEF Underway, Agrees
    <3> QED
      BY <1>1, <3>1, SeqEqual
  <2>4. Through'
    <3>1. enc.pos = Len(input) /\ ended
      BY <1>9, <1>11, <2>2 DEF MarkedSize
    <3> QED
      BY <1>3, <1>11, <2>1, <2>3, <3>1 DEF Through
  <2>5. Inside' /\ Intact'
    BY <2>1, <2>4 DEF Inside, Intact
  <2> QED
    BY <1>8, <2>5 DEF IInv
<1> QED
  BY <1>6, <1>10, <1>11

LEMMA FinishKeeps ==
  ASSUME IInv, FinishAtSize
  PROVE  IInv'
<1>1. /\ Types /\ Inside /\ Intact /\ input \in Seq(Byte) /\ Len(input) \in Nat
      /\ size \in {-1, Len(input)}
  BY PacketAssumption DEF IInv, Types
<1>2. PICK S : channel \in Seq(S)
  BY <1>1 DEF Types
<1>3. /\ phase = "run" /\ phase' = "done" /\ ~(size < 0 \/ dec.pos < size)
      /\ UNCHANGED <<input, size, enc, ended, channel, lost, dec, decoded>>
  BY DEF FinishAtSize, MoreToDecode, encVars
<1>4. Types' /\ Inside'
  BY <1>1, <1>3 DEF Types, Inside
<1>5. ASSUME ~lost PROVE Through'
  <2>1. Underway
    BY <1>1, <1>3, <1>5 DEF Intact
  <2>2. /\ Fits(input, dec) /\ Fits(input, enc) /\ dec.pos \in Nat /\ enc.pos \in Nat
        /\ dec.pos <= Len(input) /\ enc.pos <= Len(input) /\ dec.pos <= enc.pos
    <3>1. Fits(input, dec) /\ Fits(input, enc) /\ dec.pos <= enc.pos
      BY <1>2, <2>1, LinkEnds DEF Underway
    <3> QED
      BY <3>1 DEF Fits, States
  <2>3. dec.pos = Len(input) /\ size # -1 /\ enc.pos = Len(input)
    BY <1>1, <1>3, <2>2
  <2>4. channel = << >>
    <3>1. SUFFICES ASSUME channel # << >> PROVE FALSE
      OBVIOUS
    <3>2. PICK b : /\ Chain(input, MarkedSize, Tail(channel), b, enc)
                   /\ \/ Moves(input, dec, Head(channel), b)
                      \/ Marks(input, MarkedSize, dec, Head(channel), b)
      BY <1>2, <2>1, <3>1, LinkTail DEF Underway
    <3>3. Moves(input, dec, Head(channel), b)
      BY <2>3, <3>2 DEF Marks, MarkedSize
    <3>4. Fits(input, b) /\ dec.pos < b.pos
      BY <1>1, <2>2, <3>3, MovesFit
    <3> QED
      BY <1>1, <2>3, <3>4 DEF Fits, States
  <2>5. decoded = input
    <3>1. /\ decoded \in Seq(Byte) /\ Len(decoded) = Len(input)
          /\ \A j \in 1..Len(decoded) : decoded[j] = input[j]
      BY <2>1, <2>3 DEF Underway, Agrees
    <3> QED
      BY <1>1, <3>1, SeqEqual
  <2> QED
    BY <1>3, <2>3, <2>4, <2>5 DEF Through
<1>6. Intact'
  BY <1>3, <1>5 DEF Intact
<1> QED
  BY <1>4, <1>6 DEF IInv

\* What the distances kept are taken from.
KeptFrom(reps, old) == \A i \in Reps \ {0} : \E j \in Reps : reps[i] = old[j]

\* A copy or a refusal leaves the decoder inside, whatever it has read.
LEMMA CopyInside ==
  ASSUME phase = "run", Inside, NEW state \in 0..11, NEW reps \in [Reps -> Nat],
         KeptFrom(reps, dec.reps), NEW n \in Lengths \cup {1}, CopyOrThrow(state, reps, n)
  PROVE  Inside'
<1>1. /\ dec \in States /\ dec.pos \in Nat /\ RepsFit(dec)
      /\ decoded \in Seq(Byte) /\ Len(decoded) = dec.pos
  BY DEF Inside, States
<1>2. n \in Nat /\ n > 0 /\ reps[0] \in Nat
  BY ParseAssumption DEF Lengths, MinLen, Reps
<1>3. CASE phase' = "thrown"
  BY <1>3 DEF Inside
<1>4. CASE /\ reps[0] < dec.pos /\ reps[0] < DictSize
           /\ decoded' = Copied(reps[0], n)
           /\ dec' = [state |-> state, reps |-> reps,
                      prev |-> decoded'[Len(decoded')], pos |-> dec.pos + n]
  <2>1. decoded' \in Seq(Byte) /\ Len(decoded') = dec.pos + n
    BY <1>1, <1>2, <1>4, CopiedBytes
  <2>2. decoded'[Len(decoded')] \in Byte
    BY <1>1, <1>2, <2>1
  <2>3. /\ dec' \in States /\ dec'.pos = dec.pos + n /\ dec'.reps = reps
    BY <1>1, <1>2, <1>4, <2>2 DEF States
  <2>4. \A i \in Reps : reps[i] = 0 \/ (reps[i] < dec.pos + n /\ reps[i] < DictSize)
    <3>1. ASSUME NEW i \in Reps \ {0}
          PROVE  reps[i] = 0 \/ (reps[i] < dec.pos + n /\ reps[i] < DictSize)
      <4>1. PICK j \in Reps : reps[i] = dec.reps[j]
        BY DEF KeptFrom
      <4>2. reps[i] \in Nat /\ (reps[i] = 0 \/ (reps[i] < dec.pos /\ reps[i] < DictSize))
        BY <1>1, <4>1 DEF RepsFit
      <4> QED
        BY <1>1, <1>2, <4>2
    <3>2. reps[0] < dec.pos + n /\ reps[0] < DictSize
      BY <1>1, <1>2, <1>4
    <3> QED
      BY <3>1, <3>2
  <2>5. RepsFit(dec)'
    BY <2>3, <2>4 DEF RepsFit
  <2> QED
    BY <2>1, <2>3, <2>5 DEF Inside
<1> QED
  BY <1>3, <1>4 DEF CopyOrThrow

LEMMA LostKeeps ==
  ASSUME IInv, lost, DecodePacket
  PROVE  IInv'
<1>1. Types /\ Inside /\ 0 \in Reps
  BY DEF IInv, Reps
<1>2. /\ phase = "run" /\ lost' = lost
      /\ UNCHANGED <<input, size, enc, ended, channel>>
  BY DecodePacketIs DEF Decoding, encVars
<1>3. Types' /\ Intact'
  BY <1>1, <1>2 DEF Types, Intact
<1>4. /\ dec \in States /\ dec.state \in 0..11
      /\ dec.reps \in [Reps -> Nat] /\ dec.pos \in Nat
      /\ RepsFit(dec) /\ decoded \in Seq(Byte) /\ Len(decoded) = dec.pos
  BY <1>1, <1>2 DEF Inside, States
<1>5. \A i, at, A : Read(i, at, A) = A
  BY DEF Read
<1>6. CASE DecodeLiteral
  <2>1. PICK y \in Byte :
          /\ decoded' = Append(decoded, y)
          /\ dec' = [dec EXCEPT !.state = AfterLiteral(@), !.prev = y, !.pos = @ + 1]
    <3>1. Read(2, LiteralContext, Byte) = Byte
      BY <1>5
    <3> QED
      BY <1>6, <3>1 DEF DecodeLiteral
  <2>2. AfterLiteral(dec.state) \in 0..6
    BY <1>4, StateRanges
  <2>3. AfterLiteral(dec.state) \in 0..11
    BY <2>2
  <2>4. dec' \in States /\ dec'.reps = dec.reps /\ dec'.pos = dec.pos + 1
    <3>1. dec' = [state |-> AfterLiteral(dec.state), reps |-> dec.reps,
                  prev |-> y, pos |-> dec.pos + 1]
      BY <1>4, <2>1 DEF States
    <3>2. dec.pos + 1 \in Nat
      BY <1>4
    <3> QED
      BY <1>4, <2>3, <3>1, <3>2 DEF States
  <2>5. RepsFit(dec)'
    BY <1>4, <2>4 DEF RepsFit
  <2>6. decoded' \in Seq(Byte) /\ Len(decoded') = dec.pos + 1
    BY <1>4, <2>1, AppendProperties
  <2> QED
    BY <1>3, <2>4, <2>5, <2>6 DEF Inside, IInv
<1>7. CASE DecodeShortRep
  <2>1. CopyOrThrow(AfterShortRep(dec.state), dec.reps, 1)
    BY <1>7 DEF DecodeShortRep
  <2>2. AfterShortRep(dec.state) \in 7..11 /\ KeptFrom(dec.reps, dec.reps)
    BY <1>4, StateRanges DEF KeptFrom
  <2>3. AfterShortRep(dec.state) \in 0..11 /\ 1 \in Lengths \cup {1}
    BY <2>2
  <2>4. Inside'
    BY <1>1, <1>2, <1>4, <2>1, <2>2, <2>3, CopyInside
  <2> QED
    BY <1>3, <2>4 DEF IInv
<1>8. ASSUME NEW k \in Reps, DecodeRep(k)
      PROVE  IInv'
  <2>1. PICK n \in Lengths : CopyOrThrow(AfterRep(dec.state), RepsAfter(k), n)
    BY <1>5, <1>8 DEF DecodeRep
  <2>2. AfterRep(dec.state) \in 7..11
    BY <1>4, StateRanges
  <2>3. AfterRep(dec.state) \in 0..11 /\ n \in Lengths \cup {1}
    BY <2>2
  <2>4. RepsAfter(k) \in [Reps -> Nat] /\ KeptFrom(RepsAfter(k), dec.reps)
    <3>1. RepsAfter(k) = ToFront(dec.reps, k)
      BY <1>4, SameReps
    <3>2. /\ ToFront(dec.reps, k) \in [Reps -> Nat]
          /\ KeptFrom(ToFront(dec.reps, k), dec.reps)
      BY <1>4 DEF ToFront, Reps, KeptFrom
    <3> QED
      BY <3>1, <3>2
  <2>5. Inside'
    BY <1>1, <1>2, <2>1, <2>3, <2>4, CopyInside
  <2> QED
    BY <1>3, <2>5 DEF IInv
<1>9. CASE DecodeMatch
  <2>1. PICK n \in Lengths, d \in -2..MaxDist :
          \/ d < 0 /\ phase' = IF d = EndDistance THEN "done" ELSE "thrown"
          \/ d >= 0 /\ CopyOrThrow(AfterMatch(dec.state), Pushed(dec.reps, d), n)
    BY <1>5, <1>9 DEF DecodeMatch
  <2>2. CASE phase' \in {"done", "thrown"}
    BY <1>3, <2>2 DEF Inside, IInv
  <2>3. CASE d >= 0 /\ CopyOrThrow(AfterMatch(dec.state), Pushed(dec.reps, d), n)
    <3>1. d \in Nat
      BY <2>1, <2>3, PacketAssumption
    <3>2. AfterMatch(dec.state) \in 7..11
      BY <1>4, StateRanges
    <3>3. AfterMatch(dec.state) \in 0..11 /\ n \in Lengths \cup {1}
      BY <3>2
    <3>4. /\ Pushed(dec.reps, d) \in [Reps -> Nat]
          /\ KeptFrom(Pushed(dec.reps, d), dec.reps)
      BY <1>4, <3>1 DEF Pushed, Reps, KeptFrom
    <3>5. Inside'
      BY <1>1, <1>2, <2>3, <3>3, <3>4, CopyInside
    <3> QED
      BY <1>3, <3>5 DEF IInv
  <2> QED
    BY <2>1, <2>2, <2>3
<1> QED
  BY <1>6, <1>7, <1>8, <1>9 DEF DecodePacket
-----------------------------------------------------------------------------
(***************************************************************************)
(* The theorems.                                                           *)
(***************************************************************************)
LEMMA Stepwise == IInv /\ [Next]_vars => IInv'
<1> SUFFICES ASSUME IInv, [Next]_vars PROVE IInv'
  OBVIOUS
<1>1. CASE Encode
  BY <1>1, EncoderKeeps, FlushKeeps DEF Encode
<1>2. CASE Damage
  <2>1. Types'
    <3>1. channel' \in Seq({})
      BY <1>2 DEF Damage
    <3> QED
      BY <1>2, <3>1 DEF Damage, IInv, Types, encVars
  <2>2. Inside' /\ Intact'
    BY <1>2 DEF Damage, IInv, Inside, Intact, decVars
  <2> QED
    BY <2>1, <2>2 DEF IInv
<1>3. CASE DecodePacket
  BY <1>3, IntactKeeps, LostKeeps
<1>4. CASE FinishAtSize
  BY <1>4, FinishKeeps
<1>5. CASE StreamEnds
  BY <1>5 DEF StreamEnds, IInv, Types, Inside, Intact, encVars
<1>6. CASE UNCHANGED vars
  BY <1>6 DEF vars, encVars, decVars, IInv, Types, Inside, Intact,
              Underway, MarkedSize, Through
<1> QED
  BY <1>1, <1>2, <1>3, <1>4, <1>5, <1>6 DEF Next, Decode, DecodePacket

\* IInv holds in every state of every run.
THEOREM Invariance == Spec => []IInv
<1>1. Init => IInv
  BY Initially
<1>2. IInv /\ [Next]_vars => IInv'
  BY Stepwise
<1> QED
  BY <1>1, <1>2, PTL DEF Spec

\* Whenever the decoder has caught up with the encoder (doDecode with
\* codeOneBlock) the two are in the same state, whatever the input and however
\* the parser cut it into packets: they choose the same contexts.
THEOREM InLockstep == Spec => []Lockstep
<1>1. IInv => Lockstep
  <2> SUFFICES ASSUME IInv, ~lost, channel = << >>, phase = "run" PROVE enc = dec
    BY DEF Lockstep
  <2>1. Underway
    BY DEF IInv, Intact
  <2>2. PICK S : channel \in Seq(S)
    BY DEF IInv, Types
  <2>3. channel = << >> => dec = enc
    BY <2>1, <2>2, LinkEnds DEF Underway
  <2> QED
    BY <2>3
<1> QED
  BY <1>1, Invariance, PTL

\* Of an intact stream doDecode writes the input, never ahead of the encoder,
\* all of it by the time it is done; and it refuses none of its packets.
THEOREM Decodes == Spec => []DecodesInput
<1>1. IInv => DecodesInput
  <2> SUFFICES ASSUME IInv, ~lost
               PROVE  /\ IsPrefix(decoded, input)
                      /\ Len(decoded) <= enc.pos
                      /\ phase = "done" => decoded = input /\ channel = << >>
                      /\ phase # "thrown"
    BY DEF DecodesInput
  <2>1. input \in Seq(Byte) /\ Len(input) \in Nat
    BY PacketAssumption DEF IInv, Types
  <2>2. CASE phase = "run" /\ Underway
    <3>1. PICK S : channel \in Seq(S)
      BY DEF IInv, Types
    <3>2. Fits(input, dec) /\ dec.pos <= enc.pos /\ Agrees(decoded, input, dec.pos)
      BY <2>2, <3>1, LinkEnds DEF Underway
    <3>3. /\ decoded \in Seq(Byte) /\ Len(decoded) \in 0..Len(input)
          /\ Len(decoded) <= enc.pos
          /\ \A j \in 1..Len(decoded) : decoded[j] = input[j]
      BY <2>1, <3>2 DEF Fits, States, Agrees
    <3>4. IsPrefix(decoded, input)
      BY <2>1, <3>2, AgreesIsPrefix DEF Fits, States
    <3> QED
      BY <2>2, <3>3, <3>4
  <2>3. CASE phase = "done" /\ Through
    <3>1. IsPrefix(input, input)
      BY <2>1, AgreesIsPrefix DEF Agrees
    <3> QED
      BY <2>1, <2>3, <3>1 DEF Through
  <2> QED
    BY <2>2, <2>3 DEF IInv, Intact
<1> QED
  BY <1>1, Invariance, PTL

\* Of any stream, damaged or not, doDecode keeps no distance that reaches before
\* its first byte or out of its dictionary.
THEOREM StaysInside == Spec => []RepsStayInside
<1>1. IInv => RepsStayInside
  <2> SUFFICES ASSUME IInv, phase = "run", NEW i \in Reps
               PROVE  \/ dec.reps[i] = 0
                      \/ dec.reps[i] \in 1..(dec.pos - 1) /\ dec.reps[i] < DictSize
    BY DEF RepsStayInside
  <2>1. dec \in States /\ RepsFit(dec)
    BY DEF IInv, Inside
  <2>2. dec.reps[i] \in Nat /\ dec.pos \in Nat
    BY <2>1 DEF States
  <2> QED
    BY <2>1, <2>2 DEF RepsFit
<1> QED
  BY <1>1, Invariance, PTL
=============================================================================
