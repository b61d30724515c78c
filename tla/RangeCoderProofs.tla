-------------------------- MODULE RangeCoderProofs --------------------------
(***************************************************************************)
(* Proofs about RangeEncoder and, behind them, about RangeCoder, for every *)
(* width of a byte, of a word and of a probability that satisfies          *)
(* RangeAssumption, and any number of bits.                                *)
(***************************************************************************)
EXTENDS RangeCoder, NaturalsInduction, WellFoundedInduction, TLAPS

(***************************************************************************)
(* Arithmetic: products, quotients and remainders of naturals.             *)
(***************************************************************************)
LEMMA TimesMono ==
  ASSUME NEW a \in Nat, NEW b \in Nat, NEW c \in Nat, a <= b
  PROVE  a * c <= b * c /\ c * a <= c * b /\ a * c \in Nat /\ a * c = c * a
OBVIOUS

LEMMA SumBelow ==
  ASSUME NEW a \in Nat, NEW r \in Nat, NEW w \in Nat, r >= 2, a + r <= w
  PROVE  a < w
OBVIOUS

LEMMA DivMod ==
  ASSUME NEW a \in Nat, NEW b \in Nat, b > 0
  PROVE  /\ a \div b \in Nat /\ a % b \in 0..(b - 1)
         /\ a = b * (a \div b) + (a % b)
<1>1. a % b \in 0..(b - 1) /\ a \div b \in Int
  OBVIOUS
<1>2. a = b * (a \div b) + (a % b)
  OBVIOUS
<1>3. a \div b >= 0
  BY <1>1, <1>2
<1> QED
  BY <1>1, <1>2, <1>3

LEMMA DivModUnique ==
  ASSUME NEW a \in Nat, NEW b \in Nat, b > 0, NEW q \in Nat, NEW r \in 0..(b - 1),
         a = b * q + r
  PROVE  a \div b = q /\ a % b = r
OBVIOUS

\* Halving and the like never grow and never go below zero.
LEMMA DivBounds ==
  ASSUME NEW a \in Nat, NEW b \in Nat, b > 0
  PROVE  /\ a \div b <= a
         /\ a >= b => a \div b >= 1
         /\ a < b => a \div b = 0
<1> DEFINE q == a \div b
<1>1. q \in Nat /\ a % b \in 0..(b - 1) /\ a = b * q + (a % b)
  BY DivMod
<1> HIDE DEF q
<1>2. b * q >= q
  BY <1>1
<1>3. q = 0 => b * q = 0
  BY <1>1
<1>4. q >= 1 => b * q >= b
  BY <1>1
<1> QED
  BY <1>1, <1>2, <1>3, <1>4 DEF q

LEMMA DivMono ==
  ASSUME NEW a \in Nat, NEW c \in Nat, NEW b \in Nat, b > 0, a <= c
  PROVE  a \div b <= c \div b
<1> DEFINE q == a \div b
           s == c \div b
<1>1. /\ q \in Nat /\ a % b \in 0..(b - 1) /\ a = b * q + (a % b)
      /\ s \in Nat /\ c % b \in 0..(b - 1) /\ c = b * s + (c % b)
  BY DivMod
<1> HIDE DEF q, s
<1>2. ASSUME q >= s + 1 PROVE FALSE
  <2>1. b * (s + 1) <= b * q
    BY <1>1, <1>2, TimesMono
  <2>2. b * (s + 1) = b * s + b
    BY <1>1
  <2>3. b * q \in Nat /\ b * s \in Nat
    BY <1>1, TimesMono
  <2> QED
    BY <1>1, <2>1, <2>2, <2>3
<1> QED
  BY <1>1, <1>2 DEF q, s
-----------------------------------------------------------------------------
(***************************************************************************)
(* The probabilities.                                                      *)
(***************************************************************************)

\* A probability never comes nearer to 0 or to kBitModelTotal than
\* 2^kNumMoveBits - 1: 31 and 2017 in the code.
LEMMA MovedBounds ==
  ASSUME NEW q \in MinProb..MaxProb, NEW bit \in {0, 1}
  PROVE  Moved(q, bit) \in MinProb..MaxProb
<1> USE RangeAssumption
<1>1. ASSUME NEW x \in Nat, x >= MoveDiv - 1
      PROVE  x - (x \div MoveDiv) >= MoveDiv - 1 /\ x \div MoveDiv \in Nat
  <2> DEFINE k == x \div MoveDiv
  <2>0. MoveDiv \in Nat /\ MoveDiv > 0 /\ MoveDiv - 1 \in Nat
    OBVIOUS
  <2>1. k \in Nat /\ x % MoveDiv \in 0..(MoveDiv - 1)
        /\ x = MoveDiv * k + (x % MoveDiv)
    BY <2>0, DivMod
  <2> HIDE DEF k
  <2>2. CASE k = 0
    BY <2>1, <2>2, <1>1
  <2>3. CASE k >= 1
    <3>1. MoveDiv * k = (MoveDiv - 1) * k + k
      BY <2>1
    <3>2. (MoveDiv - 1) * k >= MoveDiv - 1
      BY <2>0, <2>1, <2>3
    <3> QED
      BY <2>0, <2>1, <3>1, <3>2
  <2> QED
    BY <2>1, <2>2, <2>3 DEF k
<1>2. q \in Nat /\ q >= MoveDiv - 1
      /\ ModelTotal - q \in Nat /\ ModelTotal - q >= MoveDiv - 1
  BY DEF MinProb, MaxProb
<1>3. /\ q - (q \div MoveDiv) >= MoveDiv - 1 /\ q \div MoveDiv \in Nat
      /\ (ModelTotal - q) - ((ModelTotal - q) \div MoveDiv) >= MoveDiv - 1
      /\ (ModelTotal - q) \div MoveDiv \in Nat
  BY <1>1, <1>2
<1> QED
  BY <1>2, <1>3 DEF Moved, MinProb, MaxProb
-----------------------------------------------------------------------------
(***************************************************************************)
(* The interval.                                                           *)
(***************************************************************************)

\* Both parts of a split are big enough to be brought back to kTopValue by one
\* shift.
LEMMA BoundSplit ==
  ASSUME NEW r \in Top..(Word - 1), NEW q \in MinProb..MaxProb
  PROVE  /\ Bound(r, q) \in 1..(r - 1)
         /\ Bound(r, q) * Base >= Top
         /\ (r - Bound(r, q)) * Base >= Top
<1> USE RangeAssumption
<1> DEFINE k == r \div ModelTotal
           k0 == Top \div ModelTotal
<1>0. Word \in Nat /\ r \in Nat /\ ModelTotal > 0 /\ Top > 0
  BY DEF Word
<1>1. /\ k \in Nat /\ r % ModelTotal \in Nat /\ r = ModelTotal * k + (r % ModelTotal)
      /\ k0 \in Nat
  BY <1>0, DivMod
<1>2. k0 <= k
  BY <1>0, DivMono
<1>3. Bound(r, q) = k * q /\ k0 * (MoveDiv - 1) * Base >= Top
  BY DEF Bound
<1> HIDE DEF k, k0
<1>4. q \in Nat /\ q >= MoveDiv - 1 /\ ModelTotal - q \in Nat
      /\ ModelTotal - q >= MoveDiv - 1
  BY DEF MinProb, MaxProb
<1>5. ASSUME NEW x \in Nat, x >= MoveDiv - 1
      PROVE  /\ k * x \in Nat /\ (k * x) * Base >= Top
             /\ k * x >= 1
  <2> DEFINE u == k0 * (MoveDiv - 1)
             v == k * x
  <2>1. u <= k * (MoveDiv - 1) /\ k * (MoveDiv - 1) <= v /\ u \in Nat /\ v \in Nat
        /\ k * (MoveDiv - 1) \in Nat
    BY <1>1, <1>2, <1>5, TimesMono
  <2>2. u * Base >= Top /\ Base \in Nat
    BY <1>3
  <2> HIDE DEF u, v
  <2>3. u <= v
    BY <2>1
  <2>4. u * Base <= v * Base
    BY <2>1, <2>2, <2>3, TimesMono
  <2>5. u * Base \in Nat /\ v * Base \in Nat
    BY <2>1, <2>2
  <2>6. v # 0
    <3> SUFFICES ASSUME v = 0 PROVE FALSE
      OBVIOUS
    <3>1. v * Base = 0
      BY <2>2
    <3> QED
      BY <2>2, <2>4, <2>5, <3>1, <1>0
  <2> QED
    BY <2>1, <2>2, <2>4, <2>5, <2>6, <1>0 DEF v
<1>6. k * ModelTotal = k * q + k * (ModelTotal - q) /\ ModelTotal * k = k * ModelTotal
  BY <1>1, <1>4
<1>7. /\ k * q \in Nat /\ (k * q) * Base >= Top /\ k * q >= 1
      /\ k * (ModelTotal - q) \in Nat /\ (k * (ModelTotal - q)) * Base >= Top
      /\ k * (ModelTotal - q) >= 1
  BY <1>4, <1>5
<1>8. r - k * q >= k * (ModelTotal - q)
  BY <1>1, <1>6, <1>7
<1>9. (r - k * q) * Base >= (k * (ModelTotal - q)) * Base
  BY <1>0, <1>7, <1>8, TimesMono
<1> QED
  BY <1>0, <1>3, <1>7, <1>8, <1>9

\* Half of the range, too, is brought back by one shift.
LEMMA HalfSplit ==
  ASSUME NEW r \in Top..(Word - 1), Top >= 2
  PROVE  r \div 2 \in 1..(r - 1) /\ (r \div 2) * Base >= Top
         /\ 2 * (r \div 2) <= r
<1> USE RangeAssumption
<1> DEFINE h == r \div 2
<1>1. r \in Nat /\ h \in Nat /\ 2 * h <= r /\ r <= 2 * h + 1
  BY DEF Word
<1>2. h >= 1
  BY <1>1
<1> HIDE DEF h
<1>3. h * Base >= 2 * h
  BY <1>1, TimesMono
<1> QED
  BY <1>1, <1>2, <1>3 DEF h
-----------------------------------------------------------------------------
\* A function on 1..n is a sequence.
LEMMA IsASeq ==
  ASSUME NEW n \in Nat, NEW S, NEW v \in S
  PROVE  [i \in 1..n |-> v] \in Seq(S)
OBVIOUS

(***************************************************************************)
(* shiftLow.                                                               *)
(***************************************************************************)

\* The byte shifted out of low and what is left of it.
LEMMA ShiftArith ==
  ASSUME NEW lo \in 0..(2 * Word - 1)
  PROVE  /\ lo % Word = IF lo >= Word THEN lo - Word ELSE lo
         /\ (lo % Word) \div Top \in ByteVal
         /\ (lo % Word) % Top \in 0..(Top - 1)
         /\ lo % Word = Top * ((lo % Word) \div Top) + ((lo % Word) % Top)
         /\ ((lo % Word) * Base) % Word = ((lo % Word) % Top) * Base
         /\ ((lo % Word) * Base) % Word \in 0..(Word - 1)
<1> USE RangeAssumption
<1> DEFINE x == lo % Word
           t == x \div Top
           y == x % Top
<1>0. Word \in Nat /\ Word > 0 /\ Top > 0 /\ Word = Base * Top
      /\ Base \in Nat /\ Top \in Nat
  BY DEF Word
<1>1. x = (IF lo >= Word THEN lo - Word ELSE lo) /\ x \in 0..(Word - 1)
  <2>1. CASE lo >= Word
    <3>1. lo = Word * 1 + (lo - Word) /\ lo - Word \in 0..(Word - 1)
      BY <1>0, <2>1
    <3> QED
      BY <1>0, <2>1, <3>1, DivModUnique
  <2>2. CASE lo < Word
    <3>1. lo = Word * 0 + lo /\ lo \in 0..(Word - 1)
      BY <1>0, <2>2
    <3> QED
      BY <1>0, <2>2, <3>1, DivModUnique
  <2> QED
    BY <1>0, <2>1, <2>2
<1> HIDE DEF x
<1>2. t \in Nat /\ y \in 0..(Top - 1) /\ x = Top * t + y
  BY <1>0, <1>1, DivMod
<1> HIDE DEF t, y
<1>3. t < Base
  <2> SUFFICES ASSUME t >= Base PROVE FALSE
    BY <1>0, <1>2
  <2>1. Top * Base <= Top * t /\ Top * Base = Base * Top
    BY <1>0, <1>2, TimesMono
  <2> QED
    BY <1>0, <1>1, <1>2, <2>1
<1>4. x * Base = Word * t + y * Base
  <2>1. x * Base = (Top * t) * Base + y * Base
    BY <1>0, <1>2
  <2>2. (Top * t) * Base = Word * t
    BY <1>0, <1>2
  <2> QED
    BY <2>1, <2>2
<1>5. y * Base \in 0..(Word - 1)
  <2>1. (y + 1) * Base <= Top * Base /\ (y + 1) * Base = y * Base + Base
        /\ y * Base \in Nat /\ Top * Base = Base * Top
    BY <1>0, <1>2, TimesMono
  <2> QED
    BY <1>0, <2>1
<1>6. (x * Base) % Word = y * Base
  <2> DEFINE z == y * Base
             a == x * Base
  <2>1. a = Word * t + z /\ z \in 0..(Word - 1)
    BY <1>4, <1>5
  <2>2. a \in Nat
    BY <1>0, <1>1
  <2> HIDE DEF z, a
  <2>3. a % Word = z
    BY <1>0, <1>2, <2>1, <2>2, DivModUnique
  <2> QED
    BY <2>3 DEF z, a
<1> QED
  BY <1>0, <1>1, <1>2, <1>3, <1>5, <1>6 DEF x, t, y, ByteVal

\* A range that is too small is shifted without loss.
LEMMA RangeShift ==
  ASSUME NEW r \in 1..(Top - 1)
  PROVE  (r * Base) % Word = r * Base /\ r * Base \in 1..(Word - 1)
<1> USE RangeAssumption
<1> DEFINE a == r * Base
<1>0. Word \in Nat /\ Word > 0 /\ Word = Base * Top
      /\ Base \in Nat /\ Top \in Nat
  BY DEF Word
<1>1. (r + 1) * Base <= Top * Base /\ (r + 1) * Base = a + Base
      /\ a \in Nat /\ Top * Base = Base * Top
  BY <1>0, TimesMono
<1>2. a >= r
  BY <1>0
<1> HIDE DEF a
<1>3. a \in 0..(Word - 1) /\ a = Word * 0 + a
  BY <1>0, <1>1
<1>4. a % Word = a
  BY <1>0, <1>3, DivModUnique
<1> QED
  BY <1>2, <1>3, <1>4 DEF a

\* What shiftLow keeps for an interval of r at lo: a word that is not above
\* 2 * 2^32, and not above 2^32 where a carry would have nowhere to go.
LEMMA ShiftStep ==
  ASSUME TypeOK, NEW lo \in 0..(2 * Word - 1), ShiftLow(lo)
  PROVE  /\ out' \in Seq(ByteVal) /\ cache' \in ByteVal
         /\ cacheSize' \in Nat \ {0} /\ low' \in 0..(Word - 1)
         /\ \A r \in 1..(Top - 1) :
              lo + r <= 2 * Word =>
                /\ low' + r * Base <= 2 * Word
                /\ (cache = Base - 1 => lo + r <= Word) =>
                     (cache' = Base - 1 => low' + r * Base <= Word)
<1> USE RangeAssumption
<1> DEFINE x == lo % Word
           t == x \div Top
           y == x % Top
<1>0. Word \in Nat /\ Word = Base * Top /\ Base \in Nat /\ Top \in Nat
  BY DEF Word
<1>1. /\ x = (IF lo >= Word THEN lo - Word ELSE lo)
      /\ t \in ByteVal /\ y \in 0..(Top - 1) /\ x = Top * t + y
      /\ low' = y * Base /\ low' \in 0..(Word - 1)
  BY ShiftArith DEF ShiftLow
<1>2. \/ /\ lo >= Word \/ lo < (Base - 1) * Top
         /\ out' = out \o Settled(lo \div Word) /\ cache' = t /\ cacheSize' = 1
      \/ /\ lo < Word /\ lo >= (Base - 1) * Top
         /\ cacheSize' = cacheSize + 1 /\ out' = out /\ cache' = cache
  BY Zenon DEF ShiftLow
<1> HIDE DEF x, t, y
<1>3. out' \in Seq(ByteVal)
  <2>1. \A hi \in Nat : Settled(hi) \in Seq(ByteVal)
    <3> SUFFICES ASSUME NEW hi \in Nat PROVE Settled(hi) \in Seq(ByteVal)
      OBVIOUS
    <3>1. (cache + hi) % Base \in ByteVal /\ (Base - 1 + hi) % Base \in ByteVal
      BY SMTT(30), <1>0, DivMod DEF TypeOK, ByteVal
    <3>2. <<(cache + hi) % Base>> \in Seq(ByteVal)
      BY <3>1
    <3>3. cacheSize - 1 \in Nat
      BY DEF TypeOK
    <3>4. [i \in 1..(cacheSize - 1) |-> (Base - 1 + hi) % Base] \in Seq(ByteVal)
      BY <3>1, <3>3, IsASeq
    <3> QED
      BY <3>2, <3>4 DEF Settled
  <2>2. lo \div Word \in Nat
    BY <1>0, DivMod
  <2>3. Settled(lo \div Word) \in Seq(ByteVal) /\ out \in Seq(ByteVal)
    BY <2>1, <2>2 DEF TypeOK
  <2> DEFINE w == Settled(lo \div Word)
  <2>4. out \o w \in Seq(ByteVal)
    <3> HIDE DEF w
    <3>1. \A S : \A u, v \in Seq(S) : u \o v \in Seq(S)
      OBVIOUS
    <3> QED
      BY <2>3, <3>1 DEF w
  <2>5. out' = out \o w \/ out' = out
    BY <1>2
  <2> HIDE DEF w
  <2> QED
    BY <2>3, <2>4, <2>5
<1>4. ASSUME NEW r \in 1..(Top - 1), lo + r <= 2 * Word
      PROVE  low' + r * Base <= 2 * Word
  <2>1. y * Base <= Word /\ r * Base <= Word
    BY <1>0, <1>1, RangeShift
  <2> QED
    BY <1>0, <1>1, <2>1
<1>5. ASSUME NEW r \in 1..(Top - 1), lo + r <= 2 * Word,
             cache = Base - 1 => lo + r <= Word, cache' = Base - 1
      PROVE  low' + r * Base <= Word
  <2>1. ASSUME y + r <= Top PROVE low' + r * Base <= Word
    <3>1. (y + r) * Base <= Top * Base /\ (y + r) * Base = y * Base + r * Base
          /\ Top * Base = Base * Top
      BY <1>0, <1>1, <2>1, TimesMono
    <3> QED
      BY <1>0, <1>1, <3>1
  <2>2. (Base - 1) * Top = Word - Top
    BY <1>0
  <2>3. CASE lo >= Word \/ lo < (Base - 1) * Top
    <3>1. cache' = t
      BY <2>3, <2>2, <1>0, <1>2
    <3>2. x = Word - Top + y
      <4>1. Top * (Base - 1) = Word - Top
        BY <1>0
      <4> QED
        BY <4>1, <3>1, <1>1, <1>5
    <3>3. lo >= Word
      BY <2>2, <2>3, <3>2, <1>0, <1>1
    <3>4. y + r <= Top
      BY <3>2, <3>3, <1>0, <1>1, <1>5
    <3> QED
      BY <2>1, <3>4
  <2>4. CASE lo < Word /\ lo >= (Base - 1) * Top
    <3>1. cache' = cache /\ x = lo
      BY <2>4, <2>2, <1>0, <1>1, <1>2
    <3>2. t = Base - 1
      <4> SUFFICES ASSUME t <= Base - 2 PROVE FALSE
        BY <1>0, <1>1 DEF ByteVal
      <4>1. Top * t <= Top * (Base - 2) /\ Top * (Base - 2) = Word - 2 * Top
        BY <1>0, <1>1, TimesMono DEF ByteVal
      <4> QED
        <5> DEFINE a == Top * t
        <5>1. a <= Word - 2 * Top /\ x = a + y /\ a \in Int
          BY <4>1, <1>0, <1>1 DEF ByteVal
        <5> HIDE DEF a
        <5> QED
          BY <5>1, <3>1, <2>2, <2>4, <1>0, <1>1
    <3>3. x = Word - Top + y
      <4>1. Top * (Base - 1) = Word - Top
        BY <1>0
      <4> QED
        BY <4>1, <3>2, <1>1
    <3>4. y + r <= Top
      BY <3>1, <3>3, <1>0, <1>1, <1>5
    <3> QED
      BY <2>1, <3>4
  <2> QED
    BY <2>3, <2>4, <2>2, <1>0
<1>6. cache' \in ByteVal /\ cacheSize' \in Nat \ {0}
  <2>1. cache \in ByteVal /\ cacheSize \in Nat /\ cacheSize # 0 /\ t \in ByteVal
    BY <1>1 DEF TypeOK
  <2>2. (cache' = t /\ cacheSize' = 1) \/ (cache' = cache /\ cacheSize' = cacheSize + 1)
    BY <1>2
  <2> QED
    BY <2>1, <2>2
<1> QED
  BY <1>1, <1>3, <1>4, <1>5, <1>6
-----------------------------------------------------------------------------
(***************************************************************************)
(* The invariant: NoSecondCarry alone is not inductive, since a carry      *)
(* leaves a cache of 0xFF behind only because the interval never reached   *)
(* twice 2^32.                                                             *)
(***************************************************************************)
IInv == /\ TypeOK
        /\ Normalised
        /\ NoSecondCarry
        /\ ~ended => low + rrange <= 2 * Word /\ left = 0

\* Narrowing the interval to a part of itself that one shift can bring back.
LEMMA NarrowStep ==
  ASSUME IInv, ~ended, NEW lo \in Nat, NEW r \in 1..(Word - 1),
         low <= lo, lo + r <= low + rrange, r * Base >= Top, Narrow(lo, r)
  PROVE  /\ low' \in 0..(2 * Word - 1) /\ rrange' \in Top..(Word - 1)
         /\ cache' \in ByteVal /\ cacheSize' \in Nat \ {0}
         /\ out' \in Seq(ByteVal) /\ exact' \in Nat
         /\ low' + rrange' <= 2 * Word
         /\ cache' = Base - 1 => low' + rrange' <= Word
<1> USE RangeAssumption
<1>0. Word \in Nat /\ Base \in Nat /\ Top \in Nat /\ TypeOK
      /\ low \in Nat /\ rrange \in Nat /\ exact \in Nat
  BY DEF Word, IInv, TypeOK
<1>1. /\ lo + r <= 2 * Word /\ (cache = Base - 1 => lo + r <= Word)
      /\ lo \in 0..(2 * Word - 1)
  BY <1>0 DEF IInv, NoSecondCarry
<1>2. exact + lo - low \in Nat /\ (exact + lo - low) * Base \in Nat
  <2>1. exact + lo - low \in Nat
    BY <1>0
  <2> QED
    BY <1>0, <2>1, TimesMono
<1>3. CASE r < Top
  <2>1. /\ rrange' = (r * Base) % Word /\ ShiftLow(lo)
        /\ exact' = (exact + lo - low) * Base
    BY <1>3 DEF Narrow
  <2>2. r \in 1..(Top - 1)
    BY <1>0, <1>3
  <2>3. rrange' = r * Base /\ rrange' \in Top..(Word - 1)
    BY <1>0, <2>1, <2>2, RangeShift
  <2>4. /\ out' \in Seq(ByteVal) /\ cache' \in ByteVal
        /\ cacheSize' \in Nat \ {0} /\ low' \in 0..(Word - 1)
        /\ low' + r * Base <= 2 * Word
        /\ cache' = Base - 1 => low' + r * Base <= Word
    BY <1>0, <1>1, <2>1, <2>2, ShiftStep
  <2>5. exact' \in Nat
    BY <1>2, <2>1
  <2>6. low' + rrange' <= 2 * Word /\ (cache' = Base - 1 => low' + rrange' <= Word)
    BY <2>3, <2>4, Zenon
  <2>7. low' \in 0..(2 * Word - 1)
    BY <1>0, <2>4
  <2> QED
    BY <2>3, <2>4, <2>5, <2>6, <2>7
<1>4. CASE r >= Top
  <2>1. /\ rrange' = r /\ low' = lo /\ exact' = exact + lo - low
        /\ cache' = cache /\ cacheSize' = cacheSize /\ out' = out
    BY <1>0, <1>4 DEF Narrow
  <2> QED
    BY <1>0, <1>1, <1>2, <1>4, <2>1 DEF TypeOK
<1> QED
  BY <1>0, <1>3, <1>4

LEMMA InitIInv == EncInit => IInv
<1> SUFFICES ASSUME EncInit PROVE IInv
  OBVIOUS
<1>0. Word \in Nat /\ Word >= 2 * Top /\ Top >= 2 /\ Word = Base * Top
  <2>1. Top >= 2 /\ Top \in Nat
    BY RangeAssumption
  <2>2. 2 * Top <= Base * Top
    BY <2>1, RangeAssumption, TimesMono
  <2> QED
    BY <2>1, <2>2, RangeAssumption DEF Word
<1>1. ModelTotal \div 2 \in MinProb..MaxProb
  BY RangeAssumption DEF MinProb, MaxProb
<1>2. TypeOK
  <2>1. probs \in [Ctx -> MinProb..MaxProb]
    BY <1>1 DEF EncInit
  <2>2. cache \in ByteVal /\ low \in 0..(2 * Word - 1) /\ rrange \in 0..(Word - 1)
    BY <1>0, RangeAssumption DEF EncInit, ByteVal
  <2>3. left \in 0..(NumBytes + 1)
    BY RangeAssumption DEF EncInit
  <2>4. cacheSize \in Nat \ {0} /\ exact \in Nat
    BY DEF EncInit
  <2>6. ended \in BOOLEAN
    BY Zenon DEF EncInit
  <2>5. out \in Seq(ByteVal) /\ sent \in Seq([ctx : Ctx \cup {Direct}, bit : {0, 1}])
    BY DEF EncInit
  <2> QED
    BY <2>1, <2>2, <2>3, <2>4, <2>5, <2>6 DEF TypeOK
<1>3. Normalised /\ NoSecondCarry /\ (~ended => low + rrange <= 2 * Word /\ left = 0)
  BY <1>0, RangeAssumption DEF EncInit, Normalised, NoSecondCarry
<1> QED
  BY <1>2, <1>3 DEF IInv

LEMMA NextIInv == ASSUME IInv, [EncNext]_encVars PROVE IInv'
<1>0. /\ Word \in Nat /\ Base \in Nat /\ Top \in Nat /\ Top >= 2
      /\ NumBytes \in Nat
      /\ TypeOK /\ low \in Nat /\ rrange \in Top..(Word - 1)
  BY RangeAssumption DEF Word, IInv, TypeOK, Normalised
<1>1. ASSUME NEW c \in Ctx, NEW bit \in {0, 1}, Encode(c, bit)
      PROVE  IInv'
  <2> DEFINE b == Bound(rrange, probs[c])
             lo == IF bit = 0 THEN low ELSE low + b
             r == IF bit = 0 THEN b ELSE rrange - b
  <2>1. probs[c] \in MinProb..MaxProb
    BY <1>0 DEF TypeOK
  <2>2. b \in 1..(rrange - 1) /\ b * Base >= Top /\ (rrange - b) * Base >= Top
    BY <1>0, <2>1, BoundSplit
  <2>3. Narrow(lo, r) /\ ~ended /\ UNCHANGED <<left, ended>>
        /\ probs' = [probs EXCEPT ![c] = Moved(@, bit)]
        /\ sent' = Append(sent, [ctx |-> c, bit |-> bit])
    BY <1>1 DEF Encode
  <2> HIDE DEF b
  <2>4. /\ lo \in Nat /\ r \in 1..(Word - 1) /\ low <= lo
        /\ lo + r <= low + rrange /\ r * Base >= Top
    BY <1>0, <2>2
  <2> HIDE DEF lo, r
  <2>5. /\ low' \in 0..(2 * Word - 1) /\ rrange' \in Top..(Word - 1)
        /\ cache' \in ByteVal /\ cacheSize' \in Nat \ {0}
        /\ out' \in Seq(ByteVal) /\ exact' \in Nat
        /\ low' + rrange' <= 2 * Word
        /\ cache' = Base - 1 => low' + rrange' <= Word
    BY <2>3, <2>4, NarrowStep
  <2>6. probs' \in [Ctx -> MinProb..MaxProb]
    BY <1>0, <2>1, <2>3, MovedBounds DEF TypeOK
  <2>7. sent' \in Seq([ctx : Ctx \cup {Direct}, bit : {0, 1}])
    <3>1. [ctx |-> c, bit |-> bit] \in [ctx : Ctx \cup {Direct}, bit : {0, 1}]
      OBVIOUS
    <3> QED
      BY <1>0, <2>3, <3>1 DEF TypeOK
  <2>8. TypeOK'
    BY <1>0, <2>3, <2>5, <2>6, <2>7 DEF TypeOK
  <2>9. /\ Normalised' /\ NoSecondCarry'
        /\ (~ended => low + rrange <= 2 * Word /\ left = 0)'
    <3>0. low' \in Nat /\ rrange' \in Nat /\ rrange' >= Top /\ rrange' >= 2
      BY <1>0, <2>5
    <3>1. cache' = Base - 1 => low' < Word
      BY <1>0, <2>5, <3>0, SumBelow
    <3>2. left' = left /\ (ended' <=> ended)
      BY <2>3
    <3>3. left = 0
      BY <2>3 DEF IInv
    <3> QED
      BY <3>0, <3>1, <3>2, <3>3, <2>5, Zenon DEF Normalised, NoSecondCarry
  <2> QED
    BY <2>8, <2>9 DEF IInv
<1>2. ASSUME NEW bit \in {0, 1}, EncodeDirect(bit)
      PROVE  IInv'
  <2> DEFINE r == rrange \div 2
             lo == low + bit * r
  <2>1. r \in 1..(rrange - 1) /\ r * Base >= Top /\ 2 * r <= rrange
    BY <1>0, HalfSplit
  <2>2. Narrow(lo, r) /\ ~ended /\ UNCHANGED <<probs, left, ended>>
        /\ sent' = Append(sent, [ctx |-> Direct, bit |-> bit])
    BY <1>2 DEF EncodeDirect
  <2> HIDE DEF r
  <2>3. /\ lo \in Nat /\ r \in 1..(Word - 1) /\ low <= lo
        /\ lo + r <= low + rrange
    BY <1>0, <2>1
  <2> HIDE DEF lo
  <2>4. /\ low' \in 0..(2 * Word - 1) /\ rrange' \in Top..(Word - 1)
        /\ cache' \in ByteVal /\ cacheSize' \in Nat \ {0}
        /\ out' \in Seq(ByteVal) /\ exact' \in Nat
        /\ low' + rrange' <= 2 * Word
        /\ cache' = Base - 1 => low' + rrange' <= Word
    BY <2>1, <2>2, <2>3, NarrowStep
  <2>5. sent' \in Seq([ctx : Ctx \cup {Direct}, bit : {0, 1}])
    <3>1. [ctx |-> Direct, bit |-> bit] \in [ctx : Ctx \cup {Direct}, bit : {0, 1}]
      OBVIOUS
    <3> QED
      BY <1>0, <2>2, <3>1 DEF TypeOK
  <2>8. TypeOK'
    BY <1>0, <2>2, <2>4, <2>5 DEF TypeOK
  <2>9. /\ Normalised' /\ NoSecondCarry'
        /\ (~ended => low + rrange <= 2 * Word /\ left = 0)'
    <3>0. low' \in Nat /\ rrange' \in Nat /\ rrange' >= Top /\ rrange' >= 2
      BY <1>0, <2>4
    <3>1. cache' = Base - 1 => low' < Word
      BY <1>0, <2>4, <3>0, SumBelow
    <3>2. left' = left /\ (ended' <=> ended)
      BY <2>2
    <3>3. left = 0
      BY <2>2 DEF IInv
    <3> QED
      BY <3>0, <3>1, <3>2, <3>3, <2>4, Zenon DEF Normalised, NoSecondCarry
  <2> QED
    BY <2>8, <2>9 DEF IInv
<1>3. ASSUME StartFlush
      PROVE  IInv'
  BY <1>0, <1>3 DEF StartFlush, IInv, TypeOK, Normalised, NoSecondCarry
<1>4. ASSUME FlushByte
      PROVE  IInv'
  <2>1. left > 0 /\ ShiftLow(low) /\ left' = left - 1 /\ exact' = exact * Base
        /\ UNCHANGED <<rrange, probs, ended, sent>>
    BY <1>4 DEF FlushByte
  <2>2. ended = TRUE /\ low \in 0..(2 * Word - 1)
    BY <1>0, <2>1 DEF IInv, TypeOK
  <2>3. /\ out' \in Seq(ByteVal) /\ cache' \in ByteVal
        /\ cacheSize' \in Nat \ {0} /\ low' \in 0..(Word - 1)
    BY <1>0, <2>1, <2>2, ShiftStep
  <2>4. exact' \in Nat
    BY <1>0, <2>1, TimesMono DEF TypeOK
  <2> QED
    BY <1>0, <2>1, <2>2, <2>3, <2>4 DEF IInv, TypeOK, Normalised, NoSecondCarry
<1>5. CASE UNCHANGED encVars
  BY <1>0, <1>5 DEF encVars, IInv, TypeOK, Normalised, NoSecondCarry
<1> QED
  BY <1>1, <1>2, <1>3, <1>4, <1>5 DEF EncNext

LEMMA Invariance == EncSpec => []IInv
<1>1. IInv /\ [EncNext]_encVars => IInv'
  BY NextIInv
<1> QED
  BY <1>1, InitIInv, PTL DEF EncSpec
-----------------------------------------------------------------------------
\* Every variable of the encoder stays in its width: in particular low never
\* needs more than the 33 bits that shiftLow looks at, and a probability never
\* reaches 0 or kBitModelTotal.
THEOREM Typing == EncSpec => []TypeOK
<1>1. IInv => TypeOK
  BY DEF IInv
<1> QED
  BY <1>1, Invariance, PTL

\* The single conditional shift of encode and encodeDirectBits always brings
\* the range back to kTopValue.
THEOREM OneShiftIsEnough == EncSpec => []Normalised
<1>1. IInv => Normalised
  BY DEF IInv
<1> QED
  BY <1>1, Invariance, PTL

\* byte(temp + lowHi) never drops a carry.
THEOREM CarryFits == EncSpec => []NoSecondCarry
<1>1. IInv => NoSecondCarry
  BY DEF IInv
<1> QED
  BY <1>1, Invariance, PTL

\* The widths of the code satisfy the arithmetic conjuncts of RangeAssumption.
THEOREM CodeWidths ==
  /\ 2048 >= 2 * 32 - 2 /\ 2048 <= 16777216 /\ 16777216 % 2 = 0
  /\ (16777216 \div 2048) * (32 - 1) * 256 >= 16777216
OBVIOUS
-----------------------------------------------------------------------------
(***************************************************************************)
(* The number that a sequence of bytes makes. Each induction is over a set *)
(* of naturals: it would have a least member.                              *)
(***************************************************************************)
LEMMA Least ==
  ASSUME NEW T, T \subseteq Nat, T # {}
  PROVE  \E x \in T : \A y \in T : x <= y
<1>1. PICK x \in T : \A y \in T : ~ (<<y, x>> \in OpToRel(<, Nat))
  BY NatLessThanWellFounded, WFMin
<1>2. \A y \in T : ~(y < x)
  BY <1>1 DEF OpToRel
<1> QED
  BY <1>2

\* The equation of v in Value, for the first n bytes of s.
Sums(v, s, n) == v[0] = 0 /\ \A i \in 1..n : v[i] = v[i - 1] * Base + s[i]

LEMMA SumsExist ==
  ASSUME NEW s \in Seq(Nat), NEW n \in 0..Len(s)
  PROVE  \E v \in [0..n -> Nat] : Sums(v, s, n)
<1> DEFINE T == {i \in 0..Len(s) : ~\E v \in [0..i -> Nat] : Sums(v, s, i)}
<1>0. Len(s) \in Nat /\ Base \in Nat /\ \A i \in 1..Len(s) : s[i] \in Nat
  BY RangeAssumption, SMTT(30)
<1>1. ASSUME T # {} PROVE FALSE
  <2>1. PICK i \in T : \A j \in T : i <= j
    <3>1. T \subseteq Nat
      OBVIOUS
    <3> HIDE DEF T
    <3> QED
      BY <1>1, <3>1, Least
  <2>2. CASE i = 0
    <3>1. Sums([k \in 0..0 |-> 0], s, 0)
      BY DEF Sums
    <3> QED
      BY <2>2, <3>1
  <2>3. CASE i # 0
    <3>1. i - 1 \in 0..Len(s) /\ i - 1 \notin T /\ i \in 1..Len(s)
      <4>1. i \in 0..Len(s)
        BY <2>1
      <4>2. i - 1 \in 0..Len(s) /\ i \in 1..Len(s) /\ ~(i <= i - 1)
        BY <1>0, <2>3, <4>1
      <4> HIDE DEF T
      <4> QED
        BY <2>1, <4>2
    <3>2. PICK v \in [0..(i - 1) -> Nat] : Sums(v, s, i - 1)
      BY <3>1
    <3> DEFINE last == v[i - 1] * Base + s[i]
               w == [k \in 0..i |-> IF k = i THEN last ELSE v[k]]
    <3>3. last \in Nat
      <4>1. v[i - 1] \in Nat /\ s[i] \in Nat
        BY <1>0, <3>1, <3>2
      <4>2. \A a, b, c \in Nat : a * b + c \in Nat
        OBVIOUS
      <4> QED
        BY <1>0, <4>1, <4>2
    <3> HIDE DEF last
    <3>4. w \in [0..i -> Nat]
      BY <3>1, <3>3
    <3>5. w[0] = 0
      BY <3>1, <3>2 DEF Sums
    <3>6. \A k \in 1..i : w[k] = w[k - 1] * Base + s[k]
      <4>1. ASSUME NEW k \in 1..(i - 1) PROVE w[k] = w[k - 1] * Base + s[k]
        <5>1. k \in 0..i /\ k - 1 \in 0..i /\ k # i /\ k - 1 # i
          BY <1>0, <3>1
        <5>2. w[k] = v[k] /\ w[k - 1] = v[k - 1]
          BY <5>1
        <5> QED
          BY <3>2, <5>2 DEF Sums
      <4>2. w[i] = w[i - 1] * Base + s[i]
        BY <3>1 DEF last
      <4> QED
        <5>1. \A k \in 1..i : k = i \/ k \in 1..(i - 1)
          BY <1>0, <3>1
        <5> HIDE DEF w
        <5> QED
          BY <4>1, <4>2, <5>1
    <3> QED
      BY <3>4, <3>5, <3>6 DEF Sums
  <2> QED
    BY <2>2, <2>3
<1> QED
  BY <1>1

LEMMA SumsSame ==
  ASSUME NEW s, NEW t, NEW n \in Nat, NEW v, NEW w,
         Sums(v, s, n), Sums(w, t, n), \A i \in 1..n : s[i] = t[i]
  PROVE  v[n] = w[n]
<1> DEFINE T == {i \in 0..n : v[i] # w[i]}
<1>1. ASSUME T # {} PROVE FALSE
  <2>1. PICK i \in T : \A j \in T : i <= j
    <3>1. T \subseteq Nat
      OBVIOUS
    <3> HIDE DEF T
    <3> QED
      BY <1>1, <3>1, Least
  <2>2. i # 0
    BY <2>1 DEF Sums
  <2>3. i \in 1..n /\ i - 1 \notin T /\ i - 1 \in 0..n
    BY <2>1, <2>2
  <2> QED
    BY <2>1, <2>3 DEF Sums
<1> QED
  BY <1>1

LEMMA ValueIs ==
  ASSUME NEW s \in Seq(Nat), NEW v, Sums(v, s, Len(s))
  PROVE  Value(s) = v[Len(s)] /\ v[Len(s)] \in Nat
<1>1. PICK f \in [0..Len(s) -> Nat] : Sums(f, s, Len(s))
  BY SumsExist
<1>2. v[Len(s)] = f[Len(s)]
  BY <1>1, SumsSame
<1> DEFINE Rec(g) == [i \in 0..Len(s) |-> IF i = 0 THEN 0 ELSE g[i - 1] * Base + s[i]]
           g == CHOOSE g : g = Rec(g)
<1>3. f = Rec(f)
  <2>1. \A i \in 0..Len(s) : f[i] = Rec(f)[i]
    BY <1>1 DEF Sums
  <2> QED
    BY <2>1
<1>4. g = Rec(g)
  BY <1>3
<1>5. Sums(g, s, Len(s))
  <2>1. \A i \in 0..Len(s) : g[i] = IF i = 0 THEN 0 ELSE g[i - 1] * Base + s[i]
    BY <1>4
  <2>2. 0 \in 0..Len(s) /\ \A i \in 1..Len(s) : i \in 0..Len(s) /\ i # 0
    OBVIOUS
  <2> HIDE DEF g
  <2> QED
    BY <2>1, <2>2 DEF Sums
<1>6. Value(s) = g[Len(s)]
  BY DEF Value
<1> QED
  BY SMTT(30), <1>1, <1>2, <1>5, <1>6, SumsSame

LEMMA ValueIsNat == ASSUME NEW s \in Seq(Nat) PROVE Value(s) \in Nat
BY SumsExist, ValueIs

LEMMA ValueEmpty == Value(<< >>) = 0
<1>1. << >> \in Seq(Nat) /\ Len(<< >>) = 0
  OBVIOUS
<1> DEFINE v == [k \in {0} |-> 0]
<1>2. Sums(v, << >>, Len(<< >>)) /\ v[0] = 0
  BY <1>1 DEF Sums
<1> HIDE DEF v
<1> QED
  BY <1>1, <1>2, ValueIs

\* One more byte.
LEMMA ValueAppend ==
  ASSUME NEW s \in Seq(Nat), NEW b \in Nat
  PROVE  Value(Append(s, b)) = Value(s) * Base + b
<1> DEFINE t == Append(s, b)
           n == Len(s)
<1>1. /\ t \in Seq(Nat) /\ Len(t) = n + 1 /\ n \in Nat
      /\ \A i \in 1..n : t[i] = s[i] /\ t[n + 1] = b
  OBVIOUS
<1>2. PICK v \in [0..(n + 1) -> Nat] : Sums(v, t, n + 1)
  BY <1>1, SumsExist, SMTT(30)
<1> HIDE DEF t
<1>3. Sums(v, t, n)
  BY <1>1, <1>2 DEF Sums
<1>4. Sums(v, s, n)
  BY <1>1, <1>3 DEF Sums
<1>5. Value(s) = v[n]
  BY <1>4, ValueIs
<1>6. Value(t) = v[n + 1]
  BY <1>1, <1>2, ValueIs
<1>7. v[n + 1] = v[n] * Base + t[n + 1] /\ t[n + 1] = b
  <2>1. n + 1 \in 1..(n + 1) /\ (n + 1) - 1 = n
    BY <1>1
  <2>2. v[n + 1] = v[(n + 1) - 1] * Base + t[n + 1]
    BY <1>2, <2>1 DEF Sums
  <2>3. Append(s, b)[n + 1] = b
    OBVIOUS
  <2> QED
    BY <2>1, <2>2, <2>3 DEF t
<1> QED
  BY <1>5, <1>6, <1>7 DEF t

LEMMA ValueOfFour ==
  ASSUME NEW d \in Nat
  PROVE  Value(<<d, d, d, d>>) = ((d * Base + d) * Base + d) * Base + d
<1>1. /\ << >> \in Seq(Nat) /\ <<d>> \in Seq(Nat)
      /\ <<d, d>> \in Seq(Nat) /\ <<d, d, d>> \in Seq(Nat)
  OBVIOUS
<1>2. /\ <<d>> = Append(<< >>, d) /\ <<d, d>> = Append(<<d>>, d)
      /\ <<d, d, d>> = Append(<<d, d>>, d)
      /\ <<d, d, d, d>> = Append(<<d, d, d>>, d)
  OBVIOUS
<1>3. 0 * Base + d = d
  BY RangeAssumption
<1>4. Value(<<d>>) = d
  BY <1>1, <1>2, <1>3, ValueAppend, ValueEmpty
<1>5. Value(<<d, d>>) = d * Base + d
  BY <1>1, <1>2, <1>4, ValueAppend
<1>6. Value(<<d, d, d>>) = (d * Base + d) * Base + d
  BY <1>1, <1>2, <1>5, ValueAppend
<1> QED
  BY <1>1, <1>2, <1>6, ValueAppend

\* The widths in range_coder.go (bytes, words of four of them, kTopValue 2^24)
\* meet WordAssumption.
THEOREM CodeWord ==
  Base = 256 /\ NumBytes = 4 /\ Top = 16777216
    => Value([i \in 1..NumBytes |-> Base - 1]) = Word - 1
<1>1. SUFFICES ASSUME Base = 256, NumBytes = 4, Top = 16777216
               PROVE  Value([i \in 1..NumBytes |-> Base - 1]) = Word - 1
  OBVIOUS
<1>2. Value(<<255, 255, 255, 255>>) = ((255 * Base + 255) * Base + 255) * Base + 255
  BY ONLY ValueOfFour, SMTT(30)
<1>3. [i \in 1..NumBytes |-> Base - 1] = <<255, 255, 255, 255>>
  BY ONLY Base = 256, NumBytes = 4, SMTT(30)
<1>4. ((255 * 256 + 255) * 256 + 255) * 256 + 255 = 256 * 16777216 - 1
  BY ONLY SMTT(30)
<1>5. Word = 256 * 16777216
  BY ONLY Base = 256, Top = 16777216, SMTT(30) DEF Word
<1>6. Value(<<255, 255, 255, 255>>) = ((255 * 256 + 255) * 256 + 255) * 256 + 255
  BY ONLY Base = 256, <1>2, SMTT(30)
<1>7. Value(<<255, 255, 255, 255>>) = Word - 1
  BY ONLY <1>4, <1>5, <1>6, SMTT(30)
<1> QED
  BY ONLY <1>3, <1>7, Zenon

\* s followed by the byte d, k times.
Run(s, d, k) == s \o [i \in 1..k |-> d]

LEMMA RunGrows ==
  ASSUME NEW s \in Seq(Nat), NEW d \in Nat, NEW k \in Nat
  PROVE  /\ Run(s, d, k) \in Seq(Nat)
         /\ Run(s, d, 0) = s
         /\ Run(s, d, k + 1) = Append(Run(s, d, k), d)
<1> DEFINE e(n) == [i \in 1..n |-> d]
<1>1. \A n \in Nat : e(n) \in Seq(Nat) /\ Len(e(n)) = n
  OBVIOUS
<1>2. e(0) = << >>
  OBVIOUS
<1>3. Run(s, d, 0) = s
  BY <1>2 DEF Run
<1>4. Run(s, d, k) \in Seq(Nat)
  BY <1>1 DEF Run
<1>5. e(k + 1) = Append(e(k), d)
  OBVIOUS
<1>6. \A u \in Seq(Nat) : s \o Append(u, d) = Append(s \o u, d)
  OBVIOUS
<1> HIDE DEF e
<1>7. s \o e(k + 1) = Append(s \o e(k), d)
  BY <1>1, <1>5, <1>6
<1> QED
  BY <1>3, <1>4, <1>7 DEF Run, e

\* Base to the k: a 1 and k zeros.
Pow(k) == Value(Run(<<1>>, 0, k))

LEMMA PowGrows ==
  ASSUME NEW k \in Nat
  PROVE  Pow(0) = 1 /\ Pow(k) \in Nat /\ Pow(k + 1) = Pow(k) * Base
<1>1. <<1>> \in Seq(Nat) /\ <<1>> = Append(<< >>, 1) /\ << >> \in Seq(Nat)
  OBVIOUS
<1>2. Pow(0) = 1
  <2>1. Value(<<1>>) = 0 * Base + 1
    BY <1>1, ValueAppend, ValueEmpty
  <2>2. 0 * Base + 1 = 1
    BY RangeAssumption
  <2> QED
    BY <1>1, <2>1, <2>2, RunGrows DEF Pow
<1>3. Pow(k) \in Nat
  BY <1>1, RunGrows, ValueIsNat DEF Pow
<1>4. Pow(k + 1) = Pow(k) * Base + 0
  BY <1>1, RunGrows, ValueAppend DEF Pow
<1>5. Pow(k) * Base \in Nat
  BY <1>3, RangeAssumption
<1> QED
  BY <1>2, <1>3, <1>4, <1>5

\* Zeros multiply; full bytes do too, of the number that is one more.
LEMMA Runs ==
  ASSUME NEW s \in Seq(Nat), NEW k \in Nat
  PROVE  /\ Value(Run(s, 0, k)) = Value(s) * Pow(k)
         /\ Value(Run(s, Base - 1, k)) + 1 = (Value(s) + 1) * Pow(k)
<1> DEFINE Zeros(i) == Value(Run(s, 0, i)) = Value(s) * Pow(i)
           Full(i) == Value(Run(s, Base - 1, i)) + 1 = (Value(s) + 1) * Pow(i)
           T == {i \in Nat : ~(Zeros(i) /\ Full(i))}
<1>0. Base \in Nat /\ Base - 1 \in Nat /\ 0 \in Nat /\ Value(s) \in Nat
  BY RangeAssumption, ValueIsNat
<1>1. Zeros(0) /\ Full(0)
  <2>1. Run(s, 0, 0) = s /\ Run(s, Base - 1, 0) = s
    BY <1>0, RunGrows
  <2>2. Pow(0) = 1
    BY PowGrows
  <2> QED
    BY <1>0, <2>1, <2>2
<1>2. ASSUME NEW i \in Nat, Zeros(i), Full(i) PROVE Zeros(i + 1) /\ Full(i + 1)
  <2> DEFINE z == Value(Run(s, 0, i))
             f == Value(Run(s, Base - 1, i))
             p == Pow(i)
             v == Value(s)
  <2>1. z \in Nat /\ f \in Nat /\ p \in Nat /\ v \in Nat
    BY <1>0, RunGrows, ValueIsNat, PowGrows
  <2>2. Value(Run(s, 0, i + 1)) = z * Base + 0
    BY <1>0, RunGrows, ValueAppend
  <2>3. Value(Run(s, Base - 1, i + 1)) = f * Base + (Base - 1)
    BY <1>0, RunGrows, ValueAppend
  <2>4. Pow(i + 1) = p * Base
    BY PowGrows
  <2>5. z = v * p /\ f + 1 = (v + 1) * p
    BY <1>2
  <2> HIDE DEF z, f, p, v
  <2>6. z * Base + 0 = v * (p * Base)
    BY <1>0, <2>1, <2>5
  <2>7. f * Base + (Base - 1) + 1 = (v + 1) * (p * Base)
    <3>1. f * Base + (Base - 1) + 1 = (f + 1) * Base
      BY <1>0, <2>1
    <3>2. ((v + 1) * p) * Base = (v + 1) * (p * Base)
      BY <1>0, <2>1
    <3> QED
      BY <2>5, <3>1, <3>2
  <2> QED
    BY <2>2, <2>3, <2>4, <2>6, <2>7 DEF v
<1> HIDE DEF Zeros, Full
<1>3. ASSUME T # {} PROVE FALSE
  <2>1. T \subseteq Nat
    OBVIOUS
  <2>2. PICK i \in T : \A j \in T : i <= j
    <3> HIDE DEF T
    <3> QED
      BY <1>3, <2>1, Least
  <2>3. i # 0
    BY <1>1, <2>2
  <2>4. i - 1 \in Nat /\ i - 1 \notin T
    <3>1. i \in Nat
      BY <2>2
    <3>2. i - 1 \in Nat /\ ~(i <= i - 1)
      BY <2>3, <3>1
    <3> HIDE DEF T
    <3> QED
      BY <2>2, <3>2
  <2>5. Zeros((i - 1) + 1) /\ Full((i - 1) + 1)
    BY <1>2, <2>4
  <2>6. (i - 1) + 1 = i
    BY <2>2
  <2> QED
    BY <2>2, <2>5, <2>6
<1>4. Zeros(k) /\ Full(k)
  BY <1>3
<1> QED
  BY <1>4 DEF Zeros, Full

\* A word has as many values as NumBytes bytes.
LEMMA WordIsPow == NumBytes \in Nat /\ Pow(NumBytes) = Word
<1> DEFINE e == [i \in 1..NumBytes |-> Base - 1]
<1>1. NumBytes \in Nat /\ Base - 1 \in Nat /\ Word \in Nat /\ << >> \in Seq(Nat)
  BY RangeAssumption DEF Word
<1>2. e \in Seq(Nat)
  BY <1>1
<1>3. << >> \o e = e
  BY <1>2
<1>4. Value(Run(<< >>, Base - 1, NumBytes)) + 1 = (0 + 1) * Pow(NumBytes)
  BY <1>1, Runs, ValueEmpty
<1>5. Value(e) + 1 = Pow(NumBytes)
  BY <1>1, <1>3, <1>4, PowGrows DEF Run
<1> QED
  BY <1>1, <1>5, WordAssumption

LEMMA PowAdds ==
  ASSUME NEW a \in Nat, NEW b \in Nat
  PROVE  Pow(a + b) = Pow(a) * Pow(b)
<1>1. <<1>> \in Seq(Nat)
  OBVIOUS
<1>2. Run(<<1>>, 0, a) \in Seq(Nat)
  BY <1>1, RunGrows
<1>3. Run(Run(<<1>>, 0, a), 0, b) = Run(<<1>>, 0, a + b)
  BY DEF Run
<1> QED
  BY <1>2, <1>3, Runs DEF Pow

LEMMA PowPositive == ASSUME NEW k \in Nat PROVE Pow(k) \in Nat \ {0}
<1>1. Pow(k) \in Nat /\ << >> \in Seq(Nat) /\ Base - 1 \in Nat
  BY PowGrows, RangeAssumption
<1>2. Value(Run(<< >>, Base - 1, k)) + 1 = (0 + 1) * Pow(k)
  BY <1>1, Runs, ValueEmpty
<1>3. Value(Run(<< >>, Base - 1, k)) \in Nat
  BY <1>1, RunGrows, ValueIsNat
<1> QED
  BY <1>1, <1>2, <1>3
-----------------------------------------------------------------------------
(***************************************************************************)
(* The encoder: no carry is lost.                                          *)
(***************************************************************************)

\* The value of out and cache, plus one.
LEMMA LastDigit ==
  ASSUME NEW v \in Nat, NEW b \in Nat, NEW c \in Nat
  PROVE  v * b + c + 1 \in Nat
OBVIOUS

\* What CarryExact says, the pending bytes counted instead of written out.
Carries(e, lo) ==
  e + Word = (Value(out) * Base + cache + 1) * Pow(cacheSize - 1) * Word + lo

Carried == Carries(exact, low)

\* How often low has been shifted: each time a byte has come out of it.
Shifts == Len(out) + cacheSize - 1

Pending == [i \in 1..(cacheSize - 1) |-> Base - 1]

LEMMA ValuePending ==
  ASSUME TypeOK
  PROVE  /\ Value(out \o <<cache>> \o Pending) + 1
              = (Value(out) * Base + cache + 1) * Pow(cacheSize - 1)
         /\ cache + 1 < Base =>
              Value(out \o <<cache + 1>> \o [i \in 1..(cacheSize - 1) |-> 0])
                = (Value(out) * Base + cache + 1) * Pow(cacheSize - 1)
<1>1. /\ out \in Seq(Nat) /\ cache \in Nat /\ cacheSize - 1 \in Nat /\ Base \in Nat
  BY SMTT(30), RangeAssumption DEF TypeOK, ByteVal
<1>2. \A b \in Nat : /\ out \o <<b>> = Append(out, b) /\ Append(out, b) \in Seq(Nat)
                     /\ Value(Append(out, b)) = Value(out) * Base + b
  BY <1>1, ValueAppend
<1>3. Value(Run(Append(out, cache), Base - 1, cacheSize - 1)) + 1
        = (Value(out) * Base + cache + 1) * Pow(cacheSize - 1)
  <2>1. /\ Append(out, cache) \in Seq(Nat)
        /\ Value(Append(out, cache)) = Value(out) * Base + cache
    BY <1>1, <1>2
  <2>2. Base - 1 \in Nat
    BY RangeAssumption
  <2>3. Value(Run(Append(out, cache), Base - 1, cacheSize - 1)) + 1
          = (Value(Append(out, cache)) + 1) * Pow(cacheSize - 1)
    BY <1>1, <2>1, <2>2, Runs
  <2> QED
    BY <2>1, <2>3
<1>4. Value(Run(Append(out, cache + 1), 0, cacheSize - 1))
        = (Value(out) * Base + cache + 1) * Pow(cacheSize - 1)
  <2>1. cache + 1 \in Nat
    BY <1>1
  <2>2. /\ Append(out, cache + 1) \in Seq(Nat)
        /\ Value(Append(out, cache + 1)) = Value(out) * Base + (cache + 1)
    BY <1>2, <2>1
  <2>3. Value(out) * Base + (cache + 1) = Value(out) * Base + cache + 1
    <3>1. Value(out) * Base \in Nat
      BY <1>1, ValueIsNat
    <3> QED
      BY <1>1, <3>1
  <2>4. Value(Run(Append(out, cache + 1), 0, cacheSize - 1))
          = Value(Append(out, cache + 1)) * Pow(cacheSize - 1)
    BY <1>1, <2>2, Runs
  <2> QED
    BY <2>2, <2>3, <2>4
<1>5. out \o <<cache>> \o Pending = Run(Append(out, cache), Base - 1, cacheSize - 1)
  BY <1>1, <1>2 DEF Run, Pending
<1>6. out \o <<cache + 1>> \o [i \in 1..(cacheSize - 1) |-> 0]
        = Run(Append(out, cache + 1), 0, cacheSize - 1)
  BY SMTT(30), <1>1, <1>2 DEF Run
<1> QED
  BY <1>3, <1>4, <1>5, <1>6

LEMMA CarriedIsExact == TypeOK /\ Carried => CarryExact
<1> SUFFICES ASSUME TypeOK, Carried PROVE CarryExact
  OBVIOUS
<1> DEFINE a == (Value(out) * Base + cache + 1) * Pow(cacheSize - 1)
           d == Value(out \o <<cache>> \o Pending)
<1>1. d + 1 = a
  BY ValuePending
<1>2. out \o <<cache>> \o Pending \in Seq(Nat)
  <2>1. out \in Seq(Nat) /\ <<cache>> \in Seq(Nat) /\ cacheSize - 1 \in Nat /\ Base - 1 \in Nat
    BY SMTT(30), RangeAssumption DEF TypeOK, ByteVal
  <2>2. Pending \in Seq(Nat)
    BY <2>1 DEF Pending
  <2> QED
    BY <2>1, <2>2
<1>3. d \in Nat /\ Word \in Nat /\ exact \in Nat /\ low \in Nat
  <2>1. d \in Nat
    BY <1>2, ValueIsNat
  <2>2. Word \in Nat
    BY RangeAssumption DEF Word
  <2> QED
    BY <2>1, <2>2 DEF TypeOK
<1>4. exact + Word = a * Word + low
  BY DEF Carried, Carries
<1>5. CarryExact <=> exact = d * Word + low
  BY DEF CarryExact, Pending
<1> HIDE DEF a, d
<1>6. a * Word = d * Word + Word
  BY <1>1, <1>3
<1> QED
  BY <1>1, <1>3, <1>4, <1>5, <1>6

LEMMA Concatenated ==
  ASSUME NEW s \in Seq(Nat), NEW u \in Seq(Nat), NEW v \in Seq(Nat)
  PROVE  /\ u \o v \in Seq(Nat) /\ Len(u \o v) = Len(u) + Len(v)
         /\ s \o (u \o v) = s \o u \o v
<1>1. u \o v \in Seq(Nat) /\ Len(u \o v) = Len(u) + Len(v)
  OBVIOUS
<1>2. s \o (u \o v) = s \o u \o v
  BY SMTT(30)
<1> QED
  BY <1>1, <1>2

\* The byte that shiftLow would have to change is one that a carry can change.
LEMMA SettledValue ==
  ASSUME TypeOK, NEW hi \in {0, 1}, hi = 1 => cache # Base - 1
  PROVE  /\ out \o Settled(hi) \in Seq(Nat)
         /\ Value(out \o Settled(hi)) + 1
              = (Value(out) * Base + cache + 1) * Pow(cacheSize - 1) + hi
         /\ Len(out \o Settled(hi)) = Len(out) + cacheSize
         /\ \A i \in 1..Len(out) : (out \o Settled(hi))[i] = out[i]
<1>1. /\ out \in Seq(Nat) /\ cache \in 0..(Base - 1) /\ cacheSize \in Nat
      /\ cacheSize - 1 \in Nat /\ Base \in Nat /\ Base >= 2
  BY SMTT(30), RangeAssumption DEF TypeOK, ByteVal
<1>2. /\ (cache + hi) % Base = cache + hi
      /\ (Base - 1 + hi) % Base = IF hi = 0 THEN Base - 1 ELSE 0
  <2>1. CASE hi = 0
    BY <1>1, <2>1
  <2>2. CASE hi = 1
    <3>1. cache + hi \in 0..(Base - 1)
      BY <1>1, <2>2
    <3>2. Base - 1 + hi = Base * 1 + 0
      BY <1>1, <2>2
    <3>3. (Base - 1 + hi) % Base = 0
      BY <1>1, <3>2, DivModUnique
    <3> QED
      BY <1>1, <2>2, <3>1, <3>3
  <2> QED
    BY <2>1, <2>2
<1> DEFINE d == IF hi = 0 THEN Base - 1 ELSE 0
           e == [i \in 1..(cacheSize - 1) |-> d]
<1>3. /\ e \in Seq(Nat) /\ Len(e) = cacheSize - 1 /\ <<cache + hi>> \in Seq(Nat)
      /\ Len(<<cache + hi>>) = 1
  BY <1>1
<1>4. Settled(hi) = <<cache + hi>> \o e
  BY <1>2 DEF Settled
<1> HIDE DEF e
<1>5. /\ Settled(hi) \in Seq(Nat) /\ Len(Settled(hi)) = cacheSize
      /\ out \o Settled(hi) = out \o <<cache + hi>> \o e
  <2>1. Settled(hi) \in Seq(Nat) /\ Len(Settled(hi)) = 1 + (cacheSize - 1)
    BY <1>1, <1>3, <1>4, Concatenated
  <2>2. 1 + (cacheSize - 1) = cacheSize
    BY <1>1
  <2> QED
    BY <1>1, <1>3, <1>4, <2>1, <2>2, Concatenated, SMTT(30)
<1>6. Value(out \o Settled(hi)) + 1
        = (Value(out) * Base + cache + 1) * Pow(cacheSize - 1) + hi
  <2>1. CASE hi = 0
    <3>1. e = Pending /\ cache + hi = cache
      BY <1>1, <2>1 DEF e, Pending
    <3> DEFINE a == (Value(out) * Base + cache + 1) * Pow(cacheSize - 1)
    <3>2. a \in Nat
      <4>1. Value(out) \in Nat /\ Pow(cacheSize - 1) \in Nat
        BY <1>1, ValueIsNat, PowGrows
      <4>2. Value(out) * Base + cache + 1 \in Nat
        BY SMTT(30), <1>1, <4>1, LastDigit
      <4> QED
        BY <4>1, <4>2
    <3>3. Value(out \o <<cache + hi>> \o e) + 1 = a
      BY <3>1, ValuePending
    <3> HIDE DEF a
    <3>4. a + hi = a
      BY <2>1, <3>2
    <3> QED
      BY <1>5, <3>3, <3>4 DEF a
  <2>2. CASE hi = 1
    <3>1. e = [i \in 1..(cacheSize - 1) |-> 0] /\ cache + hi = cache + 1 /\ cache + 1 < Base
      BY <1>1, <2>2 DEF e
    <3> QED
      BY <1>5, <2>2, <3>1, ValuePending
  <2> QED
    BY <2>1, <2>2
<1>7. \A u \in Seq(Nat) : /\ out \o u \in Seq(Nat) /\ Len(out \o u) = Len(out) + Len(u)
                          /\ \A i \in 1..Len(out) : (out \o u)[i] = out[i]
  BY <1>1
<1> QED
  BY <1>5, <1>6, <1>7

LEMMA SumPending ==
  ASSUME NEW b \in Int, NEW c \in Int, NEW d \in Int, NEW f \in Int, NEW g \in Int,
         NEW l \in Int, NEW w \in Int, b + c = d + f, f = g + l, g = c - w
  PROVE  b + w = d + l
OBVIOUS

LEMMA SumSettled ==
  ASSUME NEW b \in Int, NEW c \in Int, NEW d \in Int, NEW f \in Int, NEW g \in Int,
         NEW h \in Int, NEW i \in Int, NEW l \in Int, NEW w \in Int,
         f = g + h + l, b + c = d + f, i + c = d + g
  PROVE  b + w = i + h + w + l
OBVIOUS

\* A shift takes an exact low of e, of which lo has not come out, to Base times
\* that, byte by byte.
LEMMA ShiftCarries ==
  ASSUME TypeOK, NEW lo \in 0..(2 * Word - 1), cache = Base - 1 => lo < Word,
         NEW e \in Nat, Carries(e, lo), ShiftLow(lo)
  PROVE  /\ Carries(e * Base, low)'
         /\ Shifts' = Shifts + 1
         /\ Len(out') >= Len(out) /\ \A i \in 1..Len(out) : out'[i] = out[i]
<1> DEFINE x == lo % Word
           t == x \div Top
           y == x % Top
           a == (Value(out) * Base + cache + 1) * Pow(cacheSize - 1)
<1>0. /\ Word \in Nat /\ Word = Base * Top /\ Base \in Nat /\ Base >= 2
      /\ Top \in Nat /\ cacheSize \in Nat /\ cacheSize >= 1 /\ cacheSize - 1 \in Nat
      /\ cache \in 0..(Base - 1) /\ out \in Seq(Nat) /\ Len(out) \in Nat
      /\ lo \in Nat /\ e \in Nat
  <2>1. Word \in Nat /\ Word = Base * Top
    BY RangeAssumption DEF Word
  <2> QED
    BY <2>1, RangeAssumption, SMTT(30) DEF TypeOK, ByteVal
<1>1. /\ x = (IF lo >= Word THEN lo - Word ELSE lo)
      /\ t \in 0..(Base - 1) /\ y \in 0..(Top - 1) /\ x = Top * t + y
      /\ low' = y * Base
  BY ShiftArith DEF ShiftLow, ByteVal
<1>2. \/ /\ lo >= Word \/ lo < (Base - 1) * Top
         /\ out' = out \o Settled(lo \div Word) /\ cache' = t /\ cacheSize' = 1
      \/ /\ lo < Word /\ lo >= (Base - 1) * Top
         /\ cacheSize' = cacheSize + 1 /\ out' = out /\ cache' = cache
  BY Zenon DEF ShiftLow
<1>3. e + Word = a * Word + lo
  BY DEF Carries
<1>4. a \in Nat
  <2>1. Value(out) \in Nat /\ Pow(cacheSize - 1) \in Nat
    BY <1>0, ValueIsNat, PowGrows
  <2>2. Value(out) * Base + cache + 1 \in Nat
    BY <1>0, <2>1, LastDigit, SMTT(30)
  <2> QED
    BY <2>1, <2>2
<1> HIDE DEF x, t, y
<1>5. ASSUME lo < Word, lo >= (Base - 1) * Top,
             cacheSize' = cacheSize + 1, out' = out, cache' = cache
      PROVE  /\ Carries(e * Base, low)' /\ Shifts' = Shifts + 1
             /\ Len(out') >= Len(out) /\ \A i \in 1..Len(out) : out'[i] = out[i]
  <2>1. t = Base - 1
    <3>1. CASE t <= Base - 2
      <4>1. Top * t <= Top * (Base - 2) /\ Top * (Base - 2) = Word - 2 * Top
            /\ (Base - 1) * Top = Word - Top
        BY <1>0, <1>1, <3>1, TimesMono
      <4> DEFINE u == Top * t
      <4>2. u <= Word - 2 * Top /\ x = u + y /\ u \in Nat /\ lo >= Word - Top /\ x = lo
        BY <1>0, <1>1, <1>5, <4>1
      <4> HIDE DEF u
      <4> QED
        BY <1>0, <1>1, <4>2
    <3> QED
      BY <1>0, <1>1, <3>1
  <2>2. lo * Base = Word * (Base - 1) + low'
    <3>1. lo = Top * (Base - 1) + y
      BY <1>0, <1>1, <1>5, <2>1
    <3>2. lo * Base = (Top * (Base - 1)) * Base + y * Base
      BY <1>0, <1>1, <3>1
    <3>3. (Top * (Base - 1)) * Base = Word * (Base - 1)
      BY <1>0
    <3> QED
      BY <1>1, <3>2, <3>3
  <2>3. cacheSize' - 1 = (cacheSize - 1) + 1 /\ Pow(cacheSize' - 1) = Pow(cacheSize - 1) * Base
    BY <1>0, <1>5, PowGrows
  <2> DEFINE n == Value(out) * Base + cache + 1
             p == Pow(cacheSize - 1)
  <2>4. n \in Nat /\ p \in Nat /\ a = n * p
    <3>1. Value(out) \in Nat /\ p \in Nat
      BY <1>0, ValueIsNat, PowGrows
    <3>2. Value(out) * Base \in Nat
      BY <1>0, <3>1
    <3> QED
      BY <1>0, <3>1, <3>2, SMTT(30)
  <2>5. (Value(out) * Base + cache + 1)' = n
    BY <1>5
  <2> HIDE DEF n, p
  <2>6. n * (p * Base) = a * Base
    BY <1>0, <2>4
  <2> HIDE DEF a
  <2>7. e * Base + Word = (a * Base) * Word + low'
    <3>1. (e + Word) * Base = (a * Word + lo) * Base
      BY <1>3
    <3>2. e * Base + Word * Base = (a * Base) * Word + lo * Base
      BY <1>0, <1>4, <3>1
    <3>3. Word * (Base - 1) = Word * Base - Word /\ Word * Base \in Nat
      BY <1>0
    <3>4. e * Base \in Nat /\ (a * Base) * Word \in Nat /\ lo * Base \in Nat /\ low' \in Nat
      BY <1>0, <1>1, <1>4
    <3>5. PICK b, c, d, f, w, l \in Int :
            /\ b = e * Base /\ c = Word * Base /\ d = (a * Base) * Word /\ f = lo * Base
            /\ w = Word /\ l = low'
      BY <1>0, <3>3, <3>4
    <3>6. b + c = d + f /\ f = (c - w) + l
      BY <2>2, <3>2, <3>3, <3>5
    <3>7. b + w = d + l
      BY <3>6, SumPending
    <3> QED
      BY <3>5, <3>7
  <2>8. Carries(e * Base, low)'
    BY <2>3, <2>5, <2>6, <2>7 DEF Carries, n, p
  <2> QED
    BY <1>0, <1>5, <2>8 DEF Shifts
<1>6. ASSUME lo >= Word \/ lo < (Base - 1) * Top,
             out' = out \o Settled(lo \div Word), cache' = t, cacheSize' = 1
      PROVE  /\ Carries(e * Base, low)' /\ Shifts' = Shifts + 1
             /\ Len(out') >= Len(out) /\ \A i \in 1..Len(out) : out'[i] = out[i]
  <2>1. PICK hi \in {0, 1} : lo \div Word = hi /\ lo = hi * Word + x
    <3>1. CASE lo >= Word
      <4>1. lo = Word * 1 + (lo - Word) /\ lo - Word \in 0..(Word - 1)
        BY <1>0, <3>1
      <4>2. lo \div Word = 1
        BY <1>0, <4>1, DivModUnique
      <4> QED
        BY <1>0, <1>1, <3>1, <4>2
    <3>2. CASE lo < Word
      <4>1. lo = Word * 0 + lo /\ lo \in 0..(Word - 1)
        BY <1>0, <3>2
      <4>2. lo \div Word = 0
        BY <1>0, <4>1, DivModUnique
      <4> QED
        BY <1>0, <1>1, <3>2, <4>2
    <3> QED
      BY <1>0, <3>1, <3>2
  <2>2. hi = 1 => cache # Base - 1
    <3>1. x >= 0 /\ x \in Int
      <4>1. Top * t \in Nat
        BY <1>0, <1>1
      <4> QED
        BY <1>0, <1>1, <4>1
    <3>2. hi = 1 => lo >= Word
      BY <1>0, <2>1, <3>1
    <3> QED
      BY <1>0, <3>2
  <2>3. /\ Value(out') + 1 = a + hi /\ out' \in Seq(Nat)
        /\ Len(out') = Len(out) + cacheSize /\ \A i \in 1..Len(out) : out'[i] = out[i]
    BY <1>6, <2>1, <2>2, SettledValue
  <2> DEFINE v == Value(out')
  <2>4. v \in Nat
    BY <2>3, ValueIsNat
  <2>5. (Value(out) * Base + cache + 1)' = v * Base + t + 1
    BY <1>6
  <2>6. Pow(cacheSize' - 1) = 1
    <3>1. cacheSize' - 1 = 0
      BY <1>6
    <3> QED
      BY <3>1, PowGrows
  <2>7. v + 1 = a + hi
    BY <2>3
  <2> HIDE DEF v, a
  <2>8. e * Base + Word = (v * Base + t + 1) * 1 * Word + low'
    <3>1. x * Base = Word * t + low'
      <4>1. x * Base = (Top * t) * Base + y * Base
        BY <1>0, <1>1
      <4>2. (Top * t) * Base = Word * t
        BY <1>0, <1>1
      <4> QED
        BY <1>1, <4>1, <4>2
    <3>2. lo * Base = (hi * Base) * Word + Word * t + low'
      <4>1. x \in Int /\ low' \in Int /\ Word * t \in Int
        BY <1>0, <1>1
      <4>2. lo * Base = (hi * Base) * Word + x * Base
        BY <1>0, <2>1, <4>1
      <4>3. (hi * Base) * Word \in Int
        BY <1>0
      <4> QED
        BY <3>1, <4>1, <4>2, <4>3
    <3>3. e * Base + Word * Base = (a * Base) * Word + lo * Base
      BY <1>0, <1>3, <1>4
    <3>4. (v * Base + t + 1) * 1 * Word = (v * Base) * Word + Word * t + Word
      BY <1>0, <1>1, <2>4
    <3>5. (v * Base) * Word + Word * Base = (a * Base) * Word + (hi * Base) * Word
      BY <1>0, <1>4, <2>4, <2>7
    <3>6. /\ e * Base \in Int /\ Word * Base \in Int /\ (a * Base) * Word \in Int
          /\ lo * Base \in Int /\ (hi * Base) * Word \in Int /\ Word * t \in Int
          /\ (v * Base) * Word \in Int /\ low' \in Int
      BY <1>0, <1>1, <1>4, <2>4
    <3>7. e * Base + Word = (v * Base) * Word + Word * t + Word + low'
      <4>1. PICK b, c, d, f, g, h, i, w, l \in Int :
              /\ b = e * Base /\ c = Word * Base /\ d = (a * Base) * Word /\ f = lo * Base
              /\ g = (hi * Base) * Word /\ h = Word * t /\ i = (v * Base) * Word
              /\ w = Word /\ l = low'
        BY <1>0, <3>6
      <4>2. f = g + h + l /\ b + c = d + f /\ i + c = d + g
        BY <3>2, <3>3, <3>5, <4>1
      <4>3. b + w = i + h + w + l
        BY <4>2, SumSettled
      <4> QED
        BY <4>1, <4>3
    <3> QED
      BY <3>4, <3>7
  <2>9. Carries(e * Base, low)'
    BY <2>5, <2>6, <2>8 DEF Carries, v
  <2>10. Shifts' = Shifts + 1
    BY <1>0, <1>6, <2>3 DEF Shifts
  <2> QED
    BY <1>0, <2>3, <2>9, <2>10
<1> QED
  BY <1>2, <1>5, <1>6

\* lo - low is added to the exact low as to low.
LEMMA AddedCarries ==
  ASSUME TypeOK, Carried, NEW lo \in Nat, NEW e \in Nat, e + low = exact + lo
  PROVE  Carries(e, lo)
<1> DEFINE a == (Value(out) * Base + cache + 1) * Pow(cacheSize - 1)
<1>1. exact + Word = a * Word + low
  BY DEF Carried, Carries
<1>2. a * Word \in Nat /\ Word \in Nat /\ exact \in Nat /\ low \in Nat
  <2>1. out \in Seq(Nat) /\ Base \in Nat /\ cache \in Nat /\ cacheSize - 1 \in Nat
    BY SMTT(30), RangeAssumption DEF TypeOK, ByteVal
  <2>2. Value(out) \in Nat /\ Pow(cacheSize - 1) \in Nat
    BY <2>1, ValueIsNat, PowGrows
  <2>3. Value(out) * Base + cache + 1 \in Nat
    BY <2>1, <2>2, LastDigit
  <2>4. a \in Nat
    BY <2>2, <2>3
  <2>5. Word \in Nat
    BY RangeAssumption DEF Word
  <2>6. exact \in Nat /\ low \in Nat
    BY DEF TypeOK
  <2> HIDE DEF a
  <2> QED
    BY <2>4, <2>5, <2>6
<1> DEFINE z == a * Word
<1>3. exact + Word = z + low
  BY <1>1
<1> HIDE DEF z
<1>4. e + Word = z + lo
  <2>1. PICK w, x, l, y \in Int : w = Word /\ x = exact /\ l = low /\ y = z
    BY <1>2 DEF z
  <2> QED
    BY <1>3, <2>1
<1> QED
  BY <1>4 DEF Carries, z

\* Narrowing keeps account of every carry, shift or not.
LEMMA NarrowCarries ==
  ASSUME IInv, Carried, ~ended, NEW lo \in Nat, NEW r \in 1..(Word - 1),
         low <= lo, lo + r <= low + rrange, Narrow(lo, r),
         NEW e \in Nat, e + low = exact + lo
  PROVE  /\ Carried'
         /\ IF r < Top THEN /\ exact' = e * Base /\ Shifts' = Shifts + 1
                            /\ rrange' = r * Base
                       ELSE exact' = e /\ Shifts' = Shifts /\ rrange' = r
         /\ Len(out') >= Len(out) /\ \A i \in 1..Len(out) : out'[i] = out[i]
<1> USE RangeAssumption
<1>0. /\ Word \in Nat /\ Base \in Nat /\ Top \in Nat /\ TypeOK
      /\ low \in Nat /\ rrange \in Nat /\ exact \in Nat /\ Len(out) \in Nat
  BY DEF Word, IInv, TypeOK
<1>1. lo \in 0..(2 * Word - 1) /\ (cache = Base - 1 => lo < Word)
  <2>1. low + rrange <= 2 * Word /\ (cache = Base - 1 => low + rrange <= Word)
    BY DEF IInv, NoSecondCarry
  <2>2. PICK l, q, w \in Nat : l = low /\ q = rrange /\ w = Word
    BY <1>0
  <2>3. r >= 1 /\ r \in Nat /\ lo + r <= l + q
    BY <2>2, <1>0
  <2>4. lo < 2 * w
    BY <2>1, <2>2, <2>3
  <2>5. cache = Base - 1 => lo < w
    BY <2>1, <2>2, <2>3
  <2> QED
    BY <2>2, <2>4, <2>5
<1>2. Carries(e, lo)
  BY <1>0, AddedCarries
<1>3. e = exact + lo - low
  BY <1>0
<1>4. CASE r < Top
  <2>1. rrange' = (r * Base) % Word /\ ShiftLow(lo)
        /\ exact' = (exact + lo - low) * Base
    BY <1>0, <1>4 DEF Narrow
  <2>2. exact' = e * Base
    BY <1>3, <2>1
  <2>3. /\ Carries(e * Base, low)' /\ Shifts' = Shifts + 1
        /\ Len(out') >= Len(out) /\ \A i \in 1..Len(out) : out'[i] = out[i]
    BY <1>0, <1>1, <1>2, <2>1, ShiftCarries
  <2>4. Carried'
    BY <2>2, <2>3 DEF Carried, Carries
  <2>5. rrange' = r * Base
    <3>1. r \in 1..(Top - 1)
      BY <1>0, <1>4
    <3> QED
      BY <2>1, <3>1, RangeShift
  <2> QED
    BY <1>4, <2>2, <2>3, <2>4, <2>5
<1>5. CASE r >= Top
  <2>1. /\ rrange' = r /\ low' = lo /\ exact' = exact + lo - low
        /\ cache' = cache /\ cacheSize' = cacheSize /\ out' = out
    BY <1>0, <1>5 DEF Narrow
  <2>2. exact' = e
    BY <1>3, <2>1
  <2>3. Carried'
    BY <1>2, <2>1, <2>2 DEF Carried, Carries
  <2> QED
    BY <1>0, <1>5, <2>1, <2>2, <2>3 DEF Shifts
<1> QED
  BY <1>0, <1>4, <1>5

LEMMA InitCarried == EncInit => Carried
<1> SUFFICES ASSUME EncInit PROVE Carried
  OBVIOUS
<1>1. out = << >> /\ cache = 0 /\ cacheSize = 1 /\ exact = 0 /\ low = 0
  BY DEF EncInit
<1>2. Value(out) = 0 /\ Pow(cacheSize - 1) = 1
  BY <1>1, ValueEmpty, PowGrows
<1>3. Word \in Nat /\ Base \in Nat
  BY RangeAssumption DEF Word
<1>4. 0 + Word = (0 * Base + 0 + 1) * 1 * Word + 0
  BY <1>3
<1> QED
  BY <1>1, <1>2, <1>4 DEF Carried, Carries
-----------------------------------------------------------------------------
(***************************************************************************)
(* The bytes written are the leading digits of the exact low, and stay     *)
(* them whatever is encoded after.                                         *)
(***************************************************************************)
LEMMA PrefixArith ==
  ASSUME NEW e \in Nat, NEW v \in Nat, NEW c \in Nat, NEW q \in Nat, NEW l \in Nat,
         NEW w \in Nat, NEW b \in Nat, w <= q, w > 0, c < b, l < 2 * w,
         c = b - 1 => l < w, e + w = (v * b + c + 1) * q + l
  PROVE  v * (b * q) <= e /\ e < (v + 1) * (b * q)
<1> DEFINE x == v * (b * q)
           y == c * q
           z == b * q
<1>1. x \in Nat /\ y \in Nat /\ z \in Nat /\ (v + 1) * (b * q) = x + z
      /\ (v * b + c + 1) * q = x + y + q
  OBVIOUS
<1>2. c <= b - 2 => y + 2 * q <= z
  <2>1. ASSUME c <= b - 2 PROVE y + 2 * q <= z
    <3>1. c + 2 \in Nat /\ c + 2 <= b
      BY <2>1
    <3>2. (c + 2) * q <= b * q /\ (c + 2) * q = y + 2 * q
      BY <3>1, TimesMono
    <3> QED
      BY <3>2
  <2> QED
    BY <2>1
<1>3. c = b - 1 => y + q = z
  OBVIOUS
<1>4. c <= b - 2 \/ c = b - 1
  OBVIOUS
<1>5. e + w = x + y + q + l
  BY <1>1
<1> HIDE DEF x, y, z
<1>6. x <= e /\ e < x + z
  BY <1>1, <1>2, <1>3, <1>4, <1>5
<1> QED
  BY <1>1, <1>6 DEF x

\* One more digit b, below base, narrows the interval of those before it.
LEMMA DigitArith ==
  ASSUME NEW x \in Nat, NEW b \in Nat, NEW u \in Nat, NEW base \in Nat, b + 1 <= base
  PROVE  /\ x * (u * base) <= (x * base + b) * u
         /\ (x * base + b + 1) * u <= (x + 1) * (u * base)
         /\ x * (u * base) \in Nat /\ (x * base + b) * u \in Nat
         /\ (x * base + b + 1) * u \in Nat /\ (x + 1) * (u * base) \in Nat
<1> DEFINE y == x * (u * base)
           w == b * u
           z == u * base
<1>1. /\ y \in Nat /\ w \in Nat /\ z \in Nat
      /\ (x * base + b) * u = y + w /\ (x * base + b + 1) * u = y + w + u
      /\ (x + 1) * (u * base) = y + z
  OBVIOUS
<1>2. w + u <= z
  <2>1. b + 1 \in Nat /\ (b + 1) * u = w + u /\ base * u = z
    OBVIOUS
  <2>2. (b + 1) * u <= base * u
    BY <2>1, TimesMono
  <2> QED
    BY <2>1, <2>2
<1> HIDE DEF y, w, z
<1> QED
  BY <1>1, <1>2 DEF y

LEMMA Regroup ==
  ASSUME NEW a \in Int, NEW b \in Int, NEW c \in Int
  PROVE  a * b * c = a * (b * c) /\ a * b = b * a /\ b * c \in Int
OBVIOUS

LEMMA BytesAreNats ==
  ASSUME NEW s \in Seq(ByteVal)
  PROVE  s \in Seq(Nat) /\ Len(s) \in Nat
<1>1. Base \in Nat
  BY RangeAssumption
<1> QED
  BY <1>1 DEF ByteVal

\* The first T bytes as a number, and what a one in its last place is worth.
Prefix(T) == Value(SubSeq(out, 1, T))
Unit(T) == Pow(Shifts + Start - T)

LEMMA PrefixGrows ==
  ASSUME NEW s \in Seq(ByteVal), NEW T \in Nat, T < Len(s)
  PROVE  /\ s[T + 1] \in ByteVal /\ SubSeq(s, 1, T) \in Seq(Nat)
         /\ Value(SubSeq(s, 1, T + 1)) = Value(SubSeq(s, 1, T)) * Base + s[T + 1]
         /\ Value(SubSeq(s, 1, T)) \in Nat
<1>1. ByteVal \subseteq Nat
  BY RangeAssumption DEF ByteVal
<1>2. s \in Seq(Nat) /\ T + 1 \in 1..Len(s) /\ T \in 0..Len(s)
  BY BytesAreNats
<1>3. s[T + 1] \in ByteVal
  BY <1>2
<1>4. SubSeq(s, 1, T) \in Seq(Nat)
  BY <1>2
<1>5. SubSeq(s, 1, T + 1) = Append(SubSeq(s, 1, T), s[T + 1])
  BY <1>2
<1> QED
  BY <1>1, <1>3, <1>4, <1>5, ValueAppend, ValueIsNat

LEMMA PrefixBounds ==
  ASSUME IInv, Carried, NEW T \in 0..Len(out)
  PROVE  /\ Prefix(T) \in Nat
         /\ Prefix(T) * Unit(T) <= exact /\ exact < (Prefix(T) + 1) * Unit(T)
<1> DEFINE L == Len(out)
           P(t) == /\ Prefix(t) \in Nat
                   /\ Prefix(t) * Unit(t) <= exact /\ exact < (Prefix(t) + 1) * Unit(t)
           U == {d \in 0..L : ~P(L - d)}
<1>0. /\ Word \in Nat /\ Word > 0 /\ Base \in Nat /\ L \in Nat /\ TypeOK
      /\ out \in Seq(ByteVal) /\ out \in Seq(Nat) /\ cache \in Nat /\ cache < Base
      /\ cacheSize - 1 \in Nat /\ low \in Nat /\ low < 2 * Word /\ exact \in Nat
      /\ Shifts \in Nat /\ Start \in Nat /\ NumBytes \in Nat
  <2>1. TypeOK /\ Word \in Nat /\ Word > 0 /\ Base \in Nat
    <3>1. TypeOK /\ rrange >= Top /\ rrange \in 0..(Word - 1)
      BY DEF IInv, TypeOK, Normalised
    <3>2. Word \in Nat /\ Base \in Nat
      BY RangeAssumption DEF Word
    <3> QED
      BY <3>1, <3>2
  <2>2. out \in Seq(ByteVal) /\ ByteVal \subseteq Nat /\ cache \in ByteVal
    BY <2>1 DEF TypeOK, ByteVal
  <2>3. cacheSize - 1 \in Nat /\ low \in Nat /\ low < 2 * Word /\ exact \in Nat
    BY <2>1 DEF TypeOK
  <2>4. L \in Nat /\ NumBytes \in Nat /\ out \in Seq(Nat)
    BY <2>2, WordIsPow, BytesAreNats
  <2>5. Shifts \in Nat /\ Start \in Nat
    <3> HIDE DEF L
    <3>1. L + cacheSize - 1 = L + (cacheSize - 1) /\ cacheSize \in Int
      BY <2>3, <2>1 DEF TypeOK
    <3> QED
      BY <2>3, <2>4, <3>1 DEF Shifts, Start, L
  <2>6. cache \in Nat /\ cache < Base
    BY <2>1, <2>2 DEF ByteVal
  <2> QED
    BY <2>1, <2>2, <2>3, <2>4, <2>5, <2>6
<1>1. P(L)
  <2> DEFINE p == Pow(cacheSize - 1)
             q == p * Word
             v == Value(out)
  <2>1. SubSeq(out, 1, L) = out
    BY <1>0
  <2>2. v \in Nat /\ p \in Nat /\ p >= 1
    BY SMTT(30), <1>0, ValueIsNat, PowPositive
  <2>3. Unit(L) = Base * q
    <3>1. Shifts + Start - L = ((cacheSize - 1) + NumBytes) + 1
          /\ (cacheSize - 1) + NumBytes \in Nat
      <4>1. PICK k, n, l \in Nat : k = cacheSize - 1 /\ n = NumBytes /\ l = L
        BY <1>0
      <4>2. Shifts = l + k /\ Start = n + 1
        BY <1>0, <4>1 DEF Shifts, Start
      <4>3. (l + k) + (n + 1) - l = (k + n) + 1 /\ k + n \in Nat
        OBVIOUS
      <4> HIDE DEF L
      <4> QED
        BY <4>1, <4>2, <4>3, Zenon
    <3>2. Pow(((cacheSize - 1) + NumBytes) + 1) = Pow((cacheSize - 1) + NumBytes) * Base
      BY <3>1, PowGrows
    <3>3. Pow((cacheSize - 1) + NumBytes) = p * Word
      BY <1>0, WordIsPow, PowAdds
    <3>4. q * Base = Base * q
      BY <1>0, <2>2
    <3> QED
      BY <3>1, <3>2, <3>3, <3>4 DEF Unit
  <2>4. q \in Nat /\ Word <= q
    <3> HIDE DEF p
    <3>1. 1 * Word <= p * Word /\ 1 * Word \in Nat /\ 1 \in Nat
      BY <1>0, <2>2, TimesMono
    <3>2. 1 * Word = Word /\ p * Word \in Nat
      BY <1>0, <2>2
    <3> QED
      BY <3>1, <3>2 DEF p
  <2>5. exact + Word = (v * Base + cache + 1) * q + low
    <3>1. exact + Word = (v * Base + cache + 1) * p * Word + low
      BY DEF Carried, Carries
    <3>2. (v * Base + cache + 1) * p * Word = (v * Base + cache + 1) * q
      <4>1. v * Base + cache + 1 \in Int /\ p \in Int /\ Word \in Int
        BY <1>0, <2>2
      <4> HIDE DEF p, v
      <4> QED
        BY <4>1, Regroup
    <3> QED
      BY <3>1, <3>2
  <2>6. cache = Base - 1 => low < Word
    BY DEF IInv, NoSecondCarry
  <2> HIDE DEF p, q, v
  <2>7. v * (Base * q) <= exact /\ exact < (v + 1) * (Base * q)
    BY <1>0, <2>2, <2>4, <2>5, <2>6, PrefixArith
  <2> QED
    BY <2>1, <2>2, <2>3, <2>7 DEF v, Prefix
<1>2. ASSUME NEW t \in Nat, t < L, P(t + 1) PROVE P(t)
  <2> DEFINE x == Prefix(t)
             b == out[t + 1]
             u == Unit(t + 1)
  <2>1. /\ b \in ByteVal /\ Prefix(t + 1) = x * Base + b /\ x \in Nat
    BY <1>0, <1>2, PrefixGrows DEF Prefix
  <2>2. Unit(t) = u * Base /\ u \in Nat
    <3>1. Shifts + Start - (t + 1) \in Nat
      <4>1. PICK k, n, l \in Nat : k = cacheSize - 1 /\ n = NumBytes /\ l = L
        BY <1>0
      <4>2. Shifts = l + k /\ Start = n + 1
        BY <1>0, <4>1 DEF Shifts, Start
      <4>3. (l + k) + (n + 1) - (t + 1) \in Nat
        <5>1. t \in Nat /\ t < l
          BY <1>2, <4>1, Zenon
        <5> QED
          BY <5>1
      <4> HIDE DEF L
      <4> QED
        BY <4>2, <4>3, Zenon
    <3>2. Shifts + Start - t = (Shifts + Start - (t + 1)) + 1
      BY <1>0, <1>2
    <3> QED
      BY <3>1, <3>2, PowGrows DEF Unit
  <2>3. (x * Base + b) * u <= exact /\ exact < (x * Base + b + 1) * u
    BY <1>2, <2>1
  <2>4. b \in Nat /\ b + 1 <= Base
    <3> HIDE DEF b
    <3> QED
      BY <1>0, <2>1 DEF ByteVal
  <2> HIDE DEF x, b, u
  <2>5. /\ x * (u * Base) <= (x * Base + b) * u
        /\ (x * Base + b + 1) * u <= (x + 1) * (u * Base)
        /\ x * (u * Base) \in Nat /\ (x * Base + b) * u \in Nat
        /\ (x * Base + b + 1) * u \in Nat /\ (x + 1) * (u * Base) \in Nat
    BY <1>0, <2>1, <2>2, <2>4, DigitArith
  <2>8. x * (u * Base) <= exact /\ exact < (x + 1) * (u * Base)
    BY <1>0, <2>3, <2>5
  <2> QED
    BY <2>1, <2>2, <2>8 DEF x
<1> HIDE DEF P
<1>3. ASSUME U # {} PROVE FALSE
  <2>1. U \subseteq Nat
    BY <1>0
  <2>2. PICK d \in U : \A j \in U : d <= j
    <3> HIDE DEF U
    <3> QED
      BY <1>3, <2>1, Least
  <2>3. d \in 0..L /\ ~P(L - d)
    BY <2>2
  <2>4. d # 0
    BY <1>0, <1>1, <2>3
  <2>5. d - 1 \in 0..L /\ ~(d <= d - 1)
    BY <1>0, <2>3, <2>4
  <2>6. d - 1 \notin U
    <3> HIDE DEF U
    <3> QED
      BY <2>2, <2>5
  <2>7. P(L - (d - 1))
    BY <2>5, <2>6
  <2>8. L - (d - 1) = (L - d) + 1 /\ L - d \in Nat /\ L - d < L
    BY <1>0, <2>3, <2>4
  <2> QED
    BY <1>2, <2>3, <2>7, <2>8
<1>4. L - T \in 0..L /\ L - (L - T) = T
  BY <1>0
<1>5. P(T)
  <2>1. L - T \notin U
    BY <1>3
  <2>2. P(L - (L - T))
    BY <1>4, <2>1
  <2> QED
    BY <1>4, <2>2
<1> QED
  BY <1>5 DEF P
-----------------------------------------------------------------------------
(***************************************************************************)
(* The situation after each bit: what is common to both sides. low is the  *)
(* exact low, shifts the number of bytes by which it has been shifted.     *)
(***************************************************************************)
Items == [ctx : Ctx \cup {Direct}, bit : {0, 1}]
Situations == [low : Nat, r : Top..(Word - 1),
               probs : [Ctx -> MinProb..MaxProb], shifts : Nat]

First == [low |-> 0, r |-> Word - 1,
          probs |-> [c \in Ctx |-> ModelTotal \div 2], shifts |-> 0]

\* Where the interval of situation h is split for a bit of context c.
Split(h, c) == IF c = Direct THEN h.r \div 2 ELSE Bound(h.r, h.probs[c])

\* The part of it that item i, a bit with its context, takes.
PartLow(h, i) == IF i.bit = 0 THEN h.low ELSE h.low + Split(h, i.ctx)

PartRange(h, i) == IF i.bit = 0 \/ i.ctx = Direct THEN Split(h, i.ctx)
                                                  ELSE h.r - Split(h, i.ctx)

Adapted(h, i) == IF i.ctx = Direct THEN h.probs
                 ELSE [h.probs EXCEPT ![i.ctx] = Moved(@, i.bit)]

After(h, i) ==
  IF PartRange(h, i) < Top
    THEN [low |-> PartLow(h, i) * Base, r |-> PartRange(h, i) * Base,
          probs |-> Adapted(h, i), shifts |-> h.shifts + 1]
    ELSE [low |-> PartLow(h, i), r |-> PartRange(h, i),
          probs |-> Adapted(h, i), shifts |-> h.shifts]

LEMMA Widths == /\ Word \in Nat /\ Base \in Nat /\ Base >= 2 /\ Top \in Nat /\ Top >= 2
                /\ Word = Base * Top /\ NumBytes \in Nat /\ Start \in Nat
<1>1. Top >= 2 /\ Top \in Nat /\ Base \in Nat /\ Base >= 2 /\ NumBytes \in Nat
  BY RangeAssumption
<1>2. Word = Base * Top /\ Word \in Nat
  BY <1>1 DEF Word
<1>3. Start \in Nat
  BY <1>1 DEF Start
<1> QED
  BY <1>1, <1>2, <1>3

LEMMA WordIsEven == Word \div 2 \in Nat /\ 2 * (Word \div 2) = Word /\ Word > 0
<1>1. PICK m \in Nat : Top = 2 * m
  <2>1. Top \in Nat /\ Top % 2 = 0
    BY RangeAssumption
  <2>2. Top \div 2 \in Nat /\ Top = 2 * (Top \div 2)
    BY <2>1
  <2> QED
    BY <2>2
<1>2. PICK k \in Nat : k = Base * m
  BY Widths
<1>3. Word = 2 * k
  <2>1. Base * (2 * m) = 2 * (Base * m)
    BY Widths
  <2> QED
    BY <1>1, <1>2, <2>1, Widths
<1>4. k > 0
  <2>1. Top > 0 /\ m > 0
    BY <1>1, Widths
  <2>2. 1 * m <= Base * m
    BY Widths, TimesMono
  <2> QED
    BY <1>2, <2>1, <2>2
<1> QED
  BY <1>3, <1>4

LEMMA FirstSituation == First \in Situations
<1>1. Word - 1 \in Top..(Word - 1)
  <2>1. Top \in Nat /\ Base >= 2 /\ Base \in Nat /\ 2 \in Nat /\ Top >= 2
    BY Widths
  <2>2. 2 * Top <= Base * Top /\ Base * Top \in Nat
    BY <2>1, TimesMono
  <2> QED
    BY <2>1, <2>2, Widths
<1>2. ModelTotal \div 2 \in MinProb..MaxProb
  BY RangeAssumption DEF MinProb, MaxProb
<1> QED
  BY <1>1, <1>2 DEF First, Situations

\* Both parts lie inside, and one shift brings each back to kTopValue.
LEMMA PartInside ==
  ASSUME NEW h \in Situations, NEW i \in Items
  PROVE  /\ PartLow(h, i) \in Nat /\ PartRange(h, i) \in 1..(Word - 1)
         /\ h.low <= PartLow(h, i)
         /\ PartLow(h, i) + PartRange(h, i) <= h.low + h.r
         /\ PartRange(h, i) * Base >= Top
         /\ Adapted(h, i) \in [Ctx -> MinProb..MaxProb]
<1>1. /\ h.low \in Nat /\ h.r \in Top..(Word - 1) /\ h.probs \in [Ctx -> MinProb..MaxProb]
      /\ i.ctx \in Ctx \cup {Direct} /\ i.bit \in {0, 1}
  BY DEF Situations, Items
<1>2. PICK l, r, w, t \in Nat : l = h.low /\ r = h.r /\ w = Word /\ t = Top
  BY <1>1, Widths
<1>3. r <= w - 1
  BY <1>1, <1>2
<1> DEFINE x == Split(h, i.ctx)
<1>4. CASE i.ctx = Direct
  <2>1. x \in 1..(r - 1) /\ x * Base >= Top /\ 2 * x <= r
    BY <1>1, <1>2, <1>4, Widths, HalfSplit DEF Split
  <2>2. PartRange(h, i) = x /\ PartLow(h, i) = IF i.bit = 0 THEN l ELSE l + x
    BY <1>2, <1>4 DEF PartRange, PartLow
  <2>3. Adapted(h, i) = h.probs
    BY <1>4 DEF Adapted
  <2> HIDE DEF x
  <2> QED
    BY <1>1, <1>2, <1>3, <2>1, <2>2, <2>3
<1>5. CASE i.ctx # Direct
  <2>1. i.ctx \in Ctx /\ h.probs[i.ctx] \in MinProb..MaxProb
    BY <1>1, <1>5
  <2>2. x \in 1..(r - 1) /\ x * Base >= Top /\ (r - x) * Base >= Top
    BY <1>1, <1>2, <1>5, <2>1, BoundSplit DEF Split
  <2>3. /\ PartRange(h, i) = IF i.bit = 0 THEN x ELSE r - x
        /\ PartLow(h, i) = IF i.bit = 0 THEN l ELSE l + x
    BY <1>2, <1>5 DEF PartRange, PartLow
  <2>4. Adapted(h, i) \in [Ctx -> MinProb..MaxProb]
    BY <1>1, <1>5, <2>1, MovedBounds DEF Adapted
  <2> HIDE DEF x
  <2>5. CASE i.bit = 0
    BY <1>1, <1>2, <1>3, <2>2, <2>3, <2>4, <2>5
  <2>6. CASE i.bit = 1
    BY <1>1, <1>2, <1>3, <2>2, <2>3, <2>4, <2>6
  <2> QED
    BY <1>1, <2>5, <2>6
<1> QED
  BY <1>4, <1>5

LEMMA AfterSituation ==
  ASSUME NEW h \in Situations, NEW i \in Items
  PROVE  After(h, i) \in Situations
<1> DEFINE r == PartRange(h, i)
<1>1. /\ PartLow(h, i) \in Nat /\ r \in 1..(Word - 1) /\ r * Base >= Top
      /\ Adapted(h, i) \in [Ctx -> MinProb..MaxProb]
      /\ h.shifts \in Nat /\ h.shifts + 1 \in Nat
  BY PartInside DEF Situations
<1>2. CASE r < Top
  <2>1. r \in 1..(Top - 1)
    <3> HIDE DEF r
    <3> QED
      BY <1>1, <1>2, Widths
  <2>2. r * Base \in Top..(Word - 1)
    <3>1. r * Base \in 1..(Word - 1)
      BY <2>1, RangeShift
    <3> HIDE DEF r
    <3> QED
      BY <1>1, <3>1, Widths
  <2>3. PartLow(h, i) * Base \in Nat
    BY <1>1, Widths
  <2>4. After(h, i) = [low |-> PartLow(h, i) * Base, r |-> r * Base,
                       probs |-> Adapted(h, i), shifts |-> h.shifts + 1]
    BY <1>2 DEF After
  <2> HIDE DEF r
  <2> QED
    BY <1>1, <2>2, <2>3, <2>4 DEF Situations
<1>3. CASE ~(r < Top)
  <2>1. After(h, i) = [low |-> PartLow(h, i), r |-> r,
                       probs |-> Adapted(h, i), shifts |-> h.shifts]
    BY <1>3 DEF After
  <2> HIDE DEF r
  <2>2. r \in Top..(Word - 1)
    BY <1>1, <1>3, Widths
  <2> QED
    BY <1>1, <2>1, <2>2 DEF Situations
<1> QED
  BY <1>2, <1>3
-----------------------------------------------------------------------------
(***************************************************************************)
(* Every interval holds what is encoded later: the exact low, and until    *)
(* flush the whole range above it, stays inside.                           *)
(***************************************************************************)
Extent == IF ended THEN 1 ELSE rrange

\* The interval of r at l, as it was after s shifts.
Within(l, r, s) == /\ l * Pow(Shifts - s) <= exact
                   /\ exact + Extent <= (l + r) * Pow(Shifts - s)

Encloses(h) == h.shifts <= Shifts /\ Within(h.low, h.r, h.shifts)

LEMMA EncoderTypes ==
  ASSUME IInv
  PROVE  /\ TypeOK /\ Shifts \in Nat /\ Len(out) \in Nat /\ Len(out) <= Shifts
         /\ out \in Seq(ByteVal) /\ exact \in Nat /\ low \in Nat
         /\ rrange \in Top..(Word - 1) /\ rrange \in Nat
         /\ Extent \in Nat /\ Extent >= 1
<1>1. TypeOK /\ rrange >= Top
  BY DEF IInv, Normalised
<1>2. /\ out \in Seq(ByteVal) /\ exact \in Nat /\ low \in Nat
      /\ cacheSize \in Nat /\ cacheSize # 0 /\ rrange \in 0..(Word - 1)
  BY <1>1 DEF TypeOK
<1>3. Len(out) \in Nat
  BY <1>2, BytesAreNats
<1>4. PICK n, k \in Nat : n = Len(out) /\ k = cacheSize
  BY <1>2, <1>3
<1>5. n + k - 1 \in Nat /\ n <= n + k - 1
  BY <1>2, <1>4
<1>6. Shifts \in Nat /\ Len(out) <= Shifts
  BY <1>4, <1>5 DEF Shifts
<1>7. rrange \in Top..(Word - 1) /\ rrange \in Nat /\ rrange >= 1
  BY <1>1, <1>2, Widths
<1>8. Extent \in Nat /\ Extent >= 1
  BY <1>7 DEF Extent
<1> QED
  BY <1>1, <1>2, <1>3, <1>6, <1>7, <1>8

\* A step without a shift, to a part of what there was.
LEMMA WithinKept ==
  ASSUME NEW l \in Nat, NEW r \in Nat, NEW s \in Nat, NEW e \in Nat, NEW x \in Nat,
         s <= Shifts, Shifts \in Nat, exact \in Nat, Extent \in Nat, Within(l, r, s),
         exact <= e, e + x <= exact + Extent,
         exact' = e, Extent' = x, Shifts' = Shifts
  PROVE  Within(l, r, s)'
<1> DEFINE p == Pow(Shifts - s)
<1>1. p \in Nat
  BY PowGrows
<1>2. l * p \in Nat /\ (l + r) * p \in Nat
  BY <1>1
<1>3. l * p <= exact /\ exact + Extent <= (l + r) * p
  BY DEF Within
<1>4. Pow(Shifts' - s) = p
  OBVIOUS
<1> HIDE DEF p
<1>5. l * p <= e /\ e + x <= (l + r) * p
  BY <1>2, <1>3
<1> QED
  BY <1>4, <1>5 DEF Within

\* A step with one.
LEMMA WithinShifted ==
  ASSUME NEW l \in Nat, NEW r \in Nat, NEW s \in Nat, NEW e \in Nat, NEW x \in Nat,
         NEW y \in Nat, s <= Shifts, Shifts \in Nat, exact \in Nat, Extent \in Nat,
         Within(l, r, s), exact <= e, e + x <= exact + Extent, y <= x * Base,
         exact' = e * Base, Extent' = y, Shifts' = Shifts + 1
  PROVE  Within(l, r, s)'
<1> DEFINE p == Pow(Shifts - s)
           a == l * p
           b == (l + r) * p
<1>0. Base \in Nat
  BY Widths
<1>1. p \in Nat
  BY PowGrows
<1>2. a \in Nat /\ b \in Nat
  BY <1>1
<1>3. a <= exact /\ exact + Extent <= b
  BY DEF Within
<1>4. Pow(Shifts' - s) = p * Base
  <2>1. Shifts - s \in Nat /\ Shifts' - s = (Shifts - s) + 1
    OBVIOUS
  <2> QED
    BY <2>1, PowGrows
<1>5. l * (p * Base) = a * Base /\ (l + r) * (p * Base) = b * Base
  BY <1>0, <1>1
<1> HIDE DEF p, a, b
<1>6. a <= e /\ e + x <= b /\ e + x \in Nat
  BY <1>2, <1>3
<1>7. a * Base <= e * Base /\ (e + x) * Base <= b * Base
      /\ (e + x) * Base = e * Base + x * Base
      /\ e * Base \in Nat /\ x * Base \in Nat /\ b * Base \in Nat /\ a * Base \in Nat
  BY <1>0, <1>2, <1>6, TimesMono
<1>8. e * Base + y <= b * Base
  BY <1>7
<1> QED
  BY <1>4, <1>5, <1>7, <1>8 DEF Within

\* What encloses after a bit did so in the part that the bit took.
LEMMA PartEncloses ==
  ASSUME NEW h \in Situations, NEW i \in Items, Shifts \in Nat, Encloses(After(h, i))
  PROVE  h.shifts <= Shifts /\ Within(PartLow(h, i), PartRange(h, i), h.shifts)
<1> DEFINE l == PartLow(h, i)
           r == PartRange(h, i)
           s == h.shifts
<1>1. l \in Nat /\ r \in Nat /\ s \in Nat /\ Base \in Nat
  BY PartInside, Widths DEF Situations
<1>2. CASE r < Top
  <2>1. After(h, i) = [low |-> l * Base, r |-> r * Base,
                       probs |-> Adapted(h, i), shifts |-> s + 1]
    BY <1>2 DEF After
  <2>2. s + 1 <= Shifts /\ Within(l * Base, r * Base, s + 1)
    BY <2>1 DEF Encloses
  <2> HIDE DEF l, r, s
  <2> DEFINE p == Pow(Shifts - (s + 1))
  <2>3. p \in Nat /\ Pow(Shifts - s) = p * Base
    <3>1. Shifts - (s + 1) \in Nat /\ Shifts - s = (Shifts - (s + 1)) + 1
      BY <1>1, <2>2
    <3> QED
      BY <3>1, PowGrows
  <2>4. (l * Base) * p = l * (p * Base) /\ (l * Base + r * Base) * p = (l + r) * (p * Base)
    BY <1>1, <2>3
  <2>5. (l * Base) * p <= exact /\ exact + Extent <= (l * Base + r * Base) * p
    BY <2>2 DEF Within
  <2> HIDE DEF p
  <2>6. Within(l, r, s)
    BY <2>3, <2>4, <2>5 DEF Within
  <2> QED
    BY <1>1, <2>2, <2>6 DEF l, r, s
<1>3. CASE ~(r < Top)
  <2>1. After(h, i) = [low |-> l, r |-> r, probs |-> Adapted(h, i), shifts |-> s]
    BY <1>3 DEF After
  <2> QED
    BY <2>1 DEF Encloses
<1> QED
  BY <1>2, <1>3

LEMMA Cancels ==
  ASSUME NEW a \in Nat, NEW b \in Nat, NEW p \in Nat, a * p < b * p
  PROVE  a < b
<1>1. ASSUME b <= a PROVE FALSE
  <2>1. b * p <= a * p /\ b * p \in Nat /\ a * p \in Nat
    BY <1>1, TimesMono
  <2> QED
    BY <2>1
<1> QED
  BY <1>1

\* The bytes that go with an interval are a number inside it.
LEMMA PrefixWithin ==
  ASSUME IInv, Carried, NEW l \in Nat, NEW r \in Nat, NEW s \in Nat,
         Within(l, r, s), Start + s <= Len(out)
  PROVE  /\ Prefix(Start + s) \in Nat
         /\ l <= Prefix(Start + s) /\ Prefix(Start + s) < l + r
<1> DEFINE x == Prefix(Start + s)
           p == Unit(Start + s)
<1>1. /\ exact \in Nat /\ Extent \in Nat /\ Extent >= 1 /\ Shifts \in Nat
      /\ Len(out) \in Nat /\ Len(out) <= Shifts /\ Start \in Nat
  BY EncoderTypes, Widths
<1>2. Start + s \in 0..Len(out)
  BY <1>1
<1>3. x \in Nat /\ x * p <= exact /\ exact < (x + 1) * p
  BY <1>2, PrefixBounds
<1>4. p = Pow(Shifts - s) /\ p \in Nat
  <2>1. Shifts + Start - (Start + s) = Shifts - s /\ Shifts - s \in Nat
    BY <1>1
  <2> QED
    BY <2>1, PowGrows DEF Unit
<1>5. l * p <= exact /\ exact + Extent <= (l + r) * p
  BY <1>4 DEF Within
<1> HIDE DEF x, p
<1>6. x * p \in Nat /\ (x + 1) * p \in Nat /\ l * p \in Nat /\ (l + r) * p \in Nat
      /\ x + 1 \in Nat /\ l + r \in Nat
  <2>1. x \in Nat /\ p \in Nat
    BY <1>3, <1>4
  <2> QED
    BY <2>1
<1>7. l * p < (x + 1) * p /\ x * p < (l + r) * p
  <2>1. PICK a, b, c, d \in Nat : /\ a = l * p /\ b = (x + 1) * p
                                  /\ c = x * p /\ d = (l + r) * p
    BY <1>6
  <2>2. c <= exact /\ exact < b /\ a <= exact /\ exact + Extent <= d
    BY <1>3, <1>5, <2>1
  <2>3. a < b /\ c < d
    BY <1>1, <2>2
  <2> QED
    BY <2>1, <2>3
<1>8. l < x + 1 /\ x < l + r
  BY <1>3, <1>4, <1>6, <1>7, Cancels
<1> QED
  BY <1>3, <1>8 DEF x
-----------------------------------------------------------------------------
(***************************************************************************)
(* The history of a behaviour: a situation before each bit and after the   *)
(* last.                                                                   *)
(***************************************************************************)
Traces(H) == /\ H \in [0..Len(sent) -> Situations]
             /\ H[0] = First
             /\ \A j \in 1..Len(sent) : H[j] = After(H[j - 1], sent[j])

\* The encoder is in the last of them; flush only shifts on.
Leads(H) == /\ rrange = H[Len(sent)].r /\ probs = H[Len(sent)].probs
            /\ ~ended => exact = H[Len(sent)].low /\ Shifts = H[Len(sent)].shifts
            /\ ended => Shifts + left = H[Len(sent)].shifts + Start

History(H) == Traces(H) /\ Leads(H) /\ \A j \in 0..Len(sent) : Encloses(H[j])

\* Bytes and bits are only appended, and the history with them.
Continues(H, G) ==
  /\ Len(out') >= Len(out) /\ \A k \in 1..Len(out) : out'[k] = out[k]
  /\ Len(sent') >= Len(sent) /\ \A j \in 1..Len(sent) : sent'[j] = sent[j]
  /\ \A j \in 0..Len(sent) : G[j] = H[j]

LEMMA SentTypes == ASSUME IInv PROVE sent \in Seq(Items) /\ Len(sent) \in Nat
<1>1. sent \in Seq(Items)
  BY DEF IInv, TypeOK, Items
<1> QED
  BY <1>1

\* A bit narrows the encoder to the part of its last situation.
LEMMA NarrowHistory ==
  ASSUME IInv, IInv', Carried, NEW H, History(H), ~ended, NEW i \in Items, NEW n,
         n = Len(sent), NEW lo \in Nat, lo + H[n].low = low + PartLow(H[n], i),
         Narrow(lo, PartRange(H[n], i)), sent' = Append(sent, i),
         probs' = Adapted(H[n], i), ended' = ended
  PROVE  Carried' /\ \E G : History(G)' /\ Continues(H, G)
<1> DEFINE h == H[n]
           l == PartLow(h, i)
           r == PartRange(h, i)
           g == After(h, i)
           G == [j \in 0..(n + 1) |-> IF j = n + 1 THEN g ELSE H[j]]
<1>0. /\ sent \in Seq(Items) /\ n \in Nat /\ Shifts \in Nat /\ exact \in Nat
      /\ low \in Nat /\ rrange \in Nat /\ Extent \in Nat /\ Base \in Nat
  BY SentTypes, EncoderTypes, Widths
<1>1. /\ H \in [0..n -> Situations] /\ H[0] = First
      /\ \A j \in 1..n : H[j] = After(H[j - 1], sent[j])
      /\ \A j \in 0..n : Encloses(H[j])
      /\ rrange = h.r /\ exact = h.low /\ Shifts = h.shifts
  BY DEF History, Traces, Leads
<1>2. h \in Situations /\ g \in Situations
  BY <1>0, <1>1, AfterSituation
<1>3. /\ l \in Nat /\ r \in 1..(Word - 1) /\ r \in Nat
      /\ exact <= l /\ l + r <= exact + rrange
  BY SMTT(30), <1>1, <1>2, PartInside, Widths
<1>4. low <= lo /\ lo + r <= low + rrange /\ l + low = exact + lo
  <2>1. lo + exact = low + l
    BY <1>1
  <2> HIDE DEF l, r
  <2>2. PICK a, b, x, q \in Nat : a = low /\ b = l /\ x = exact /\ q = rrange
    BY <1>0, <1>3
  <2>3. lo + x = a + b /\ x <= b /\ b + r <= x + q /\ r \in Nat
    BY <1>3, <2>1, <2>2
  <2>4. a <= lo /\ lo + r <= a + q /\ b + a = x + lo
    BY <2>3
  <2> QED
    BY <2>2, <2>4
<1>5. /\ Carried'
      /\ IF r < Top THEN /\ exact' = l * Base /\ Shifts' = Shifts + 1
                         /\ rrange' = r * Base
                    ELSE exact' = l /\ Shifts' = Shifts /\ rrange' = r
      /\ Len(out') >= Len(out) /\ \A k \in 1..Len(out) : out'[k] = out[k]
  <2> HIDE DEF l, r
  <2>1. Narrow(lo, r)
    BY DEF r
  <2> QED
    BY <1>3, <1>4, <2>1, NarrowCarries
<1>6. /\ exact' = g.low /\ Shifts' = g.shifts /\ rrange' = g.r /\ probs' = g.probs
  <2>1. CASE r < Top
    <3>1. g = [low |-> l * Base, r |-> r * Base,
               probs |-> Adapted(h, i), shifts |-> h.shifts + 1]
      BY <2>1 DEF After
    <3> QED
      BY <1>1, <1>5, <2>1, <3>1
  <2>2. CASE ~(r < Top)
    <3>1. g = [low |-> l, r |-> r, probs |-> Adapted(h, i), shifts |-> h.shifts]
      BY <2>2 DEF After
    <3> QED
      BY <1>1, <1>5, <2>2, <3>1
  <2> QED
    BY <2>1, <2>2
<1>7. /\ Len(sent') = n + 1 /\ sent'[n + 1] = i
      /\ \A j \in 1..n : sent'[j] = sent[j]
  BY <1>0
<1>8. Extent = rrange /\ Extent' = rrange'
  BY DEF Extent
<1>9. ASSUME NEW s \in Situations, Encloses(s) PROVE Encloses(s)'
  <2>1. s.low \in Nat /\ s.r \in Nat /\ s.shifts \in Nat
    BY Widths DEF Situations
  <2>2. s.shifts <= Shifts /\ Within(s.low, s.r, s.shifts)
    BY <1>9 DEF Encloses
  <2> HIDE DEF l, r, g
  <2>3. CASE r < Top
    <3>1. exact' = l * Base /\ Shifts' = Shifts + 1 /\ Extent' = r * Base
      BY <1>5, <1>8, <2>3
    <3>2. r * Base \in Nat /\ r * Base <= r * Base
      BY <1>0, <1>3
    <3>3. l + r <= exact + Extent
      BY <1>3, <1>8
    <3>4. Within(s.low, s.r, s.shifts)'
      BY <1>0, <1>3, <2>1, <2>2, <3>1, <3>2, <3>3, WithinShifted
    <3>5. s.shifts <= Shifts'
      BY <1>0, <2>1, <2>2, <3>1
    <3> QED
      BY <3>4, <3>5 DEF Encloses
  <2>4. CASE ~(r < Top)
    <3>1. exact' = l /\ Shifts' = Shifts /\ Extent' = r
      BY <1>5, <1>8, <2>4
    <3>2. l + r <= exact + Extent
      BY <1>3, <1>8
    <3>3. Within(s.low, s.r, s.shifts)'
      BY <1>0, <1>3, <2>1, <2>2, <3>1, <3>2, WithinKept
    <3> QED
      BY <2>2, <3>1, <3>3 DEF Encloses
  <2> QED
    BY <2>3, <2>4
<1>10. Encloses(g)'
  <2>1. g.low \in Nat /\ g.r \in Nat /\ g.shifts \in Nat
    BY SMTT(30), <1>2, Widths DEF Situations
  <2> HIDE DEF g
  <2>2. Pow(Shifts' - g.shifts) = 1
    <3>1. Shifts' - g.shifts = 0
      BY <1>6, <2>1
    <3> QED
      BY <3>1, PowGrows
  <2>3. g.low * 1 = g.low /\ (g.low + g.r) * 1 = g.low + g.r
    BY <2>1
  <2>4. g.shifts <= Shifts' /\ g.low * 1 <= exact' /\ exact' + Extent' <= (g.low + g.r) * 1
    BY <1>6, <1>8, <2>1, <2>3
  <2> QED
    BY <2>2, <2>4 DEF Encloses, Within
<1> HIDE DEF g
<1>11. /\ G \in [0..(n + 1) -> Situations] /\ G[n + 1] = g
       /\ \A j \in 0..n : G[j] = H[j]
  <2>1. \A j \in 0..(n + 1) : j = n + 1 \/ j \in 0..n
    BY <1>0
  <2>2. \A j \in 0..n : j \in 0..(n + 1) /\ j # n + 1
    BY <1>0
  <2>3. n + 1 \in 0..(n + 1)
    BY <1>0
  <2> QED
    BY <1>1, <1>2, <2>1, <2>2, <2>3
<1> HIDE DEF G
<1>12. G[0] = First /\ \A j \in 1..(n + 1) : G[j] = After(G[j - 1], sent'[j])
  <2>1. 0 \in 0..n /\ n \in 0..n /\ (n + 1) - 1 = n
    BY <1>0
  <2>2. G[0] = First
    BY <1>1, <1>11, <2>1
  <2>3. G[n + 1] = After(G[(n + 1) - 1], sent'[n + 1])
    BY <1>7, <1>11, <2>1 DEF g
  <2>4. ASSUME NEW j \in 1..n PROVE G[j] = After(G[j - 1], sent'[j])
    <3>1. j \in 0..n /\ j - 1 \in 0..n
      BY <1>0
    <3> QED
      BY <1>1, <1>7, <1>11, <3>1
  <2>5. \A j \in 1..(n + 1) : j = n + 1 \/ j \in 1..n
    BY <1>0
  <2> QED
    BY <2>2, <2>3, <2>4, <2>5
<1>13. \A j \in 0..(n + 1) : Encloses(G[j])'
  <2>1. \A j \in 0..(n + 1) : j = n + 1 \/ j \in 0..n
    BY <1>0
  <2>2. ASSUME NEW j \in 0..n PROVE Encloses(G[j])'
    <3>1. H[j] \in Situations /\ Encloses(H[j])
      BY <1>1
    <3>2. Encloses(H[j])'
      BY <1>9, <3>1
    <3>3. G[j] = H[j]
      BY <1>11
    <3> QED
      BY <3>2, <3>3
  <2>3. Encloses(G[n + 1])'
    BY <1>10, <1>11
  <2> QED
    BY <2>1, <2>2, <2>3
<1>14. History(G)'
  <2>1. Traces(G)'
    BY <1>7, <1>11, <1>12 DEF Traces
  <2>2. Leads(G)'
    BY <1>6, <1>7, <1>11 DEF Leads
  <2>3. (\A j \in 0..Len(sent) : Encloses(G[j]))'
    BY <1>7, <1>13
  <2> QED
    BY <2>1, <2>2, <2>3 DEF History
<1>15. Continues(H, G)
  <2>1. Len(sent') >= Len(sent)
    BY <1>0, <1>7
  <2> QED
    BY <1>5, <1>7, <1>11, <2>1 DEF Continues
<1> QED
  BY <1>5, <1>14, <1>15

LEMMA FirstHistory == EncInit => IInv /\ Carried /\ \E H : History(H)
<1> SUFFICES ASSUME EncInit PROVE IInv /\ Carried /\ \E H : History(H)
  OBVIOUS
<1> DEFINE H == [j \in 0..0 |-> First]
<1>1. IInv /\ Carried
  BY InitIInv, InitCarried
<1>2. /\ sent = << >> /\ Len(sent) = 0 /\ exact = 0 /\ rrange = Word - 1 /\ ~ended
      /\ probs = [c \in Ctx |-> ModelTotal \div 2]
      /\ out = << >> /\ cacheSize = 1
  BY DEF EncInit
<1>3. Shifts = 0
  <2>1. Len(out) = 0
    BY <1>2
  <2> QED
    BY <1>2, <2>1 DEF Shifts
<1>4. /\ First.low = 0 /\ First.r = Word - 1 /\ First.shifts = 0
      /\ First.probs = [c \in Ctx |-> ModelTotal \div 2]
  BY DEF First
<1>5. H \in [0..0 -> Situations] /\ H[0] = First
  BY FirstSituation
<1> HIDE DEF H
<1>6. Traces(H)
  <2>1. \A j \in 1..0 : FALSE
    OBVIOUS
  <2> QED
    BY <1>2, <1>5, <2>1 DEF Traces
<1>7. Leads(H)
  BY <1>2, <1>3, <1>4, <1>5 DEF Leads
<1>8. Encloses(First)
  <2>1. Pow(Shifts - 0) = 1
    BY <1>3, PowGrows
  <2>2. Extent = Word - 1 /\ Word \in Nat
    BY <1>2, Widths DEF Extent
  <2>3. 0 * 1 <= 0 /\ 0 + (Word - 1) <= (0 + (Word - 1)) * 1
    BY <2>2
  <2>4. Within(0, Word - 1, 0)
    BY <1>2, <2>1, <2>2, <2>3 DEF Within
  <2> QED
    BY <1>3, <1>4, <2>4 DEF Encloses
<1>9. \A j \in 0..Len(sent) : Encloses(H[j])
  <2>1. \A j \in 0..0 : j = 0
    OBVIOUS
  <2> QED
    BY <1>2, <1>5, <1>8, <2>1
<1> QED
  BY <1>1, <1>6, <1>7, <1>9 DEF History

\* Every step of the encoder continues the history.
LEMMA NextHistory ==
  ASSUME IInv, Carried, NEW H, History(H), [EncNext]_encVars
  PROVE  IInv' /\ Carried' /\ \E G : History(G)' /\ Continues(H, G)
<1>0. IInv'
  BY NextIInv
<1>1. PICK n \in Nat : n = Len(sent)
  BY SentTypes
<1>2. /\ H \in [0..n -> Situations] /\ H[n] \in Situations
      /\ rrange = H[n].r /\ probs = H[n].probs
  <2>1. H \in [0..n -> Situations] /\ rrange = H[n].r /\ probs = H[n].probs
    BY <1>1 DEF History, Traces, Leads
  <2>2. n \in 0..n
    OBVIOUS
  <2> QED
    BY <2>1, <2>2
<1>3. /\ Shifts \in Nat /\ exact \in Nat /\ low \in Nat /\ rrange \in Nat
      /\ Extent \in Nat /\ Extent >= 1 /\ rrange >= 1 /\ TypeOK
      /\ Word \in Nat /\ Base \in Nat /\ Base >= 2 /\ Top \in Nat
      /\ Len(out) \in Nat /\ H[n].low \in Nat
  <2>1. rrange \in Nat /\ rrange >= 1
    BY EncoderTypes, Widths
  <2>2. H[n].low \in Nat
    BY <1>2 DEF Situations
  <2> QED
    BY <2>1, <2>2, EncoderTypes, Widths
<1>4. ASSUME NEW c \in Ctx, NEW bit \in {0, 1}, Encode(c, bit)
      PROVE  Carried' /\ \E G : History(G)' /\ Continues(H, G)
  <2> DEFINE i == [ctx |-> c, bit |-> bit]
  <2>1. i \in Items /\ i.ctx = c /\ i.bit = bit /\ c # Direct
    BY RangeAssumption DEF Items
  <2>2. PICK b \in Nat : b = Bound(rrange, probs[c])
    <3>1. rrange \in Top..(Word - 1) /\ probs[c] \in MinProb..MaxProb
      BY <1>3, EncoderTypes DEF TypeOK
    <3> QED
      BY <3>1, BoundSplit
  <2>3. /\ IF bit = 0 THEN Narrow(low, b) ELSE Narrow(low + b, rrange - b)
        /\ ~ended /\ ended' = ended /\ sent' = Append(sent, i)
        /\ probs' = [probs EXCEPT ![c] = Moved(@, bit)]
    BY <1>4, <2>2 DEF Encode
  <2>4. Split(H[n], c) = b
    BY <1>2, <2>1, <2>2 DEF Split
  <2>5. /\ PartLow(H[n], i) = IF bit = 0 THEN H[n].low ELSE H[n].low + b
        /\ PartRange(H[n], i) = IF bit = 0 THEN b ELSE rrange - b
        /\ Adapted(H[n], i) = probs'
    BY <1>2, <2>1, <2>3, <2>4 DEF PartLow, PartRange, Adapted
  <2> HIDE DEF i
  <2>6. PICK lo \in Nat : lo = IF bit = 0 THEN low ELSE low + b
    BY <1>3
  <2>7. Narrow(lo, PartRange(H[n], i)) /\ lo + H[n].low = low + PartLow(H[n], i)
    BY <1>3, <2>3, <2>5, <2>6
  <2> QED
    BY <1>0, <1>1, <2>1, <2>3, <2>5, <2>7, NarrowHistory
<1>5. ASSUME NEW bit \in {0, 1}, EncodeDirect(bit)
      PROVE  Carried' /\ \E G : History(G)' /\ Continues(H, G)
  <2> DEFINE i == [ctx |-> Direct, bit |-> bit]
  <2>1. i \in Items /\ i.ctx = Direct /\ i.bit = bit
    BY DEF Items
  <2>2. PICK b \in Nat : b = rrange \div 2
    BY <1>3
  <2>3. /\ Narrow(low + bit * b, b)
        /\ ~ended /\ ended' = ended /\ sent' = Append(sent, i) /\ probs' = probs
    BY <1>5, <2>2 DEF EncodeDirect
  <2>4. Split(H[n], Direct) = b
    BY <1>2, <2>2 DEF Split
  <2>5. /\ PartLow(H[n], i) = IF bit = 0 THEN H[n].low ELSE H[n].low + b
        /\ PartRange(H[n], i) = b
        /\ Adapted(H[n], i) = probs'
    BY <1>2, <2>1, <2>3, <2>4 DEF PartLow, PartRange, Adapted
  <2> HIDE DEF i
  <2>6. PICK lo \in Nat : lo = low + bit * b
    BY <1>3
  <2>7. Narrow(lo, PartRange(H[n], i)) /\ lo + H[n].low = low + PartLow(H[n], i)
    <3>1. lo = IF bit = 0 THEN low ELSE low + b
      BY <1>3, <2>6
    <3> QED
      BY <1>3, <2>3, <2>5, <2>6, <3>1
  <2> QED
    BY <1>0, <1>1, <2>1, <2>3, <2>5, <2>7, NarrowHistory
<1>6. ASSUME sent' = sent, rrange' = rrange, probs' = probs,
             \A s \in Situations : Encloses(s) => Encloses(s)',
             ~ended' => ~ended /\ exact' = exact /\ Shifts' = Shifts,
             ended' => Shifts' + left' = H[n].shifts + Start,
             Len(out') >= Len(out), \A k \in 1..Len(out) : out'[k] = out[k]
      PROVE  \E G : History(G)' /\ Continues(H, G)
  <2>1. Traces(H)'
    BY <1>6 DEF History, Traces
  <2>2. Leads(H)'
    BY <1>1, <1>6 DEF History, Leads
  <2>3. (\A j \in 0..Len(sent) : Encloses(H[j]))'
    <3>1. \A j \in 0..n : H[j] \in Situations /\ Encloses(H[j])
      BY <1>1, <1>2 DEF History
    <3>2. Len(sent') = n
      BY <1>1, <1>6
    <3>3. \A j \in 0..n : Encloses(H[j])'
      BY <1>6, <3>1
    <3> QED
      BY <3>2, <3>3
  <2>4. Continues(H, H)
    BY <1>1, <1>6 DEF Continues
  <2> QED
    BY <2>1, <2>2, <2>3, <2>4 DEF History
<1>7. ASSUME StartFlush
      PROVE  Carried' /\ \E G : History(G)' /\ Continues(H, G)
  <2>1. /\ ended' /\ ~ended
        /\ UNCHANGED <<low, rrange, cache, cacheSize, probs, out, sent, exact>>
    BY <1>7 DEF StartFlush
  <2>2. Carried' /\ Shifts' = Shifts
    BY <2>1 DEF Carried, Carries, Shifts
  <2>3. Extent' = 1
    BY <2>1 DEF Extent
  <2>4. Shifts' + left' = H[n].shifts + Start
    <3>1. left' = Start
      BY <1>7 DEF StartFlush, Start
    <3>2. Shifts = H[n].shifts
      BY <1>1, <2>1 DEF History, Leads
    <3> QED
      BY <2>2, <3>1, <3>2
  <2>5. ASSUME NEW s \in Situations, Encloses(s) PROVE Encloses(s)'
    <3>1. s.low \in Nat /\ s.r \in Nat /\ s.shifts \in Nat
      BY Widths DEF Situations
    <3>2. s.shifts <= Shifts /\ Within(s.low, s.r, s.shifts)
      BY <2>5 DEF Encloses
    <3>3. PICK e \in Nat : e = exact
      BY <1>3
    <3>4. exact <= e /\ e + 1 <= exact + Extent /\ exact' = e
      BY <1>3, <2>1, <3>3
    <3>5. 1 \in Nat
      OBVIOUS
    <3>6. Within(s.low, s.r, s.shifts)'
      BY <1>3, <2>2, <2>3, <3>1, <3>2, <3>4, <3>5, WithinKept
    <3> QED
      BY <2>2, <3>2, <3>6 DEF Encloses
  <2>6. Len(out') >= Len(out) /\ \A k \in 1..Len(out) : out'[k] = out[k]
    BY <1>3, <2>1
  <2> QED
    BY <1>6, <2>1, <2>2, <2>5, <2>6, <2>4
<1>8. ASSUME FlushByte
      PROVE  Carried' /\ \E G : History(G)' /\ Continues(H, G)
  <2>1. /\ left > 0 /\ ShiftLow(low) /\ exact' = exact * Base
        /\ UNCHANGED <<rrange, probs, ended, sent>>
    BY <1>8 DEF FlushByte
  <2>2. ended
    <3>1. ~ended => left = 0
      BY DEF IInv
    <3> QED
      BY <2>1, <3>1
  <2>3. PICK e, lo \in Nat : e = exact /\ lo = low
    BY <1>3
  <2>4. lo \in 0..(2 * Word - 1) /\ (cache = Base - 1 => lo < Word)
    BY <1>3, <2>3 DEF TypeOK, IInv, NoSecondCarry
  <2>5. /\ Carries(e * Base, low)' /\ Shifts' = Shifts + 1
        /\ Len(out') >= Len(out) /\ \A k \in 1..Len(out) : out'[k] = out[k]
    <3>1. Carries(e, lo) /\ ShiftLow(lo)
      BY <2>1, <2>3 DEF Carried
    <3> QED
      BY <1>3, <2>3, <2>4, <3>1, ShiftCarries
  <2>6. exact' = e * Base
    BY <2>1, <2>3
  <2>7. Carried'
    BY <2>5, <2>6 DEF Carried, Carries
  <2>8. Extent = 1 /\ Extent' = 1
    BY <2>1, <2>2 DEF Extent
  <2>9. ASSUME NEW s \in Situations, Encloses(s) PROVE Encloses(s)'
    <3>1. s.low \in Nat /\ s.r \in Nat /\ s.shifts \in Nat
      BY Widths DEF Situations
    <3>2. s.shifts <= Shifts /\ Within(s.low, s.r, s.shifts)
      BY <2>9 DEF Encloses
    <3>3. exact <= e /\ e + 1 <= exact + Extent
      BY <1>3, <2>3, <2>8
    <3>4. 1 \in Nat /\ 1 <= 1 * Base
      BY <1>3
    <3>5. Within(s.low, s.r, s.shifts)'
      BY <1>3, <2>5, <2>6, <2>8, <3>1, <3>2, <3>3, <3>4, WithinShifted
    <3>6. s.shifts <= Shifts'
      BY <1>3, <2>5, <3>1, <3>2
    <3> QED
      BY <3>5, <3>6 DEF Encloses
  <2>10. Shifts' + left' = H[n].shifts + Start
    <3>1. left' = left - 1 /\ left \in Int
      BY <1>3, <1>8, WordIsPow DEF FlushByte, TypeOK
    <3>2. Shifts + left = H[n].shifts + Start
      BY <1>1, <2>2 DEF History, Leads
    <3>3. (Shifts + 1) + (left - 1) = Shifts + left
      BY <1>3, <3>1
    <3> QED
      BY <2>5, <3>1, <3>2, <3>3
  <2> QED
    BY <1>6, <2>1, <2>2, <2>5, <2>7, <2>9, <2>10
<1>9. CASE UNCHANGED encVars
  <2>1. /\ UNCHANGED <<low, rrange, cache, cacheSize, probs, out, ended, sent, exact, left>>
    BY <1>9 DEF encVars
  <2>2. Carried' /\ Shifts' = Shifts /\ Extent' = Extent
    BY <2>1 DEF Carried, Carries, Shifts, Extent
  <2>3. ASSUME NEW s \in Situations, Encloses(s) PROVE Encloses(s)'
    BY <2>1, <2>2, <2>3 DEF Encloses, Within
  <2>4. Len(out') >= Len(out) /\ \A k \in 1..Len(out) : out'[k] = out[k]
    BY <1>3, <2>1
  <2>5. ended' => Shifts' + left' = H[n].shifts + Start
    BY <1>1, <2>1, <2>2 DEF History, Leads
  <2>6. \E G : History(G)' /\ Continues(H, G)
    BY <1>6, <2>1, <2>2, <2>3, <2>4, <2>5
  <2> QED
    BY <1>0, <2>2, <2>6
<1> QED
  BY <1>0, <1>4, <1>5, <1>7, <1>8, <1>9 DEF EncNext
-----------------------------------------------------------------------------
(***************************************************************************)
(* flush: each shift leaves one more zero at the end of low, and the one   *)
(* that follows the last byte of a word finds nothing to keep back.        *)
(***************************************************************************)
Flushed == /\ ended /\ left > 0 => \E m \in Nat : low = m * Pow(Start - left)
           /\ ended /\ left = 0 => cacheSize = 1

LEMMA Multiple ==
  ASSUME NEW p \in Nat, NEW a \in Int, NEW l \in Nat, l = a * p
  PROVE  \E c \in Nat : l = c * p
<1>1. CASE a >= 0
  BY <1>1
<1>2. CASE a < 0
  <2>1. p >= 1 => a * p < 0
    BY <1>2
  <2>2. p = 0
    BY <2>1
  <2>3. l = 0 * p
    BY <2>2
  <2> QED
    BY <2>3
<1> QED
  BY <1>1, <1>2

LEMMA ZerosArith ==
  ASSUME NEW q \in Int, NEW b \in Int, NEW z \in Int, NEW m \in Int, NEW h \in Int,
         NEW t \in Int
  PROVE  (m * q - h * (q * b * z)) * b - (q * b * z) * t
           = (m - h * (b * z) - z * t) * (q * b)
OBVIOUS

LEMMA NextFlushed ==
  ASSUME IInv, Flushed, [EncNext]_encVars
  PROVE  Flushed'
<1>0. /\ TypeOK /\ low \in Nat /\ low \in 0..(2 * Word - 1) /\ left \in 0..Start
      /\ Word \in Nat /\ Word > 0 /\ Base \in Nat /\ Base >= 2
      /\ Top \in Nat /\ Top >= 2 /\ Word = Base * Top
      /\ NumBytes \in Nat /\ Start = NumBytes + 1 /\ Pow(NumBytes) = Word
  <2>1. TypeOK /\ low \in Nat
    BY EncoderTypes
  <2>2. low \in 0..(2 * Word - 1) /\ left \in 0..Start
    BY <2>1 DEF TypeOK, Start
  <2> QED
    BY <2>1, <2>2, Widths, WordIsEven, WordIsPow DEF Start
<1>1. ASSUME NEW c \in Ctx, NEW bit \in {0, 1}, Encode(c, bit) PROVE Flushed'
  BY <1>1 DEF Encode, Flushed
<1>2. ASSUME NEW bit \in {0, 1}, EncodeDirect(bit) PROVE Flushed'
  BY <1>2 DEF EncodeDirect, Flushed
<1>3. ASSUME StartFlush PROVE Flushed'
  <2>1. left' = Start /\ low' = low
    BY <1>3 DEF StartFlush, Start
  <2>2. Pow(Start - left') = 1 /\ Start > 0
    <3>1. Start - left' = 0 /\ Start > 0
      BY <1>0, <2>1
    <3> QED
      BY <3>1, PowGrows
  <2>3. low' = low * 1
    BY <1>0, <2>1
  <2> QED
    BY <1>0, <2>1, <2>2, <2>3 DEF Flushed
<1>4. ASSUME FlushByte PROVE Flushed'
  <2>1. left > 0 /\ ShiftLow(low) /\ left' = left - 1 /\ ended' = ended
    BY <1>4 DEF FlushByte
  <2>2. ended
    <3>1. ~ended => left = 0
      BY DEF IInv
    <3> QED
      BY <2>1, <3>1
  <2>3. PICK k \in Nat : k = Start - left /\ k <= NumBytes
    BY <1>0, <2>1
  <2>4. PICK m \in Nat : low = m * Pow(k)
    BY <2>1, <2>2, <2>3 DEF Flushed
  <2>5. PICK x, t, y, l \in Nat :
          /\ l = low' /\ x = (IF low >= Word THEN low - Word ELSE low)
          /\ x = Top * t + y /\ l = y * Base
    <3> DEFINE u == low % Word
    <3>1. /\ u = (IF low >= Word THEN low - Word ELSE low)
          /\ u \div Top \in 0..(Base - 1) /\ u % Top \in 0..(Top - 1)
          /\ u = Top * (u \div Top) + (u % Top)
          /\ (u * Base) % Word = (u % Top) * Base
      BY <1>0, ShiftArith DEF ByteVal
    <3>2. low' = (u * Base) % Word
      BY <2>1 DEF ShiftLow
    <3>3. PICK t, y \in Nat : t = u \div Top /\ y = u % Top
      BY <1>0, <3>1
    <3>4. PICK x \in Nat : x = u
      BY <1>0, <3>1
    <3>5. y * Base \in Nat
      BY <1>0
    <3> QED
      BY <3>1, <3>2, <3>3, <3>4, <3>5
  <2>6. CASE left = 1
    <3>1. k = NumBytes /\ low = m * Word
      BY <1>0, <2>3, <2>4, <2>6
    <3>2. m < 2
      <4>1. ASSUME m >= 2 PROVE FALSE
        <5>1. 2 * Word <= m * Word
          BY <1>0, <4>1, TimesMono
        <5> QED
          BY <1>0, <3>1, <5>1
      <4> QED
        BY <4>1
    <3>3. low = 0 \/ low = Word
      BY <1>0, <3>1, <3>2
    <3>4. low >= Word \/ low < (Base - 1) * Top
      <4>1. (Base - 1) * Top > 0
        <5>1. 1 * Top <= (Base - 1) * Top
          BY <1>0, TimesMono
        <5> QED
          BY <1>0, <5>1
      <4> QED
        BY <1>0, <3>3, <4>1
    <3>5. cacheSize' = 1
      <4>1. ~(low < Word /\ low >= (Base - 1) * Top)
        BY <1>0, <3>4
      <4> QED
        BY <2>1, <4>1 DEF ShiftLow
    <3> QED
      BY <2>1, <2>6, <3>5 DEF Flushed
  <2>7. CASE left # 1
    <3>1. /\ left' > 0 /\ left' # 0 /\ Start - left' = k + 1 /\ k + 1 <= NumBytes
      BY <1>0, <2>1, <2>3, <2>7
    <3>2. PICK q, z \in Nat : /\ q = Pow(k) /\ Pow(k + 1) = q * Base
                              /\ Word = q * Base * z
      <4>1. Pow(k) \in Nat /\ Pow(k + 1) = Pow(k) * Base
        BY PowGrows
      <4>2. NumBytes - (k + 1) \in Nat /\ NumBytes = (k + 1) + (NumBytes - (k + 1))
        BY <1>0, <3>1
      <4>3. Pow(NumBytes) = Pow(k + 1) * Pow(NumBytes - (k + 1))
        BY <4>2, PowAdds
      <4>4. Pow(NumBytes - (k + 1)) \in Nat
        BY <4>2, PowGrows
      <4> QED
        BY <1>0, <4>1, <4>3, <4>4
    <3>3. PICK h \in {0, 1} : x + h * Word = low
      BY <1>0, <2>5
    <3>4. x + h * (q * Base * z) = m * q
      BY <2>4, <3>2, <3>3
    <3>5. l + (q * Base * z) * t = x * Base
      <4>1. x * Base = (Top * t) * Base + y * Base
        BY <1>0, <2>5
      <4>2. (Top * t) * Base = Word * t
        BY <1>0
      <4>3. Word * t \in Nat /\ l \in Nat /\ x * Base \in Nat
        BY <1>0
      <4>4. x * Base = Word * t + l
        BY <2>5, <4>1, <4>2
      <4>5. PICK a, b \in Nat : a = Word * t /\ b = x * Base
        BY <4>3
      <4>6. l + a = b
        BY <4>4, <4>5
      <4> QED
        BY <3>2, <4>5, <4>6
    <3>6. \E a \in Nat : l = a * (q * Base)
      <4>1. PICK b \in Nat : b = Base
        BY <1>0
      <4>2. PICK w, f, g, u, v, p \in Nat :
              /\ w = q * b * z /\ f = h * w /\ g = m * q /\ u = w * t /\ v = x * b
              /\ p = q * b
        OBVIOUS
      <4>3. x + f = g /\ l + u = v
        BY <3>4, <3>5, <4>1, <4>2
      <4>4. x = g - f /\ l = v - u
        BY <4>3
      <4>5. l = (m * q - h * (q * b * z)) * b - (q * b * z) * t
        BY <4>2, <4>4, Zenon
      <4>6. PICK a \in Int : a = m - h * (b * z) - z * t
        OBVIOUS
      <4>7. l = a * p
        BY <4>2, <4>5, <4>6, ZerosArith
      <4>8. \E c \in Nat : l = c * p
        BY <4>7, Multiple
      <4> QED
        BY <4>1, <4>2, <4>8
    <3> QED
      BY <2>5, <3>1, <3>2, <3>6 DEF Flushed
  <2> QED
    BY <2>6, <2>7
<1>5. CASE UNCHANGED encVars
  BY <1>5 DEF encVars, Flushed
<1> QED
  BY <1>1, <1>2, <1>3, <1>4, <1>5 DEF EncNext

-----------------------------------------------------------------------------
(***************************************************************************)
(* The decoder: it is in the situation that the encoder was in after the   *)
(* same number of bits, and its code is what the bytes it has read make    *)
(* above the low end of that interval.                                     *)
(***************************************************************************)
Reads(H) == /\ taken = Start + H[Len(got)].shifts /\ taken <= Len(out)
            /\ code = Prefix(taken) - H[Len(got)].low

Follows(H) == /\ got \in Seq({0, 1}) /\ Len(got) <= Len(sent)
              /\ \A j \in 1..Len(got) : got[j] = sent[j].bit
              /\ drange = H[Len(got)].r /\ dprobs = H[Len(got)].probs
              /\ (taken = 0 /\ got = << >>) \/ Reads(H)

\* What the decoder has read lies in the part that the next bit took.
LEMMA NextPart ==
  ASSUME IInv, Carried, NEW H, History(H), Follows(H), taken > 0,
         NEW n, n = Len(got), n < Len(sent)
  PROVE  /\ n \in Nat /\ H[n] \in Situations /\ sent[n + 1] \in Items
         /\ H[n + 1] = After(H[n], sent[n + 1]) /\ Prefix(taken) \in Nat
         /\ PartLow(H[n], sent[n + 1]) <= Prefix(taken)
         /\ Prefix(taken) < PartLow(H[n], sent[n + 1]) + PartRange(H[n], sent[n + 1])
<1>1. n \in Nat /\ sent \in Seq(Items) /\ Len(sent) \in Nat /\ Shifts \in Nat
  <2>1. got \in Seq({0, 1})
    BY DEF Follows
  <2>2. n \in Nat
    BY <2>1
  <2> QED
    BY <2>2, SentTypes, EncoderTypes
<1>2. /\ n \in 0..Len(sent) /\ n + 1 \in 0..Len(sent) /\ n + 1 \in 1..Len(sent)
      /\ (n + 1) - 1 = n
  BY <1>1
<1>3. /\ H[n] \in Situations /\ H[n + 1] = After(H[n], sent[n + 1])
      /\ Encloses(H[n + 1]) /\ sent[n + 1] \in Items
  BY <1>1, <1>2 DEF History, Traces
<1>4. taken = Start + H[n].shifts /\ taken <= Len(out)
  BY DEF Follows, Reads
<1> DEFINE h == H[n]
           i == sent[n + 1]
<1>5. Encloses(After(h, i))
  BY <1>3
<1>6. PICK l, r, s \in Nat : l = PartLow(h, i) /\ r = PartRange(h, i) /\ s = h.shifts
  <2>1. PartLow(h, i) \in Nat /\ PartRange(h, i) \in 1..(Word - 1) /\ h.shifts \in Nat
    BY <1>3, PartInside DEF Situations
  <2>2. PartRange(h, i) \in Nat
    BY <2>1, Widths
  <2> QED
    BY <2>1, <2>2
<1>7. Within(l, r, s)
  BY <1>1, <1>3, <1>5, <1>6, PartEncloses
<1>8. Start + s <= Len(out) /\ taken = Start + s
  BY <1>4, <1>6
<1>9. Prefix(taken) \in Nat /\ l <= Prefix(taken) /\ Prefix(taken) < l + r
  BY <1>7, <1>8, PrefixWithin
<1> QED
  BY <1>1, <1>3, <1>6, <1>9

LEMMA SumIsNat == ASSUME NEW a \in Nat, NEW b \in Nat PROVE a + b \in Nat
OBVIOUS

LEMMA NextByte ==
  ASSUME NEW a \in Nat, NEW b \in Nat, NEW c \in Nat, NEW d \in Nat, c = a + b, c < d
  PROVE  c + 1 = a + (b + 1) /\ c + 1 <= d
OBVIOUS

\* Following the part that the bit took leads to the next situation.
LEMMA FollowsBit ==
  ASSUME IInv, Carried, NEW H, History(H), Follows(H), taken > 0,
         NEW n, n = Len(got), n < Len(sent),
         NEW v \in Nat, v + PartLow(H[n], sent[n + 1]) = Prefix(taken),
         Follow(v, PartRange(H[n], sent[n + 1])),
         got' = Append(got, sent[n + 1].bit), dprobs' = Adapted(H[n], sent[n + 1]),
         UNCHANGED encVars
  PROVE  Follows(H)'
<1> DEFINE h == H[n]
           i == sent[n + 1]
           l == PartLow(h, i)
           r == PartRange(h, i)
           x == Prefix(taken)
<1>1. /\ n \in Nat /\ h \in Situations /\ i \in Items /\ H[n + 1] = After(h, i)
      /\ x \in Nat /\ l <= x /\ x < l + r
  BY NextPart
<1>2. /\ l \in Nat /\ r \in 1..(Word - 1) /\ r * Base >= Top
  BY <1>1, PartInside
<1>3. /\ Word \in Nat /\ Base \in Nat /\ Top \in Nat /\ Word = Base * Top
      /\ Start \in Nat /\ h.shifts \in Nat /\ r \in Nat
  <2>1. h.shifts \in Nat
    BY <1>1 DEF Situations
  <2> HIDE DEF r
  <2>2. r \in Nat
    BY <1>2, Widths
  <2> QED
    BY <2>1, <2>2, Widths
<1>4. v < r
  <2> HIDE DEF l, r, x
  <2>1. v + l = x
    BY DEF l, x
  <2> QED
    BY <1>1, <1>2, <1>3, <2>1
<1>5. /\ got' \in Seq({0, 1}) /\ Len(got') = n + 1 /\ Len(got') <= Len(sent')
      /\ \A j \in 1..Len(got') : got'[j] = sent'[j].bit
  <2>1. /\ got \in Seq({0, 1}) /\ \A j \in 1..n : got[j] = sent[j].bit
        /\ sent' = sent /\ i.bit \in {0, 1} /\ Len(sent) \in Nat
    BY <1>1, SentTypes DEF Follows, encVars, Items
  <2>2. /\ got' \in Seq({0, 1}) /\ Len(got') = n + 1 /\ got'[n + 1] = i.bit
        /\ \A j \in 1..n : got'[j] = got[j]
    BY <2>1
  <2>3. \A j \in 1..(n + 1) : j = n + 1 \/ j \in 1..n
    BY <1>1
  <2> QED
    BY SMTT(30), <1>1, <2>1, <2>2, <2>3
<1>6. out' = out /\ Prefix(taken)' = Value(SubSeq(out, 1, taken'))
  BY DEF encVars, Prefix
<1>7. taken = Start + h.shifts /\ taken <= Len(out) /\ taken \in Nat /\ out \in Seq(ByteVal)
      /\ Len(out) \in Nat
  <2>1. Reads(H)
    BY DEF Follows
  <2>2. taken = Start + h.shifts /\ taken <= Len(out)
    BY <2>1 DEF Reads
  <2>3. taken \in Nat
    BY <1>3, <2>2, SumIsNat
  <2> QED
    BY <2>2, <2>3, EncoderTypes
<1>8. CASE r < Top
  <2>1. /\ taken < Len(out) /\ code' = (v * Base + out[taken + 1]) % Word
        /\ drange' = (r * Base) % Word /\ taken' = taken + 1
    BY <1>3, <1>8 DEF Follow
  <2>2. After(h, i) = [low |-> l * Base, r |-> r * Base,
                       probs |-> Adapted(h, i), shifts |-> h.shifts + 1]
    BY <1>8 DEF After
  <2>3. drange' = r * Base
    <3>1. r \in 1..(Top - 1)
      BY <1>2, <1>3, <1>8
    <3> QED
      BY <2>1, <3>1, RangeShift
  <2>4. PICK b \in Nat : b = out[taken + 1] /\ b < Base /\ Value(SubSeq(out, 1, taken + 1)) = x * Base + b
    <3>1. /\ out[taken + 1] \in ByteVal
          /\ Value(SubSeq(out, 1, taken + 1)) = x * Base + out[taken + 1]
      BY <1>7, <2>1, PrefixGrows DEF Prefix
    <3>2. PICK b \in ByteVal : b = out[taken + 1]
      BY <3>1
    <3>3. b \in Nat /\ b < Base
      BY <1>3 DEF ByteVal
    <3> HIDE DEF x
    <3> QED
      BY <3>1, <3>2, <3>3
  <2> HIDE DEF l, r, x
  <2>5. v + 1 <= Top
    BY <1>3, <1>4, <1>8
  <2>6. v * Base + b \in 0..(Word - 1)
    <3>1. (v + 1) * Base <= Top * Base /\ (v + 1) * Base = v * Base + Base
          /\ Top * Base = Word /\ v * Base \in Nat
      BY <1>3, <2>5, TimesMono
    <3>2. PICK a, m, w \in Nat : a = v * Base /\ m = Base /\ w = Word
      BY <1>3, <3>1
    <3>3. a + m <= w /\ b < m
      BY <2>4, <3>1, <3>2
    <3>4. a + b \in 0..(w - 1)
      BY <3>3
    <3> QED
      BY <3>2, <3>4
  <2>7. code' = v * Base + b
    <3>1. PICK y \in Nat : y = v * Base + b
      BY <2>6
    <3>2. y \in 0..(Word - 1) /\ y = Word * 0 + y /\ Word > 0
      BY <1>3, <2>6, <3>1
    <3>3. y % Word = y
      BY <1>3, <3>2, DivModUnique
    <3> QED
      BY <2>1, <2>4, <3>1, <3>3
  <2>8. code' = (x * Base + b) - l * Base
    <3>1. v + l = x
      BY DEF l, x
    <3>2. (v + l) * Base = v * Base + l * Base /\ v * Base \in Nat /\ l * Base \in Nat
      BY <1>2, <1>3
    <3>3. PICK a, m \in Nat : a = v * Base /\ m = l * Base
      BY <3>2
    <3>4. x * Base = a + m
      BY <3>1, <3>2, <3>3
    <3>5. (a + m + b) - m = a + b
      OBVIOUS
    <3> QED
      BY <2>7, <3>3, <3>4, <3>5
  <2>9. Prefix(taken)' = x * Base + b
    BY <1>6, <2>1, <2>4
  <2>10. /\ H[n + 1].low = l * Base /\ H[n + 1].r = r * Base
         /\ H[n + 1].probs = dprobs' /\ H[n + 1].shifts = h.shifts + 1
    BY <1>1, <2>2
  <2>11. taken' = Start + (h.shifts + 1) /\ taken' <= Len(out')
    <3>1. PICK a, e, c, d \in Nat : /\ a = Start /\ e = h.shifts
                                    /\ c = taken /\ d = Len(out)
      BY <1>3, <1>7
    <3>2. c = a + e /\ c < d
      BY <1>7, <2>1, <3>1
    <3>3. c + 1 = a + (e + 1) /\ c + 1 <= d
      BY <3>2, NextByte
    <3> QED
      BY <1>6, <2>1, <3>1, <3>3
  <2>12. Reads(H)'
    BY <1>5, <2>8, <2>9, <2>10, <2>11 DEF Reads
  <2> QED
    BY <1>5, <2>3, <2>10, <2>12 DEF Follows
<1>9. CASE ~(r < Top)
  <2>1. code' = v /\ drange' = r /\ taken' = taken
    BY <1>3, <1>9 DEF Follow
  <2>2. After(h, i) = [low |-> l, r |-> r, probs |-> Adapted(h, i), shifts |-> h.shifts]
    BY <1>9 DEF After
  <2>3. Prefix(taken)' = x
    BY <1>6, <2>1 DEF Prefix
  <2>4. v = x - l
    <3> HIDE DEF l, x
    <3>1. v + l = x
      BY DEF l, x
    <3> QED
      BY <1>1, <1>2, <3>1
  <2>5. /\ H[n + 1].low = l /\ H[n + 1].r = r
        /\ H[n + 1].probs = dprobs' /\ H[n + 1].shifts = h.shifts
    BY <1>1, <2>2
  <2> HIDE DEF l, r, x
  <2>6. Reads(H)'
    BY <1>5, <1>6, <1>7, <2>1, <2>3, <2>4, <2>5 DEF Reads
  <2> QED
    BY <1>5, <2>1, <2>5, <2>6 DEF Follows
<1> QED
  BY <1>8, <1>9

\* The sign bit that decodeDirectBits takes of code - rrange.
LEMMA SignBit ==
  ASSUME NEW w \in Nat, NEW h \in Nat, w = 2 * h, h > 0,
         NEW k \in Nat, NEW r \in Nat, 2 * r < w, k < 2 * r
  PROVE  /\ k < r => ((k - r) % w) \div h = 1
         /\ k >= r => ((k - r) % w) \div h = 0 /\ (k - r) % w = k - r
         /\ k % w = k
<1>1. k % w = k
  <2>1. k \in 0..(w - 1) /\ k = w * 0 + k /\ w > 0
    OBVIOUS
  <2> QED
    BY <2>1, DivModUnique
<1>2. ASSUME k < r PROVE ((k - r) % w) \div h = 1
  <2>1. PICK x \in Nat : x = k - r + w
    BY <1>2
  <2>2. (k - r) % w = x
    <3>1. x \in 0..(w - 1) /\ k - r = w * (-1) + x /\ w > 0 /\ k - r \in Int
      BY <1>2, <2>1
    <3> QED
      BY <3>1
  <2>3. x - h \in 0..(h - 1) /\ x = h * 1 + (x - h) /\ 1 \in Nat
    BY <1>2, <2>1
  <2>4. x \div h = 1
    BY <2>3, DivModUnique
  <2> QED
    BY <2>2, <2>4
<1>3. ASSUME k >= r PROVE ((k - r) % w) \div h = 0 /\ (k - r) % w = k - r
  <2>1. PICK x \in Nat : x = k - r
    BY <1>3
  <2>2. x \in 0..(w - 1) /\ x = w * 0 + x /\ w > 0 /\ 0 \in Nat
    BY <1>3, <2>1
  <2>3. x % w = x
    BY <2>2, DivModUnique
  <2>4. x \in 0..(h - 1) /\ x = h * 0 + x
    BY <1>3, <2>1
  <2>5. x \div h = 0
    BY <2>2, <2>4, DivModUnique
  <2> QED
    BY <2>1, <2>3, <2>5
<1> QED
  BY <1>1, <1>2, <1>3

LEMMA StartRead ==
  ASSUME IInv, Carried, NEW H, History(H), Follows(H), ReadStart, UNCHANGED encVars
  PROVE  Follows(H)'
<1>1. taken = 0 /\ Len(out) >= Start /\ taken' = Start
      /\ code' = Prefix(Start) % Word
      /\ drange' = drange /\ dprobs' = dprobs /\ got' = got
      /\ out' = out /\ sent' = sent
  BY DEF ReadStart, encVars, Prefix
<1>2. got = << >> /\ Len(got) = 0
  <2>1. taken = Start + H[Len(got)].shifts /\ H[Len(got)].shifts \in Nat => FALSE
    <3>1. Start >= 1 /\ Start \in Nat
      BY Widths DEF Start
    <3> QED
      BY <1>1, <3>1
  <2>2. H[Len(got)].shifts \in Nat
    <3>1. Len(got) \in 0..Len(sent)
      BY SentTypes DEF Follows
    <3>2. H[Len(got)] \in Situations
      BY <3>1 DEF History, Traces
    <3> QED
      BY <3>2 DEF Situations
  <2>3. got = << >>
    BY <2>1, <2>2 DEF Follows, Reads
  <2> QED
    BY <2>3
<1>3. H[0] = First /\ Encloses(First)
  <2>1. 0 \in 0..Len(sent)
    BY SentTypes
  <2> QED
    BY <2>1 DEF History, Traces
<1>4. First.low = 0 /\ First.r = Word - 1 /\ First.shifts = 0
  BY DEF First
<1>5. Prefix(Start) \in Nat /\ Prefix(Start) < Word - 1
  <2>1. PICK r \in Nat : r = Word - 1
    <3>1. Word > 0 /\ Word \in Nat
      BY Widths, WordIsEven
    <3> QED
      BY <3>1
  <2>2. Within(0, r, 0) /\ 0 \in Nat
    BY <1>3, <1>4, <2>1 DEF Encloses
  <2>3. Start + 0 = Start /\ Start + 0 <= Len(out)
    BY <1>1, Widths, EncoderTypes
  <2>4. Prefix(Start + 0) \in Nat /\ Prefix(Start + 0) < 0 + r
    BY <2>2, <2>3, PrefixWithin
  <2> QED
    BY <2>1, <2>3, <2>4
<1>6. code' = Prefix(Start)
  <2>1. PICK x, w \in Nat : x = Prefix(Start) /\ w = Word
    BY <1>5, Widths
  <2>2. x \in 0..(w - 1) /\ x = w * 0 + x /\ w > 0 /\ 0 \in Nat
    BY <1>5, <2>1
  <2>3. x % w = x
    BY <2>2, DivModUnique
  <2> QED
    BY <1>1, <2>1, <2>3
<1>7. Reads(H)'
  <2>1. Prefix(taken)' = Prefix(Start)
    BY <1>1 DEF Prefix
  <2>2. Start + 0 = Start /\ Prefix(Start) - 0 = Prefix(Start)
    BY <1>5, Widths
  <2>3. taken' = Start + H[Len(got')].shifts /\ code' = Prefix(taken)' - H[Len(got')].low
    BY <1>1, <1>2, <1>3, <1>4, <1>6, <2>1, <2>2
  <2>4. taken' <= Len(out')
    BY <1>1, Widths, EncoderTypes
  <2> QED
    BY <2>3, <2>4 DEF Reads
<1> QED
  BY <1>1, <1>7 DEF Follows

LEMMA BitDecoded ==
  ASSUME IInv, Carried, NEW H, History(H), Follows(H), NEW c \in Ctx, DecodeBit(c),
         UNCHANGED encVars
  PROVE  Follows(H)'
<1>0. taken > 0 /\ Len(got) < Len(sent) /\ sent[Len(got) + 1].ctx = c
  BY DEF DecodeBit
<1>1. PICK n : n = Len(got)
  OBVIOUS
<1> DEFINE h == H[n]
           i == sent[n + 1]
<1>2. /\ n \in Nat /\ h \in Situations /\ i \in Items /\ Prefix(taken) \in Nat
      /\ PartLow(h, i) <= Prefix(taken)
      /\ Prefix(taken) < PartLow(h, i) + PartRange(h, i)
  BY <1>0, <1>1, NextPart
<1>3. /\ drange = h.r /\ dprobs = h.probs /\ code = Prefix(taken) - h.low
      /\ i.ctx = c /\ c # Direct /\ i.bit \in {0, 1}
  <2>1. drange = h.r /\ dprobs = h.probs /\ Reads(H)
    BY <1>0, <1>1 DEF Follows
  <2>2. code = Prefix(taken) - h.low
    BY <1>1, <2>1 DEF Reads
  <2>3. c # Direct
    BY RangeAssumption
  <2> QED
    BY <1>0, <1>1, <1>2, <2>1, <2>2, <2>3 DEF Items
<1>4. PICK b, l, r, x \in Nat :
        b = Bound(drange, dprobs[c]) /\ l = h.low /\ r = h.r /\ x = Prefix(taken)
  <2>1. h.r \in Top..(Word - 1) /\ h.low \in Nat /\ h.probs \in [Ctx -> MinProb..MaxProb]
    BY <1>2 DEF Situations
  <2>2. h.probs[c] \in MinProb..MaxProb
    BY <2>1
  <2>3. Bound(h.r, h.probs[c]) \in 1..(h.r - 1) /\ h.r \in Nat
    BY <2>1, <2>2, BoundSplit, Widths
  <2> QED
    BY <1>2, <1>3, <2>1, <2>3
<1>5. Split(h, c) = b
  BY <1>3, <1>4 DEF Split
<1>6. /\ PartLow(h, i) = IF i.bit = 0 THEN l ELSE l + b
      /\ PartRange(h, i) = IF i.bit = 0 THEN b ELSE r - b
  BY <1>3, <1>4, <1>5 DEF PartLow, PartRange
<1> DEFINE bit == IF code < b THEN 0 ELSE 1
<1>7. /\ IF bit = 0 THEN Follow(code, b) ELSE Follow(code - b, drange - b)
      /\ dprobs' = [dprobs EXCEPT ![c] = Moved(@, bit)]
      /\ got' = Append(got, bit)
  BY <1>4 DEF DecodeBit
<1>8. code = x - l
  BY <1>3, <1>4
<1>9. CASE i.bit = 0
  <2>1. l <= x /\ x < l + b
    BY <1>2, <1>4, <1>6, <1>9
  <2>2. PICK v \in Nat : v = code /\ v + l = x /\ v < b
    BY <1>8, <2>1
  <2>3. bit = i.bit
    BY <1>9, <2>2
  <2>4. v + PartLow(h, i) = Prefix(taken) /\ Follow(v, PartRange(h, i))
    BY <1>4, <1>6, <1>7, <1>9, <2>2, <2>3
  <2>5. got' = Append(got, i.bit) /\ dprobs' = Adapted(h, i)
    BY <1>3, <1>7, <2>3 DEF Adapted
  <2> QED
    BY <1>0, <1>1, <2>4, <2>5, FollowsBit
<1>10. CASE i.bit = 1
  <2>1. l + b <= x /\ x < l + b + (r - b)
    BY <1>2, <1>4, <1>6, <1>10
  <2>2. PICK v \in Nat : v = code - b /\ v + (l + b) = x /\ ~(code < b)
    BY <1>8, <2>1
  <2>3. bit = i.bit
    BY <1>10, <2>2
  <2>4. v + PartLow(h, i) = Prefix(taken) /\ Follow(v, PartRange(h, i))
    BY <1>3, <1>4, <1>6, <1>7, <1>10, <2>2, <2>3
  <2>5. got' = Append(got, i.bit) /\ dprobs' = Adapted(h, i)
    BY <1>3, <1>7, <2>3 DEF Adapted
  <2> QED
    BY <1>0, <1>1, <2>4, <2>5, FollowsBit
<1> QED
  BY <1>3, <1>9, <1>10

LEMMA DirectDecoded ==
  ASSUME IInv, Carried, NEW H, History(H), Follows(H), DecodeDirect, UNCHANGED encVars
  PROVE  Follows(H)'
<1>0. taken > 0 /\ Len(got) < Len(sent) /\ sent[Len(got) + 1].ctx = Direct
  BY DEF DecodeDirect
<1>1. PICK n : n = Len(got)
  OBVIOUS
<1> DEFINE h == H[n]
           i == sent[n + 1]
<1>2. /\ n \in Nat /\ h \in Situations /\ i \in Items /\ Prefix(taken) \in Nat
      /\ PartLow(h, i) <= Prefix(taken)
      /\ Prefix(taken) < PartLow(h, i) + PartRange(h, i)
  BY <1>0, <1>1, NextPart
<1>3. /\ drange = h.r /\ dprobs = h.probs /\ code = Prefix(taken) - h.low
      /\ i.ctx = Direct /\ i.bit \in {0, 1}
  <2>1. drange = h.r /\ dprobs = h.probs /\ Reads(H)
    BY <1>0, <1>1 DEF Follows
  <2>2. code = Prefix(taken) - h.low
    BY <1>1, <2>1 DEF Reads
  <2> QED
    BY <1>0, <1>1, <1>2, <2>1, <2>2 DEF Items
<1>4. PICK r, l, x, w, f \in Nat :
        /\ r = drange \div 2 /\ l = h.low /\ x = Prefix(taken)
        /\ w = Word /\ f = Word \div 2 /\ w = 2 * f /\ f > 0 /\ 2 * r < w
  <2>1. h.r \in Top..(Word - 1) /\ h.low \in Nat
    BY <1>2 DEF Situations
  <2>2. h.r \in Nat /\ h.r < Word /\ Word \in Nat /\ Word > 0
    BY <2>1, Widths, WordIsEven
  <2>3. h.r \div 2 \in Nat /\ 2 * (h.r \div 2) < Word
    BY <2>2
  <2>4. Word \div 2 \in Nat /\ Word = 2 * (Word \div 2) /\ Word \div 2 > 0
    BY <2>2, WordIsEven
  <2> QED
    BY <1>2, <1>3, <2>1, <2>2, <2>3, <2>4
<1>5. Split(h, Direct) = r
  BY <1>3, <1>4 DEF Split
<1>6. /\ PartLow(h, i) = IF i.bit = 0 THEN l ELSE l + r
      /\ PartRange(h, i) = r
  BY <1>3, <1>4, <1>5 DEF PartLow, PartRange
<1> DEFINE t == ((code - r) % w) \div f
<1>7. /\ Follow((code - r * (1 - t)) % w, r)
      /\ got' = Append(got, 1 - t) /\ dprobs' = Adapted(h, i)
  BY <1>3, <1>4 DEF DecodeDirect, Adapted
<1>8. code = x - l
  BY <1>3, <1>4
<1>9. CASE i.bit = 0
  <2>1. l <= x /\ x < l + r
    BY <1>2, <1>4, <1>6, <1>9
  <2>2. PICK v \in Nat : v = code /\ v + l = x /\ v < r /\ v < 2 * r
    BY <1>8, <2>1
  <2>3. t = 1 /\ v % w = v
    <3>1. w = 2 * f /\ f > 0 /\ 2 * r < w /\ v < 2 * r /\ v < r
      BY <1>4, <2>2
    <3>2. ((v - r) % w) \div f = 1 /\ v % w = v
      BY <3>1, SignBit
    <3> QED
      BY <2>2, <3>2, Zenon
  <2> HIDE DEF t
  <2>4. code - r * (1 - t) = v /\ 1 - t = 0
    BY <2>2, <2>3
  <2>5. v + PartLow(h, i) = Prefix(taken) /\ Follow(v, PartRange(h, i))
        /\ got' = Append(got, i.bit)
    BY <1>4, <1>6, <1>7, <1>9, <2>2, <2>3, <2>4
  <2> QED
    BY <1>0, <1>1, <1>7, <2>5, FollowsBit
<1>10. CASE i.bit = 1
  <2>1. l + r <= x /\ x < (l + r) + r
    BY <1>2, <1>4, <1>6, <1>10
  <2>2. PICK k \in Nat : k = code /\ k + l = x /\ k >= r /\ k < 2 * r
    BY <1>8, <2>1
  <2>3. PICK v \in Nat : v = k - r /\ v + (l + r) = x
    BY <2>2
  <2>4. t = 0 /\ (k - r) % w = v
    BY <1>4, <2>2, <2>3, SignBit
  <2> HIDE DEF t
  <2>5. code - r * (1 - t) = k - r /\ 1 - t = 1
    BY <2>2, <2>4
  <2>6. v + PartLow(h, i) = Prefix(taken) /\ Follow(v, PartRange(h, i))
        /\ got' = Append(got, i.bit)
    BY <1>4, <1>6, <1>7, <1>10, <2>3, <2>4, <2>5
  <2> QED
    BY <1>0, <1>1, <1>7, <2>6, FollowsBit
<1> QED
  BY <1>3, <1>9, <1>10

\* A step of the encoder leaves behind all that the decoder has read.
LEMMA EncoderGoesOn ==
  ASSUME IInv, NEW H, NEW G, History(H), Follows(H), Continues(H, G), IInv',
         UNCHANGED decVars
  PROVE  Follows(G)'
<1>1. /\ code' = code /\ drange' = drange /\ dprobs' = dprobs
      /\ taken' = taken /\ got' = got
  BY DEF decVars
<1>2. PICK n \in Nat : n = Len(got) /\ n <= Len(sent)
  BY DEF Follows
<1>3. /\ Len(sent) \in Nat /\ Len(sent') \in Nat /\ Len(out) \in Nat /\ Len(out') \in Nat
      /\ out \in Seq(ByteVal) /\ out' \in Seq(ByteVal)
  <2>1. sent' \in Seq(Items) /\ out' \in Seq(ByteVal)
    BY DEF IInv, TypeOK, Items
  <2>2. Len(sent') \in Nat /\ Len(out') \in Nat
    BY <2>1
  <2> QED
    BY <2>1, <2>2, SentTypes, EncoderTypes
<1>4. /\ Len(out') >= Len(out) /\ \A k \in 1..Len(out) : out'[k] = out[k]
      /\ Len(sent') >= Len(sent) /\ \A j \in 1..Len(sent) : sent'[j] = sent[j]
      /\ G[n] = H[n]
  BY <1>2, <1>3 DEF Continues
<1>5. n <= Len(sent') /\ \A j \in 1..n : got[j] = sent'[j].bit
  <2>1. n <= Len(sent')
    BY <1>2, <1>3, <1>4
  <2>2. \A j \in 1..n : got[j] = sent[j].bit /\ j \in 1..Len(sent)
    BY <1>2, <1>3 DEF Follows
  <2> QED
    BY <1>4, <2>1, <2>2
<1>6. CASE taken = 0 /\ got = << >>
  BY <1>1, <1>2, <1>4, <1>5, <1>6 DEF Follows
<1>7. CASE Reads(H)
  <2>1. taken = Start + H[n].shifts /\ taken <= Len(out) /\ code = Prefix(taken) - H[n].low
    BY <1>2, <1>7 DEF Reads
  <2>2. H[n] \in Situations
    <3>1. n \in 0..Len(sent)
      BY <1>2, <1>3
    <3> QED
      BY <3>1 DEF History, Traces
  <2>3. taken \in Nat
    <3>1. Start \in Nat /\ H[n].shifts \in Nat
      BY <2>2, Widths DEF Situations
    <3> QED
      BY <2>1, <3>1, SumIsNat
  <2>4. Prefix(taken)' = Prefix(taken)
    <3>1. PICK T \in Nat : T = taken
      BY <2>3
    <3>2. T <= Len(out) /\ T <= Len(out')
      BY <1>3, <1>4, <2>1, <3>1
    <3>3. SubSeq(out', 1, T) = [k \in 1..T |-> out'[k]]
          /\ SubSeq(out, 1, T) = [k \in 1..T |-> out[k]]
      BY <1>3, <3>2
    <3>4. \A k \in 1..T : out'[k] = out[k]
      <4>1. \A k \in 1..T : k \in 1..Len(out)
        BY <1>3, <3>2
      <4> QED
        BY <1>4, <4>1
    <3>5. SubSeq(out', 1, T) = SubSeq(out, 1, T)
      BY <3>3, <3>4
    <3> QED
      BY <1>1, <3>1, <3>5 DEF Prefix
  <2>5. taken <= Len(out')
    BY <1>3, <1>4, <2>1, <2>3
  <2>6. Reads(G)'
    BY <1>1, <1>2, <1>4, <2>1, <2>4, <2>5 DEF Reads
  <2> QED
    BY <1>1, <1>2, <1>4, <1>5, <2>6 DEF Follows
<1> QED
  BY <1>6, <1>7 DEF Follows

-----------------------------------------------------------------------------
(***************************************************************************)
(* The invariant of both sides.                                            *)
(***************************************************************************)
CInv == IInv /\ Carried /\ Flushed /\ \E H : History(H) /\ Follows(H)

LEMMA InitCInv == Init => CInv
<1> SUFFICES ASSUME Init PROVE CInv
  OBVIOUS
<1>1. EncInit /\ DecInit
  BY DEF Init
<1>2. IInv /\ Carried
  BY <1>1, FirstHistory
<1>3. PICK H : History(H)
  BY <1>1, FirstHistory
<1>4. /\ got = << >> /\ taken = 0 /\ drange = Word - 1
      /\ dprobs = [c \in Ctx |-> ModelTotal \div 2]
  BY <1>1 DEF DecInit
<1>5. H[0] = First
  BY <1>3 DEF History, Traces
<1>6. H[0].r = Word - 1 /\ H[0].probs = [c \in Ctx |-> ModelTotal \div 2]
  BY <1>5 DEF First
<1>7. got \in Seq({0, 1}) /\ Len(got) = 0
  BY <1>4
<1>8. Follows(H)
  <2>1. Len(got) <= Len(sent) /\ \A j \in 1..Len(got) : FALSE
    BY <1>2, <1>7, SentTypes
  <2> QED
    BY <1>4, <1>6, <1>7, <2>1 DEF Follows
<1>9. Flushed
  BY <1>1 DEF EncInit, Flushed
<1> QED
  BY <1>2, <1>3, <1>8, <1>9 DEF CInv

LEMMA NextCInv == CInv /\ [Next]_vars => CInv'
<1> SUFFICES ASSUME CInv, [Next]_vars PROVE CInv'
  OBVIOUS
<1>1. IInv /\ Carried /\ Flushed
  BY DEF CInv
<1>2. PICK H : History(H) /\ Follows(H)
  BY DEF CInv
<1>3. CASE [EncNext]_encVars /\ UNCHANGED decVars
  <2>1. IInv' /\ Carried'
    BY <1>1, <1>2, <1>3, NextHistory
  <2>2. PICK G : History(G)' /\ Continues(H, G)
    BY <1>1, <1>2, <1>3, NextHistory
  <2>3. Follows(G)'
    BY <1>1, <1>2, <1>3, <2>1, <2>2, EncoderGoesOn
  <2>4. Flushed'
    BY <1>1, <1>3, NextFlushed
  <2> QED
    BY <2>1, <2>2, <2>3, <2>4 DEF CInv
<1>4. CASE Decode /\ UNCHANGED encVars
  <2>1. Follows(H)'
    BY <1>1, <1>2, <1>4, StartRead, BitDecoded, DirectDecoded DEF Decode
  <2>2. /\ UNCHANGED <<low, rrange, cache, cacheSize, probs, out, left, ended, sent, exact>>
    BY <1>4 DEF encVars
  <2>3. IInv'
    BY <1>1, <1>4, NextIInv
  <2>4. Carried'
    BY <1>1, <2>2 DEF Carried, Carries
  <2>5. History(H)'
    BY <1>2, <2>2 DEF History, Traces, Leads, Encloses, Within, Extent, Shifts
  <2>6. Flushed'
    BY <1>1, <2>2 DEF Flushed
  <2> QED
    BY <2>1, <2>3, <2>4, <2>5, <2>6 DEF CInv
<1>5. CASE UNCHANGED vars
  <2>1. UNCHANGED encVars /\ UNCHANGED decVars
    BY <1>5 DEF vars
  <2> QED
    BY <1>3, <2>1
<1> QED
  BY <1>3, <1>4, <1>5 DEF Next

LEMMA CInvariance == Spec => []CInv
<1>1. Init => CInv
  BY InitCInv
<1>2. CInv /\ [Next]_vars => CInv'
  BY NextCInv
<1> QED
  BY <1>1, <1>2, PTL DEF Spec

\* shiftLow and its pending 0xFF bytes lose no carry: cache, the bytes already
\* written and low are the sum of all bounds added to low, at every step.
THEOREM NoCarryLost == Spec => []CarryExact
<1>1. CInv => CarryExact
  BY CarriedIsExact DEF CInv, IInv
<1> QED
  BY <1>1, CInvariance, PTL

\* decodeBit and decodeDirectBits always find the code below the range.
THEOREM CodeStaysInRange == Spec => []CodeInRange
<1>1. CInv => CodeInRange
  <2> SUFFICES ASSUME CInv, taken > 0 PROVE code < drange
    BY DEF CodeInRange
  <2>1. IInv /\ Carried
    BY DEF CInv
  <2>2. PICK H : History(H) /\ Follows(H)
    BY DEF CInv
  <2>3. PICK n \in Nat : n = Len(got) /\ n <= Len(sent)
    BY <2>2 DEF Follows
  <2>4. H[n] \in Situations /\ Encloses(H[n])
    <3>1. n \in 0..Len(sent)
      BY <2>1, <2>3, SentTypes
    <3> QED
      BY <2>2, <3>1 DEF History, Traces
  <2>5. /\ taken = Start + H[n].shifts /\ taken <= Len(out)
        /\ code = Prefix(taken) - H[n].low /\ drange = H[n].r
    BY <2>2, <2>3 DEF Follows, Reads
  <2>6. PICK l, r, s \in Nat : l = H[n].low /\ r = H[n].r /\ s = H[n].shifts
    BY <2>4, Widths DEF Situations
  <2>7. Within(l, r, s) /\ Start + s <= Len(out) /\ taken = Start + s
    BY <2>4, <2>5, <2>6 DEF Encloses
  <2>8. /\ Prefix(taken) \in Nat /\ l <= Prefix(taken) /\ Prefix(taken) < l + r
    BY <2>1, <2>7, PrefixWithin
  <2>9. PICK x \in Nat : x = Prefix(taken)
    BY <2>8
  <2>10. x - l < r
    BY <2>8, <2>9
  <2> QED
    BY <2>5, <2>6, <2>9, <2>10
<1> QED
  BY <1>1, CInvariance, PTL

\* rangeDecoder returns the bits that rangeEncoder was given, and shares its
\* range and probabilities after the same number of bits: for any sequence of
\* bits and contexts, at any widths that satisfy the assumptions.
THEOREM DecoderFollows == Spec => []DecodesWhatWasSent
<1>1. CInv => DecodesWhatWasSent
  <2> SUFFICES ASSUME CInv PROVE DecodesWhatWasSent
    OBVIOUS
  <2>1. PICK H : History(H) /\ Follows(H)
    BY DEF CInv
  <2>2. Len(got) = Len(sent) => drange = rrange /\ dprobs = probs
    BY <2>1 DEF History, Leads, Follows
  <2> QED
    BY <2>1, <2>2 DEF DecodesWhatWasSent, Follows
<1> QED
  BY <1>1, CInvariance, PTL

\* The part of ReadsExactlyFlushed that is no liveness: when flush has run, the
\* decoder has enough to start with, and once it has decoded every bit there is
\* no byte left for whatever follows in the stream.
FlushIsExact ==
  ended /\ left = 0 => /\ Len(out) >= Start
                       /\ taken > 0 /\ Len(got) = Len(sent) => taken = Len(out)

\* flush writes enough for the decoder to start, and nothing that it does not
\* read by the time it has decoded every bit.
THEOREM FlushesExactly == Spec => []FlushIsExact
<1>1. CInv => FlushIsExact
  <2> SUFFICES ASSUME CInv, ended, left = 0
               PROVE  /\ Len(out) >= Start
                      /\ taken > 0 /\ Len(got) = Len(sent) => taken = Len(out)
    BY DEF FlushIsExact
  <2>1. IInv /\ cacheSize = 1
    BY DEF CInv, Flushed
  <2>2. PICK H : History(H) /\ Follows(H)
    BY DEF CInv
  <2>3. Len(out) = Shifts /\ Len(out) \in Nat
    <3>1. Len(out) \in Nat
      BY <2>1, EncoderTypes
    <3>2. Len(out) + 1 - 1 = Len(out)
      BY <3>1
    <3> QED
      BY <2>1, <3>1, <3>2 DEF Shifts
  <2>4. PICK s \in Nat : s = H[Len(sent)].shifts
    <3>1. Len(sent) \in 0..Len(sent)
      BY <2>1, SentTypes
    <3>2. H[Len(sent)] \in Situations
      BY <2>2, <3>1 DEF History, Traces
    <3> QED
      BY <3>2 DEF Situations
  <2>5. Len(out) = s + Start
    <3>1. Shifts + 0 = s + Start
      BY <2>2, <2>4 DEF History, Leads
    <3> QED
      BY <2>3, <3>1
  <2>6. Len(out) >= Start /\ s + Start = Start + s
    BY <2>4, <2>5, Widths
  <2>7. taken > 0 /\ Len(got) = Len(sent) => taken = Start + s
    BY <2>2, <2>4 DEF Follows, Reads
  <2> QED
    BY <2>5, <2>6, <2>7
<1> QED
  BY <1>1, CInvariance, PTL
=============================================================================
