---------------------------- MODULE StreamProofs ----------------------------
(***************************************************************************)
(* Proofs about the header, for dictionaries, sizes and levels of any kind *)
(* and any number of bytes: what was asked for comes back from the bytes,  *)
(* no first byte is accepted that stands for anything else than legal      *)
(* properties, and behind an accepted header each literal has a coder; and *)
(* about SymbolCoding and SymbolPrices, for every number of bits, slots    *)
(* and alignment bits, and every set of symbols: what a coder sends its    *)
(* decoder reads back, within the arrays, and at the price expected.       *)
(***************************************************************************)
EXTENDS Stream, SequenceTheorems, NaturalsInduction, WellFoundedInduction, TLAPS

(***************************************************************************)
(* Inductions, each over a set of naturals.                                *)
(***************************************************************************)
LEMMA Least ==
  ASSUME NEW T, T \subseteq Nat, T # {}
  PROVE  \E x \in T : \A y \in T : x <= y
<1>1. PICK x \in T : \A y \in T : ~ (<<y, x>> \in OpToRel(<, Nat))
  BY NatLessThanWellFounded, WFMin
<1>2. \A y \in T : ~(y < x)
  BY <1>1 DEF OpToRel
<1> QED
  BY <1>2

LEMMA Upwards ==
  ASSUME NEW T, 0 \in T, \A i \in Nat : i \in T => i + 1 \in T
  PROVE  Nat \subseteq T
<1> DEFINE U == Nat \ T
<1>1. ASSUME U # {} PROVE FALSE
  <2>1. PICK i \in U : \A j \in U : i <= j
    <3>1. U \subseteq Nat
      OBVIOUS
    <3> HIDE DEF U
    <3> QED
      BY <1>1, <3>1, Least
  <2>2. i \in Nat /\ i # 0 /\ i \notin T
    OBVIOUS
  <2>3. i - 1 \in Nat /\ (i - 1) + 1 = i /\ i - 1 \notin U
    BY <2>1, <2>2
  <2> QED
    BY <2>2, <2>3
<1> QED
  BY <1>1

LEMMA UpTo ==
  ASSUME NEW n \in Nat, NEW T, 0 \in T, \A i \in 1..n : i - 1 \in T => i \in T
  PROVE  0..n \subseteq T
<1> DEFINE U == T \cup {i \in Nat : i > n}
<1>1. \A i \in Nat : i \in U => i + 1 \in U
  <2> TAKE i \in Nat
  <2>1. CASE i + 1 > n
    BY <2>1
  <2>2. CASE i + 1 <= n
    <3>1. i + 1 \in 1..n /\ (i + 1) - 1 = i /\ ~(i > n)
      BY <2>2
    <3> QED
      BY <3>1
  <2> QED
    BY <2>1, <2>2
<1>2. 0 \in U
  OBVIOUS
<1>3. Nat \subseteq U
  <2> HIDE DEF U
  <2> QED
    BY <1>1, <1>2, Upwards
<1> QED
  BY <1>3

(***************************************************************************)
(* Steps. A function with its equation exists, so it is one.               *)
(***************************************************************************)
Follows(q, first, F, n) == q[0] = first /\ \A i \in 1..n : q[i] = F[i][q[i - 1]]

LEMMA FollowsExists ==
  ASSUME NEW S, NEW first \in S, NEW n \in Nat, NEW F \in [1..n -> [S -> S]]
  PROVE  \E q \in [0..n -> S] : Follows(q, first, F, n)
<1> DEFINE T == {i \in 0..n : \E q \in [0..i -> S] : Follows(q, first, F, i)}
<1>1. 0 \in T
  <2>1. [k \in 0..0 |-> first] \in [0..0 -> S] /\ [k \in 0..0 |-> first][0] = first
    OBVIOUS
  <2>2. Follows([k \in 0..0 |-> first], first, F, 0)
    BY <2>1 DEF Follows
  <2> QED
    BY <2>1, <2>2
<1>2. ASSUME NEW i \in 1..n, i - 1 \in T PROVE i \in T
  <2>1. PICK q \in [0..(i - 1) -> S] : Follows(q, first, F, i - 1)
    BY <1>2
  <2> DEFINE last == F[i][q[i - 1]]
             w == [k \in 0..i |-> IF k = i THEN last ELSE q[k]]
  <2>2. last \in S
    <3>1. q[i - 1] \in S /\ F[i] \in [S -> S]
      BY <2>1
    <3> QED
      BY <3>1
  <2> HIDE DEF last
  <2>3. w \in [0..i -> S]
    <3>1. \A k \in 0..i : k # i => k \in 0..(i - 1)
      OBVIOUS
    <3> QED
      BY <2>1, <2>2, <3>1
  <2>4. w[0] = first
    <3>1. 0 \in 0..i /\ 0 # i
      OBVIOUS
    <3>2. q[0] = first
      BY <2>1 DEF Follows
    <3> QED
      BY <3>1, <3>2
  <2>5. \A k \in 1..i : w[k] = F[k][w[k - 1]]
    <3>1. ASSUME NEW k \in 1..(i - 1) PROVE w[k] = F[k][w[k - 1]]
      <4>1. k \in 0..i /\ k - 1 \in 0..i /\ k # i /\ k - 1 # i
        OBVIOUS
      <4>2. w[k] = q[k] /\ w[k - 1] = q[k - 1]
        BY <4>1
      <4> HIDE DEF w
      <4> QED
        BY <2>1, <4>2 DEF Follows
    <3>2. w[i] = F[i][w[i - 1]]
      <4>1. i \in 0..i /\ i - 1 \in 0..i /\ i - 1 # i
        OBVIOUS
      <4>2. w[i] = last /\ w[i - 1] = q[i - 1]
        BY <4>1
      <4> HIDE DEF w
      <4> QED
        BY <4>2 DEF last
    <3>3. \A k \in 1..i : k = i \/ k \in 1..(i - 1)
      OBVIOUS
    <3> HIDE DEF w
    <3> QED
      BY <3>1, <3>2, <3>3
  <2>6. Follows(w, first, F, i)
    BY <2>4, <2>5 DEF Follows
  <2>7. i \in 0..n
    OBVIOUS
  <2> HIDE DEF w
  <2> QED
    BY <2>3, <2>6, <2>7
<1>3. n \in T
  <2>1. n \in 0..n
    OBVIOUS
  <2> HIDE DEF T
  <2> QED
    BY <1>1, <1>2, <2>1, UpTo
<1> QED
  BY <1>3

LEMMA StepsFollow ==
  ASSUME NEW S, NEW first \in S, NEW n \in Nat, NEW F \in [1..n -> [S -> S]]
  PROVE  Steps(first, F, n) \in [0..n -> S] /\ Follows(Steps(first, F, n), first, F, n)
<1> DEFINE Rec(q) == [i \in 0..n |-> IF i = 0 THEN first ELSE F[i][q[i - 1]]]
           g == CHOOSE q : q = Rec(q)
<1>1. PICK f \in [0..n -> S] : Follows(f, first, F, n)
  BY FollowsExists
<1>2. f = Rec(f)
  <2>1. \A i \in 0..n : f[i] = IF i = 0 THEN first ELSE F[i][f[i - 1]]
    <3> TAKE i \in 0..n
    <3>1. CASE i = 0
      BY <1>1, <3>1 DEF Follows
    <3>2. CASE i # 0
      <4>1. i \in 1..n
        BY SMTT(30), <3>2
      <4> QED
        BY <1>1, <3>2, <4>1 DEF Follows
    <3> QED
      BY <3>1, <3>2
  <2> QED
    BY <2>1
<1>3. g = Rec(g)
  BY <1>2
<1>4. Steps(first, F, n) = g
  BY DEF Steps
<1> HIDE DEF g
<1>5. \A i \in 0..n : g[i] = IF i = 0 THEN first ELSE F[i][g[i - 1]]
  BY <1>3
<1>6. Follows(g, first, F, n)
  <2>1. 0 \in 0..n /\ \A i \in 1..n : i \in 0..n /\ i # 0
    OBVIOUS
  <2> QED
    BY <1>5, <2>1 DEF Follows
<1>7. \A i \in 0..n : g[i] = f[i]
  <2> DEFINE T == {i \in 0..n : g[i] = f[i]}
  <2>1. 0 \in T /\ \A i \in 1..n : i - 1 \in T => i \in T
    BY <1>1, <1>6 DEF Follows
  <2>2. 0..n \subseteq T
    <3> HIDE DEF T
    <3> QED
      BY <2>1, UpTo
  <2> QED
    BY <2>2
<1>8. g = f
  BY <1>2, <1>3, <1>7
<1> QED
  BY <1>1, <1>4, <1>8

\* Fewer of the same steps come as far.
LEMMA FewerSteps ==
  ASSUME NEW first \in Nat, NEW n \in Nat, NEW k \in 0..n,
         NEW F \in [1..n -> [Nat -> Nat]], NEW G \in [1..k -> [Nat -> Nat]],
         \A i \in 1..k : G[i] = F[i]
  PROVE  Steps(first, G, k)[k] = Steps(first, F, n)[k]
<1> DEFINE p == Steps(first, G, k)
           q == Steps(first, F, n)
           T == {i \in 0..k : p[i] = q[i]}
<1>1. k \in Nat
  OBVIOUS
<1>2. Follows(p, first, G, k)
  BY <1>1, StepsFollow
<1>3. Follows(q, first, F, n)
  BY StepsFollow
<1> HIDE DEF p, q
<1>4. 0 \in T
  BY <1>1, <1>2, <1>3 DEF Follows
<1>5. ASSUME NEW i \in 1..k, i - 1 \in T PROVE i \in T
  <2>1. i \in 1..n /\ i \in 0..k
    BY <1>1
  <2>2. p[i - 1] = q[i - 1]
    BY <1>5
  <2>3. p[i] = G[i][p[i - 1]] /\ q[i] = F[i][q[i - 1]]
    BY <1>2, <1>3, <2>1, <2>2 DEF Follows
  <2> QED
    BY <2>1, <2>2, <2>3
<1>6. k \in T
  <2>1. 0..k \subseteq T
    <3> HIDE DEF T
    <3> QED
      BY <1>1, <1>4, <1>5, UpTo
  <2>2. k \in 0..k
    BY <1>1
  <2> HIDE DEF T
  <2> QED
    BY <2>1, <2>2
<1> QED
  BY <1>6 DEF p, q
-----------------------------------------------------------------------------
(***************************************************************************)
(* Powers of two and shifts.                                               *)
(***************************************************************************)
LEMMA TwoToStep ==
  ASSUME NEW n \in Nat
  PROVE  TwoTo(0) = 1 /\ TwoTo(n) \in Nat /\ TwoTo(n + 1) = 2 * TwoTo(n)
<1> DEFINE F(k) == [i \in 1..k |-> [x \in Nat |-> 2 * x]]
<1>1. \A k : F(k) \in [1..k -> [Nat -> Nat]]
  OBVIOUS
<1>2. n + 1 \in Nat /\ 0 \in Nat /\ 1 \in Nat /\ n \in 0..(n + 1) /\ n + 1 \in 1..(n + 1)
      /\ (n + 1) - 1 = n /\ 0 \in 0..0 /\ n \in 0..n
  OBVIOUS
<1>3. TwoTo(0) = 1
  <2>1. TwoTo(0) = Steps(1, F(0), 0)[0]
    BY DEF TwoTo
  <2>2. F(0) \in [1..0 -> [Nat -> Nat]]
    BY <1>1
  <2> HIDE DEF F
  <2>3. Follows(Steps(1, F(0), 0), 1, F(0), 0)
    BY <1>2, <2>2, StepsFollow
  <2> QED
    BY <2>1, <2>3 DEF Follows
<1>4. TwoTo(n) = Steps(1, F(n), n)[n] /\ TwoTo(n + 1) = Steps(1, F(n + 1), n + 1)[n + 1]
  BY DEF TwoTo
<1>5. F(n) \in [1..n -> [Nat -> Nat]] /\ F(n + 1) \in [1..(n + 1) -> [Nat -> Nat]]
  BY <1>1
<1>6. \A i \in 1..n : F(n)[i] = F(n + 1)[i]
  OBVIOUS
<1>7. \A x \in Nat : F(n + 1)[n + 1][x] = 2 * x
  BY <1>2
<1> HIDE DEF F
<1>8. Steps(1, F(n), n)[n] = Steps(1, F(n + 1), n + 1)[n]
  <2>1. ASSUME NEW m \in Nat, n \in 0..m, NEW G \in [1..n -> [Nat -> Nat]],
               NEW H \in [1..m -> [Nat -> Nat]], \A i \in 1..n : G[i] = H[i]
        PROVE  Steps(1, G, n)[n] = Steps(1, H, m)[n]
    BY <2>1, <1>2, FewerSteps
  <2> QED
    BY <1>2, <1>5, <1>6, <2>1
<1>9. Steps(1, F(n), n) \in [0..n -> Nat]
      /\ Follows(Steps(1, F(n + 1), n + 1), 1, F(n + 1), n + 1)
  BY <1>2, <1>5, StepsFollow
<1>10. TwoTo(n) \in Nat
  BY <1>2, <1>4, <1>9
<1>11. TwoTo(n + 1) = F(n + 1)[n + 1][TwoTo(n)]
  BY <1>2, <1>4, <1>8, <1>9 DEF Follows
<1> QED
  BY <1>3, <1>7, <1>10, <1>11

LEMMA ShrStep ==
  ASSUME NEW v \in Nat, NEW n \in Nat
  PROVE  Shr(v, 0) = v /\ Shr(v, n) \in Nat /\ Shr(v, n + 1) = Shr(v, n) \div 2
<1> DEFINE F(k) == [i \in 1..k |-> [x \in Nat |-> x \div 2]]
<1>1. \A k : F(k) \in [1..k -> [Nat -> Nat]]
  <2>1. \A x \in Nat : x \div 2 \in Nat
    OBVIOUS
  <2> QED
    BY <2>1
<1>2. n + 1 \in Nat /\ 0 \in Nat /\ n \in 0..(n + 1) /\ n + 1 \in 1..(n + 1)
      /\ (n + 1) - 1 = n /\ 0 \in 0..0 /\ n \in 0..n
  OBVIOUS
<1>3. Shr(v, 0) = v
  <2>1. Shr(v, 0) = Steps(v, F(0), 0)[0]
    BY DEF Shr
  <2>2. F(0) \in [1..0 -> [Nat -> Nat]]
    BY <1>1
  <2> HIDE DEF F
  <2>3. Follows(Steps(v, F(0), 0), v, F(0), 0)
    BY <1>2, <2>2, StepsFollow
  <2> QED
    BY <2>1, <2>3 DEF Follows
<1>4. Shr(v, n) = Steps(v, F(n), n)[n] /\ Shr(v, n + 1) = Steps(v, F(n + 1), n + 1)[n + 1]
  BY DEF Shr
<1>5. F(n) \in [1..n -> [Nat -> Nat]] /\ F(n + 1) \in [1..(n + 1) -> [Nat -> Nat]]
  BY <1>1
<1>6. \A i \in 1..n : F(n)[i] = F(n + 1)[i]
  OBVIOUS
<1>7. \A x \in Nat : F(n + 1)[n + 1][x] = x \div 2
  BY <1>2
<1> HIDE DEF F
<1>8. Steps(v, F(n), n)[n] = Steps(v, F(n + 1), n + 1)[n]
  <2>1. ASSUME NEW m \in Nat, n \in 0..m, NEW G \in [1..n -> [Nat -> Nat]],
               NEW H \in [1..m -> [Nat -> Nat]], \A i \in 1..n : G[i] = H[i]
        PROVE  Steps(v, G, n)[n] = Steps(v, H, m)[n]
    BY <2>1, <1>2, FewerSteps
  <2> QED
    BY <1>2, <1>5, <1>6, <2>1
<1>9. Steps(v, F(n), n) \in [0..n -> Nat]
      /\ Follows(Steps(v, F(n + 1), n + 1), v, F(n + 1), n + 1)
  BY <1>2, <1>5, StepsFollow
<1>10. Shr(v, n) \in Nat
  BY <1>2, <1>4, <1>9
<1>11. Shr(v, n + 1) = F(n + 1)[n + 1][Shr(v, n)]
  BY <1>2, <1>4, <1>8, <1>9 DEF Follows
<1> QED
  BY <1>3, <1>7, <1>10, <1>11

\* Every bit is a bit, and what was shifted off comes back below the rest.
LEMMA ShrBit ==
  ASSUME NEW v \in Nat, NEW i \in Nat
  PROVE  /\ BitOf(v, i) \in 0..1
         /\ Shr(v, i) = 2 * Shr(v, i + 1) + BitOf(v, i)
<1>1. \A x \in Nat : x % 2 \in 0..1 /\ x = 2 * (x \div 2) + (x % 2)
  OBVIOUS
<1> QED
  BY <1>1, ShrStep DEF BitOf

LEMMA TwoToPositive == \A n \in Nat : TwoTo(n) \in Nat /\ TwoTo(n) >= 1
<1> DEFINE T == {n \in Nat : TwoTo(n) \in Nat /\ TwoTo(n) >= 1}
<1>1. 0 \in T /\ \A n \in Nat : n \in T => n + 1 \in T
  BY TwoToStep
<1> HIDE DEF T
<1>2. Nat \subseteq T
  BY <1>1, Upwards
<1> QED
  BY <1>2 DEF T

\* Powers multiply, and grow.
LEMMA TwoToAdds ==
  ASSUME NEW a \in Nat, NEW b \in Nat
  PROVE  TwoTo(a + b) = TwoTo(a) * TwoTo(b)
<1> DEFINE T == {k \in Nat : TwoTo(a + k) = TwoTo(a) * TwoTo(k)}
<1>1. 0 \in T
  BY TwoToStep
<1>2. ASSUME NEW k \in Nat, k \in T PROVE k + 1 \in T
  <2>1. TwoTo(a + k) = TwoTo(a) * TwoTo(k)
    BY <1>2
  <2>2. a + k \in Nat /\ a + (k + 1) = (a + k) + 1
    OBVIOUS
  <2>3. TwoTo(a + (k + 1)) = 2 * TwoTo(a + k) /\ TwoTo(k + 1) = 2 * TwoTo(k)
    BY <2>2, TwoToStep
  <2>4. TwoTo(a) \in Nat /\ TwoTo(k) \in Nat
    BY TwoToStep
  <2>5. 2 * (TwoTo(a) * TwoTo(k)) = TwoTo(a) * (2 * TwoTo(k))
    BY <2>4
  <2> QED
    BY <2>1, <2>3, <2>5
<1> HIDE DEF T
<1>3. Nat \subseteq T
  BY <1>1, <1>2, Upwards
<1> QED
  BY <1>3 DEF T

LEMMA TwoToGrows ==
  ASSUME NEW a \in Nat, NEW b \in Nat, a <= b
  PROVE  TwoTo(a) <= TwoTo(b)
<1>1. b - a \in Nat /\ a + (b - a) = b
  OBVIOUS
<1>2. TwoTo(b) = TwoTo(a) * TwoTo(b - a)
  BY <1>1, TwoToAdds
<1>3. \A x, y \in Nat : y >= 1 => x <= x * y
  OBVIOUS
<1> QED
  BY <1>1, <1>2, <1>3, TwoToPositive

\* Shifting back and forth.
LEMMA Product ==
  ASSUME NEW a \in Int, NEW b \in Int, NEW t \in Nat, a <= b
  PROVE  a * t <= b * t
OBVIOUS

LEMMA ShrBounds ==
  ASSUME NEW v \in Nat, NEW n \in Nat
  PROVE  Shr(v, n) * TwoTo(n) <= v /\ v < (Shr(v, n) + 1) * TwoTo(n)
<1> DEFINE T == {k \in Nat : Shr(v, k) * TwoTo(k) <= v /\ v < (Shr(v, k) + 1) * TwoTo(k)}
<1>1. 0 \in T
  BY TwoToStep, ShrStep
<1>2. ASSUME NEW k \in Nat, k \in T PROVE k + 1 \in T
  <2>1. PICK x \in Nat, y \in Nat, t \in Nat, c \in 0..1 :
          /\ x = Shr(v, k) /\ y = Shr(v, k + 1) /\ t = TwoTo(k) /\ c = BitOf(v, k)
    <3>1. k + 1 \in Nat
      OBVIOUS
    <3>2. Shr(v, k) \in Nat /\ TwoTo(k) \in Nat /\ BitOf(v, k) \in 0..1
      BY TwoToStep, ShrStep, ShrBit
    <3>3. Shr(v, k + 1) \in Nat
      BY <3>1, ShrStep
    <3> QED
      BY <3>2, <3>3
  <2>2. x = 2 * y + c /\ TwoTo(k + 1) = 2 * t
    BY <2>1, TwoToStep, ShrBit
  <2>3. x * t <= v /\ v < (x + 1) * t
    BY <1>2, <2>1
  <2>4. (2 * y) * t <= x * t /\ (x + 1) * t <= (2 * y + 2) * t
    BY <2>2, Product
  <2>5. (2 * y) * t = y * (2 * t) /\ (2 * y + 2) * t = (y + 1) * (2 * t)
    OBVIOUS
  <2>6. y * (2 * t) <= v /\ v < (y + 1) * (2 * t)
    <3>1. x * t \in Int /\ (x + 1) * t \in Int /\ (2 * y) * t \in Int /\ (2 * y + 2) * t \in Int
      BY <2>1
    <3> QED
      BY <2>3, <2>4, <2>5, <3>1
  <2> QED
    BY <2>1, <2>2, <2>6
<1> HIDE DEF T
<1>3. Nat \subseteq T
  BY <1>1, <1>2, Upwards
<1> QED
  BY <1>3 DEF T

\* What lies between two multiples of a power is the lower one when shifted.
LEMMA ShrIs ==
  ASSUME NEW v \in Nat, NEW n \in Nat, NEW a \in Nat,
         a * TwoTo(n) <= v, v < (a + 1) * TwoTo(n)
  PROVE  Shr(v, n) = a
<1>1. PICK x \in Nat, t \in Nat : x = Shr(v, n) /\ t = TwoTo(n)
  BY ShrStep, TwoToStep
<1>2. x * t <= v /\ v < (x + 1) * t /\ a * t <= v /\ v < (a + 1) * t
  BY <1>1, ShrBounds
<1>3. x + 1 <= a => (x + 1) * t <= a * t
  BY Product
<1>4. a + 1 <= x => (a + 1) * t <= x * t
  BY Product
<1>5. x * t \in Int /\ a * t \in Int /\ (x + 1) * t \in Int /\ (a + 1) * t \in Int
  OBVIOUS
<1>6. ~(x + 1 <= a) /\ ~(a + 1 <= x)
  BY <1>2, <1>3, <1>4, <1>5
<1> QED
  BY <1>1, <1>6

LEMMA ShrZero ==
  ASSUME NEW v \in Nat, NEW n \in Nat
  PROVE  v < TwoTo(n) <=> Shr(v, n) = 0
<1>1. TwoTo(n) \in Nat /\ 0 * TwoTo(n) = 0 /\ (0 + 1) * TwoTo(n) = TwoTo(n)
  BY TwoToStep
<1> QED
  BY <1>1, ShrBounds, ShrIs

\* A larger number is not smaller when shifted.
LEMMA ShrAbove ==
  ASSUME NEW v \in Nat, NEW n \in Nat, NEW a \in Nat
  PROVE  a * TwoTo(n) <= v <=> a <= Shr(v, n)
<1>1. PICK x \in Nat, t \in Nat : x = Shr(v, n) /\ t = TwoTo(n)
  BY ShrStep, TwoToStep
<1>2. x * t <= v /\ v < (x + 1) * t
  BY <1>1, ShrBounds
<1>3. a <= x => a * t <= x * t
  BY Product
<1>4. x + 1 <= a => (x + 1) * t <= a * t
  BY Product
<1>5. x * t \in Int /\ a * t \in Int /\ (x + 1) * t \in Int
  OBVIOUS
<1> QED
  BY <1>1, <1>2, <1>3, <1>4, <1>5

\* The remainder is what a shift leaves out.
LEMMA Remainder ==
  ASSUME NEW v \in Nat, NEW t \in Nat, t >= 1
  PROVE  v % t \in 0..(t - 1) /\ v = (v \div t) * t + (v % t) /\ v \div t \in Nat
OBVIOUS

LEMMA ShrRest ==
  ASSUME NEW v \in Nat, NEW n \in Nat
  PROVE  v % TwoTo(n) \in 0..(TwoTo(n) - 1) /\ v = Shr(v, n) * TwoTo(n) + (v % TwoTo(n))
<1>1. PICK t \in Nat : t = TwoTo(n) /\ t >= 1
  BY TwoToPositive
<1>2. PICK q \in Nat, r \in 0..(t - 1) : r = v % t /\ q = v \div t /\ v = q * t + r
  <2>1. v % t \in 0..(t - 1) /\ v \div t \in Nat /\ v = (v \div t) * t + (v % t)
    BY <1>1, Remainder
  <2> QED
    BY ONLY <2>1
<1>3. q * t <= v /\ v < (q + 1) * t
  <2>1. (q + 1) * t = q * t + t /\ q * t \in Nat
    OBVIOUS
  <2> QED
    BY <1>2, <2>1
<1>4. Shr(v, n) = q
  BY <1>1, <1>3, ShrIs
<1> QED
  BY <1>1, <1>2, <1>4
-----------------------------------------------------------------------------
(***************************************************************************)
(* The bits of a symbol, and the numbers they make.                        *)
(***************************************************************************)
LEMMA BitsAre ==
  ASSUME NEW n \in Nat, NEW bits \in [1..n -> 0..1]
  PROVE  bits \in Seq(0..1) /\ Len(bits) = n
OBVIOUS

LEMMA HighLow ==
  ASSUME NEW v \in Nat, NEW n \in Nat
  PROVE  High(v, n) \in [1..n -> 0..1] /\ Low(v, n) \in [1..n -> 0..1]
<1>1. \A j \in 1..n : n - j \in Nat /\ j - 1 \in Nat
  OBVIOUS
<1>2. \A j \in 1..n : BitOf(v, n - j) \in 0..1 /\ BitOf(v, j - 1) \in 0..1
  BY <1>1, ShrBit
<1> QED
  BY <1>2 DEF High, Low

LEMMA PushedStep ==
  ASSUME NEW first \in Nat, NEW n \in Nat, NEW bits \in [1..n -> 0..1]
  PROVE  /\ Pushed(first, bits) \in [0..n -> Nat]
         /\ Pushed(first, bits)[0] = first
         /\ \A j \in 1..n : Pushed(first, bits)[j] = 2 * Pushed(first, bits)[j - 1] + bits[j]
<1> DEFINE F == [j \in 1..n |-> [m \in Nat |-> 2 * m + bits[j]]]
           m == Pushed(first, bits)
<1>1. F \in [1..n -> [Nat -> Nat]]
  <2>1. \A j \in 1..n : \A x \in Nat : 2 * x + bits[j] \in Nat
    OBVIOUS
  <2> QED
    BY <2>1
<1>2. m = Steps(first, F, n)
  <2>1. Len(bits) = n
    BY BitsAre
  <2> QED
    BY <2>1 DEF Pushed
<1>3. \A j \in 1..n : \A x \in Nat : F[j][x] = 2 * x + bits[j]
  OBVIOUS
<1> HIDE DEF F
<1>4. m \in [0..n -> Nat] /\ Follows(m, first, F, n)
  <2>1. Steps(first, F, n) \in [0..n -> Nat] /\ Follows(Steps(first, F, n), first, F, n)
    BY <1>1, StepsFollow
  <2> QED
    BY <1>2, <2>1
<1> HIDE DEF m
<1>5. \A j \in 1..n : m[j] = 2 * m[j - 1] + bits[j]
  <2> TAKE j \in 1..n
  <2>1. m[j - 1] \in Nat /\ m[j] = F[j][m[j - 1]]
    BY <1>4 DEF Follows
  <2> QED
    BY <1>3, <2>1
<1> QED
  BY <1>4, <1>5 DEF Follows, m

\* With a 1 before them, j bits make a number of j + 1 bits.
LEMMA PushedBounds ==
  ASSUME NEW n \in Nat, NEW bits \in [1..n -> 0..1], NEW j \in 0..n
  PROVE  Pushed(1, bits)[j] \in TwoTo(j)..(2 * TwoTo(j) - 1)
<1> DEFINE m == Pushed(1, bits)
           T == {i \in 0..n : m[i] \in TwoTo(i)..(2 * TwoTo(i) - 1)}
<1>1. /\ m \in [0..n -> Nat] /\ m[0] = 1
      /\ \A i \in 1..n : m[i] = 2 * m[i - 1] + bits[i]
  BY ZenonT(40), PushedStep
<1> HIDE DEF m
<1>2. 0 \in T
  <2>1. TwoTo(0) = 1 /\ 0 \in 0..n
    BY TwoToStep
  <2> QED
    BY <1>1, <2>1
<1>3. ASSUME NEW i \in 1..n, i - 1 \in T PROVE i \in T
  <2>1. i - 1 \in Nat /\ (i - 1) + 1 = i
    OBVIOUS
  <2>2. TwoTo(i) = 2 * TwoTo(i - 1) /\ TwoTo(i - 1) \in Nat
    BY <2>1, TwoToStep
  <2>3. m[i] = 2 * m[i - 1] + bits[i] /\ bits[i] \in 0..1
    BY <1>1
  <2>4. m[i - 1] \in TwoTo(i - 1)..(2 * TwoTo(i - 1) - 1)
    BY <1>3
  <2> QED
    BY SMTT(30), <2>2, <2>3, <2>4
<1>4. 0..n \subseteq T
  <2> HIDE DEF T
  <2> QED
    BY <1>2, <1>3, UpTo
<1> QED
  BY <1>4 DEF m

\* The bits of v, highest first, behind whatever was there before them.
LEMMA PushedHigh ==
  ASSUME NEW first \in Nat, NEW n \in Nat, NEW v \in Nat, v < TwoTo(n), NEW j \in 0..n
  PROVE  Pushed(first, High(v, n))[j] = first * TwoTo(j) + Shr(v, n - j)
<1> DEFINE m == Pushed(first, High(v, n))
           T == {i \in 0..n : m[i] = first * TwoTo(i) + Shr(v, n - i)}
<1>1. /\ m \in [0..n -> Nat] /\ m[0] = first
      /\ \A i \in 1..n : m[i] = 2 * m[i - 1] + High(v, n)[i]
  BY ZenonT(40), HighLow, PushedStep
<1> HIDE DEF m
<1>2. 0 \in T
  <2>1. Shr(v, n) = 0 /\ TwoTo(0) = 1 /\ n - 0 = n
    BY ShrZero, TwoToStep
  <2> QED
    BY <1>1, <2>1
<1>3. ASSUME NEW i \in 1..n, i - 1 \in T PROVE i \in T
  <2>1. i - 1 \in Nat /\ (i - 1) + 1 = i /\ n - i \in Nat /\ n - (i - 1) = (n - i) + 1
        /\ (n - i) + 1 \in Nat
    OBVIOUS
  <2>2. TwoTo(i) = 2 * TwoTo(i - 1) /\ TwoTo(i - 1) \in Nat
    BY <2>1, TwoToStep
  <2>3. m[i] = 2 * m[i - 1] + BitOf(v, n - i)
    BY <1>1 DEF High
  <2>4. m[i - 1] = first * TwoTo(i - 1) + Shr(v, (n - i) + 1)
    BY <1>3, <2>1
  <2>5. Shr(v, n - i) = 2 * Shr(v, (n - i) + 1) + BitOf(v, n - i)
    BY <2>1, ShrBit
  <2>6. first * (2 * TwoTo(i - 1)) = 2 * (first * TwoTo(i - 1)) /\ first * TwoTo(i - 1) \in Nat
    BY <2>2
  <2>7. Shr(v, (n - i) + 1) \in Nat /\ BitOf(v, n - i) \in 0..1
    BY <2>1, ShrStep, ShrBit
  <2> QED
    BY <2>2, <2>3, <2>4, <2>5, <2>6, <2>7
<1>4. 0..n \subseteq T
  <2> HIDE DEF T
  <2> QED
    BY <1>2, <1>3, UpTo
<1> QED
  BY <1>4 DEF m

\* All of them.
LEMMA AllPushed ==
  ASSUME NEW n \in Nat, NEW v \in Nat, v < TwoTo(n)
  PROVE  /\ Pushed(1, High(v, n))[n] = TwoTo(n) + v
         /\ Pushed(0, High(v, n))[n] = v
<1>1. n \in 0..n /\ n - n = 0 /\ 0 \in Nat /\ 1 \in Nat /\ TwoTo(n) \in Nat /\ Shr(v, 0) = v
  BY TwoToStep, ShrStep
<1>2. /\ Pushed(1, High(v, n))[n] = 1 * TwoTo(n) + Shr(v, n - n)
      /\ Pushed(0, High(v, n))[n] = 0 * TwoTo(n) + Shr(v, n - n)
  BY <1>1, PushedHigh
<1> QED
  BY <1>1, <1>2

\* The sum that a reverse decoder makes.
LowSum(bits, n) ==
  Steps(0, [j \in 1..n |-> [v \in Nat |-> v + (bits[j] * TwoTo(j - 1))]], n)[n]

LEMMA LowSumIs ==
  ASSUME NEW n \in Nat, NEW v \in Nat, v < TwoTo(n)
  PROVE  LowSum(Low(v, n), n) = v
<1> DEFINE bits == Low(v, n)
           F == [j \in 1..n |-> [x \in Nat |-> x + (bits[j] * TwoTo(j - 1))]]
           q == Steps(0, F, n)
           T == {i \in 0..n : q[i] + Shr(v, i) * TwoTo(i) = v}
<1>1. bits \in [1..n -> 0..1] /\ \A j \in 1..n : bits[j] = BitOf(v, j - 1)
  BY HighLow DEF Low
<1>2. \A j \in 1..n : TwoTo(j - 1) \in Nat
  <2>1. \A j \in 1..n : j - 1 \in Nat
    OBVIOUS
  <2> QED
    BY <2>1, TwoToStep
<1>3. LowSum(bits, n) = q[n]
  BY DEF LowSum
<1> HIDE DEF bits
<1>4. F \in [1..n -> [Nat -> Nat]]
  <2>1. \A j \in 1..n : bits[j] \in Nat
    BY <1>1
  <2>2. \A a, b, c \in Nat : a + (b * c) \in Nat
    OBVIOUS
  <2>3. \A j \in 1..n : \A x \in Nat : x + (bits[j] * TwoTo(j - 1)) \in Nat
    BY <1>2, <2>1, <2>2
  <2> QED
    BY <2>3
<1>5. \A j \in 1..n : \A x \in Nat : F[j][x] = x + (bits[j] * TwoTo(j - 1))
  OBVIOUS
<1> HIDE DEF F
<1>6. q \in [0..n -> Nat] /\ Follows(q, 0, F, n)
  BY <1>4, StepsFollow
<1> HIDE DEF q
<1>7. 0 \in T
  BY SMTT(30), <1>6, TwoToStep, ShrStep DEF Follows
<1>8. ASSUME NEW i \in 1..n, i - 1 \in T PROVE i \in T
  <2>1. i \in Nat /\ i - 1 \in Nat /\ (i - 1) + 1 = i /\ i \in 0..n /\ i - 1 \in 0..n
    OBVIOUS
  <2>2. q[i] = q[i - 1] + (BitOf(v, i - 1) * TwoTo(i - 1))
    BY <1>1, <1>5, <1>6, <2>1 DEF Follows
  <2>3. TwoTo(i) = 2 * TwoTo(i - 1) /\ TwoTo(i - 1) \in Nat
    BY <2>1, TwoToStep
  <2>4. Shr(v, i - 1) = 2 * Shr(v, i) + BitOf(v, i - 1) /\ BitOf(v, i - 1) \in 0..1
    BY <2>1, ShrBit
  <2>5. Shr(v, i) \in Nat /\ q[i - 1] \in Nat
    BY <1>6, <2>1, ShrStep
  <2>6. \A y, c, t \in Nat : (2 * y + c) * t = y * (2 * t) + c * t
    OBVIOUS
  <2>7. Shr(v, i - 1) * TwoTo(i - 1)
          = Shr(v, i) * TwoTo(i) + BitOf(v, i - 1) * TwoTo(i - 1)
    BY <2>3, <2>4, <2>5, <2>6
  <2>8. q[i - 1] + Shr(v, i - 1) * TwoTo(i - 1) = v
    BY <1>8
  <2>9. \A a, b, c \in Nat : a + (b + c) = (a + c) + b
    OBVIOUS
  <2>10. Shr(v, i) * TwoTo(i) \in Nat /\ BitOf(v, i - 1) * TwoTo(i - 1) \in Nat
    BY <2>3, <2>4, <2>5
  <2>11. q[i] + Shr(v, i) * TwoTo(i) = v
    BY <2>2, <2>5, <2>7, <2>8, <2>9, <2>10
  <2> QED
    BY <2>1, <2>11
<1>9. n \in T
  <2>1. 0..n \subseteq T
    <3> HIDE DEF T
    <3> QED
      BY <1>7, <1>8, UpTo
  <2>2. n \in 0..n
    OBVIOUS
  <2> HIDE DEF T
  <2> QED
    BY <2>1, <2>2
<1>10. q[n] + 0 * TwoTo(n) = v /\ 0 * TwoTo(n) = 0 /\ q[n] \in Nat
  <2>1. TwoTo(n) \in Nat /\ Shr(v, n) = 0 /\ n \in 0..n
    BY TwoToStep, ShrZero
  <2> QED
    BY <1>6, <1>9, <2>1
<1>11. q[n] = v
  BY <1>10
<1> QED
  BY <1>3, <1>11 DEF bits
-----------------------------------------------------------------------------
(***************************************************************************)
(* Tapes. What one coder has put in front of the rest, its decoder takes   *)
(* off, and finds what it asks for.                                        *)
(***************************************************************************)
Made(array, n, index, bits) == [j \in 1..n |-> Coded(array, index[j], bits[j])]

Reads(t, v) == [tape |-> t, ok |-> TRUE, val |-> v]

LEMMA Front ==
  ASSUME NEW S, NEW s \in Seq(S), NEW rest \in Seq(S)
  PROVE  /\ s \o rest \in Seq(S) /\ Len(s \o rest) = Len(s) + Len(rest)
         /\ \A j \in 1..Len(s) : (s \o rest)[j] = s[j]
         /\ SubSeq(s \o rest, Len(s) + 1, Len(s \o rest)) = rest
<1> DEFINE t == s \o rest
           u == SubSeq(t, Len(s) + 1, Len(t))
<1>1. /\ t \in Seq(S) /\ Len(t) = Len(s) + Len(rest)
      /\ Len(s) \in Nat /\ Len(rest) \in Nat
      /\ \A j \in 1..Len(s) : t[j] = s[j]
      /\ \A j \in 1..Len(rest) : t[j + Len(s)] = rest[j]
  OBVIOUS
<1> HIDE DEF t
<1>2. u \in Seq(S) /\ Len(u) = Len(rest)
  BY <1>1
<1>3. \A j \in 1..Len(rest) : u[j] = rest[j]
  BY <1>1
<1> HIDE DEF u
<1>4. u = rest
  BY <1>2, <1>3, SeqEqual
<1> QED
  BY <1>1, <1>4 DEF t, u

LEMMA TapeTaken ==
  ASSUME NEW S, NEW array, NEW n \in Nat, NEW index \in [1..n -> Int],
         NEW bits \in [1..n -> 0..1], Made(array, n, index, bits) \in Seq(S),
         NEW rest \in Seq(S), NEW val, NEW r,
         r = Reads(Made(array, n, index, bits) \o rest, val)
  PROVE  NextBits(r, n) = bits /\ Took(r, n, array, index) = Reads(rest, val)
<1> DEFINE s == Made(array, n, index, bits)
           t == s \o rest
<1>1. /\ Len(s) = n
      /\ \A j \in 1..n : s[j].array = array /\ s[j].index = index[j] /\ s[j].bit = bits[j]
  BY DEF Made, Coded
<1> HIDE DEF s
<1>2. /\ t \in Seq(S) /\ Len(t) = n + Len(rest) /\ Len(rest) \in Nat
      /\ \A j \in 1..n : t[j] = s[j]
      /\ SubSeq(t, n + 1, Len(t)) = rest
  <2>1. s \in Seq(S)
    BY DEF s
  <2>2. /\ t \in Seq(S) /\ Len(t) = Len(s) + Len(rest)
        /\ \A j \in 1..Len(s) : t[j] = s[j]
        /\ SubSeq(t, Len(s) + 1, Len(t)) = rest
    BY <2>1, Front
  <2> HIDE DEF t
  <2> QED
    BY <1>1, <2>2
<1>3. r.tape = t /\ r.ok = TRUE /\ r.val = val /\ r = [tape |-> t, ok |-> TRUE, val |-> val]
  BY DEF Reads, s
<1> HIDE DEF t
<1>4. NextBits(r, n) = bits
  <2>1. \A j \in 1..n : j <= Len(t) /\ t[j].bit = bits[j]
    BY <1>1, <1>2
  <2>2. NextBits(r, n) = [j \in 1..n |-> bits[j]]
    BY <1>3, <2>1 DEF NextBits
  <2> QED
    BY <2>2
<1>5. Took(r, n, array, index) = Reads(rest, val)
  <2>1. n <= Len(t) /\ \A j \in 1..n : t[j].array = array /\ t[j].index = index[j]
    BY <1>1, <1>2
  <2>2. Took(r, n, array, index)
          = [r EXCEPT !.tape = SubSeq(t, n + 1, Len(t)),
                      !.ok = /\ TRUE /\ n <= Len(t)
                             /\ \A j \in 1..n : t[j].array = array /\ t[j].index = index[j]]
    BY <1>3 DEF Took
  <2>3. Took(r, n, array, index) = [r EXCEPT !.tape = rest, !.ok = TRUE]
    BY <1>2, <2>1, <2>2
  <2> QED
    BY ZenonT(40), <1>3, <2>3 DEF Reads
<1> QED
  BY <1>4, <1>5

\* A bit tree, and its bits in another order, are made of where its bits are
\* asked for.
Context(n, start, bits) == [j \in 1..n |-> start + Pushed(1, bits)[j - 1]]

LEMMA ContextType ==
  ASSUME NEW n \in Nat, NEW start \in Int, NEW bits \in [1..n -> 0..1]
  PROVE  /\ Context(n, start, bits) \in [1..n -> Int]
         /\ \A j \in 1..n : Context(n, start, bits)[j]
                              \in (start + 1)..(start + TwoTo(n) - 1)
<1>1. ASSUME NEW j \in 1..n
      PROVE  start + Pushed(1, bits)[j - 1] \in (start + 1)..(start + TwoTo(n) - 1)
  <2>1. j - 1 \in 0..n /\ j - 1 \in Nat /\ (j - 1) + 1 = j /\ j \in Nat /\ j <= n
    OBVIOUS
  <2>2. Pushed(1, bits)[j - 1] \in TwoTo(j - 1)..(2 * TwoTo(j - 1) - 1)
    BY <2>1, PushedBounds
  <2>3. TwoTo(j) = 2 * TwoTo(j - 1) /\ TwoTo(j - 1) \in Nat /\ TwoTo(j - 1) >= 1
    BY <2>1, TwoToStep, TwoToPositive
  <2>4. TwoTo(j) <= TwoTo(n) /\ TwoTo(n) \in Nat
    BY <2>1, TwoToGrows, TwoToStep
  <2> QED
    BY SMTT(30), <2>2, <2>3, <2>4
<1>2. TwoTo(n) \in Nat
  BY TwoToStep
<1> QED
  BY <1>1, <1>2 DEF Context

LEMMA SymbolsAre ==
  ASSUME NEW n \in Nat, NEW bits \in [1..n -> 0..1], NEW array, NEW start \in Int
  PROVE  /\ Symbols(array, start, bits) = Made(array, n, Context(n, start, bits), bits)
         /\ \A r : NextBits(r, n) = bits =>
              Asked(r, n, array, start) = Took(r, n, array, Context(n, start, bits))
<1>1. Len(bits) = n
  BY BitsAre
<1>2. Symbols(array, start, bits) = Made(array, n, Context(n, start, bits), bits)
  <2>1. \A j \in 1..n : Context(n, start, bits)[j] = start + Pushed(1, bits)[j - 1]
    BY DEF Context
  <2>2. Symbols(array, start, bits)
          = [j \in 1..n |-> Coded(array, start + Pushed(1, bits)[j - 1], bits[j])]
    BY <1>1 DEF Symbols
  <2>3. Made(array, n, Context(n, start, bits), bits)
          = [j \in 1..n |-> Coded(array, start + Pushed(1, bits)[j - 1], bits[j])]
    BY <2>1 DEF Made
  <2> QED
    BY <2>2, <2>3
<1>3. ASSUME NEW r, NextBits(r, n) = bits
      PROVE  Asked(r, n, array, start) = Took(r, n, array, Context(n, start, bits))
  BY <1>3 DEF Asked, Context
<1> QED
  BY <1>2, <1>3

\* The items of a tape that lie in their arrays.
Items == {x \in [array : DOMAIN Size, index : Nat, bit : 0..1] : x.index < Size[x.array]}

LEMMA SizesAre ==
  /\ \A n \in Nat : TwoTo(n) \in Nat
  /\ DOMAIN Size = {"literal", "choice", "low", "mid", "high", "slot", "pos", "align", "direct"}
  /\ Size["literal"] = 3 * TwoTo(LitBits) /\ Size["choice"] = 2
  /\ Size["low"] = TwoTo(LowBits) /\ Size["mid"] = TwoTo(MidBits)
  /\ Size["high"] = TwoTo(HighBits) /\ Size["slot"] = TwoTo(SlotBits)
  /\ Size["pos"] = FullDistances - EndPosModel /\ Size["align"] = TwoTo(AlignBits)
  /\ Size["direct"] = 1
BY TwoToStep DEF Size

LEMMA MadeInRange ==
  ASSUME NEW array \in DOMAIN Size, NEW n \in Nat, NEW index, NEW bits \in [1..n -> 0..1],
         \A j \in 1..n : index[j] \in Nat /\ index[j] < Size[array]
  PROVE  Made(array, n, index, bits) \in Seq(Items)
<1>1. \A j \in 1..n : Coded(array, index[j], bits[j]) \in Items
  BY DEF Coded, Items
<1> QED
  BY <1>1 DEF Made

\* rangeBitTreeCoder: encode, then decode.
LEMMA TreeReads ==
  ASSUME NEW array \in DOMAIN Size, NEW n \in Nat, TwoTo(n) <= Size[array], Size[array] \in Nat,
         NEW v \in Nat, v < TwoTo(n), NEW rest \in Seq(Items), NEW val
  PROVE  /\ Tree(array, n, v) \in Seq(Items)
         /\ ReadTree(Reads(Tree(array, n, v) \o rest, val), array, n) = Reads(rest, v)
<1> DEFINE bits == High(v, n)
           index == Context(n, 0, bits)
           r == Reads(Tree(array, n, v) \o rest, val)
<1>1. bits \in [1..n -> 0..1] /\ TwoTo(n) \in Nat
  BY HighLow, TwoToStep
<1>2. Pushed(1, bits)[n] = TwoTo(n) + v
  BY AllPushed
<1>3. Tree(array, n, v) = Symbols(array, 0, bits)
  BY DEF Tree
<1> HIDE DEF bits
<1>4. index \in [1..n -> Int] /\ \A j \in 1..n : index[j] \in (0 + 1)..(0 + TwoTo(n) - 1)
  BY <1>1, ContextType
<1>5. Tree(array, n, v) = Made(array, n, index, bits)
      /\ (NextBits(r, n) = bits => Asked(r, n, array, 0) = Took(r, n, array, index))
  BY <1>1, <1>3, SymbolsAre
<1>6. \A j \in 1..n : index[j] \in Nat /\ index[j] < Size[array]
  BY <1>1, <1>4
<1> HIDE DEF index
<1>7. Made(array, n, index, bits) \in Seq(Items)
  BY <1>1, <1>6, MadeInRange
<1>8. NextBits(r, n) = bits /\ Took(r, n, array, index) = Reads(rest, val)
  <2>1. r = Reads(Made(array, n, index, bits) \o rest, val)
    BY <1>5
  <2> HIDE DEF r
  <2> QED
    BY SMTT(30), <1>1, <1>4, <1>7, <2>1, TapeTaken
<1> HIDE DEF r
<1>9. ReadTree(r, array, n) = [Reads(rest, val) EXCEPT !.val = (TwoTo(n) + v) - TwoTo(n)]
  BY <1>2, <1>5, <1>8 DEF ReadTree
<1>10. (TwoTo(n) + v) - TwoTo(n) = v
  BY <1>1
<1> QED
  BY <1>5, <1>7, <1>9, <1>10 DEF Reads, r

\* reverseEncodeIndex, then reverseDecodeIndex.
LEMMA ReverseReads ==
  ASSUME NEW array \in DOMAIN Size, NEW n \in Nat, NEW start \in Int, start >= -1,
         Size[array] \in Nat, n # 0 => start + TwoTo(n) <= Size[array],
         NEW v \in Nat, v < TwoTo(n), NEW rest \in Seq(Items), NEW val
  PROVE  /\ ReverseTree(array, start, n, v) \in Seq(Items)
         /\ ReadReverse(Reads(ReverseTree(array, start, n, v) \o rest, val), array, start, n)
              = Reads(rest, v)
<1> DEFINE bits == Low(v, n)
           index == Context(n, start, bits)
           r == Reads(ReverseTree(array, start, n, v) \o rest, val)
<1>1. bits \in [1..n -> 0..1] /\ TwoTo(n) \in Nat
  BY HighLow, TwoToStep
<1>2. LowSum(bits, n) = v
  BY LowSumIs
<1>3. ReverseTree(array, start, n, v) = Symbols(array, start, bits)
  BY DEF ReverseTree
<1> HIDE DEF bits
<1>4. index \in [1..n -> Int]
      /\ \A j \in 1..n : index[j] \in (start + 1)..(start + TwoTo(n) - 1)
  BY <1>1, ContextType
<1>5. ReverseTree(array, start, n, v) = Made(array, n, index, bits)
      /\ (NextBits(r, n) = bits => Asked(r, n, array, start) = Took(r, n, array, index))
  BY <1>1, <1>3, SymbolsAre
<1>6. \A j \in 1..n : index[j] \in Nat /\ index[j] < Size[array]
  BY SMTT(30), <1>1, <1>4
<1> HIDE DEF index
<1>7. Made(array, n, index, bits) \in Seq(Items)
  BY <1>1, <1>6, MadeInRange
<1>8. NextBits(r, n) = bits /\ Took(r, n, array, index) = Reads(rest, val)
  <2>1. r = Reads(Made(array, n, index, bits) \o rest, val)
    BY <1>5
  <2> HIDE DEF r
  <2> QED
    BY SMTT(30), <1>1, <1>4, <1>7, <2>1, TapeTaken
<1> HIDE DEF r
<1>9. ReadReverse(r, array, start, n) = [Reads(rest, val) EXCEPT !.val = LowSum(bits, n)]
  BY <1>5, <1>8 DEF ReadReverse, LowSum
<1> QED
  BY <1>2, <1>5, <1>7, <1>9 DEF Reads, r

\* encodeDirectBits, then decodeDirectBits.
LEMMA DirectReads ==
  ASSUME NEW n \in Nat, NEW v \in Nat, v < TwoTo(n), NEW rest \in Seq(Items), NEW val
  PROVE  /\ DirectBits(n, v) \in Seq(Items)
         /\ ReadDirect(Reads(DirectBits(n, v) \o rest, val), n) = Reads(rest, v)
<1> DEFINE bits == High(v, n)
           index == [j \in 1..n |-> 0]
           r == Reads(DirectBits(n, v) \o rest, val)
<1>1. bits \in [1..n -> 0..1] /\ index \in [1..n -> Int]
  BY HighLow
<1>2. Pushed(0, bits)[n] = v
  BY AllPushed
<1>3. DirectBits(n, v) = Made("direct", n, index, bits)
  BY DEF DirectBits, Made, High
<1>4. \A j \in 1..n : index[j] \in Nat /\ index[j] < Size["direct"]
  BY SizesAre
<1> HIDE DEF bits
<1>5. Made("direct", n, index, bits) \in Seq(Items)
  <2>1. "direct" \in DOMAIN Size
    BY SizesAre
  <2> HIDE DEF index
  <2> QED
    BY <1>1, <1>4, <2>1, MadeInRange
<1>6. NextBits(r, n) = bits /\ Took(r, n, "direct", index) = Reads(rest, val)
  <2>1. r = Reads(Made("direct", n, index, bits) \o rest, val)
    BY <1>3
  <2> HIDE DEF r, index
  <2>2. ASSUME NEW array, array = "direct"
        PROVE  NextBits(r, n) = bits /\ Took(r, n, array, index) = Reads(rest, val)
    BY <1>1, <1>5, <2>1, <2>2, TapeTaken
  <2> QED
    BY <2>2
<1> HIDE DEF r
<1>7. ReadDirect(r, n) = [Reads(rest, val) EXCEPT !.val = v]
  BY <1>2, <1>6 DEF ReadDirect
<1> QED
  BY <1>3, <1>5, <1>7 DEF Reads, r

LEMMA TopBitOff ==
  ASSUME NEW t \in Nat, NEW v \in 0..(t - 1)
  PROVE  (t + v) % t = v
<1>1. t >= 1 /\ t + v \in Nat
  OBVIOUS
<1>2. PICK q \in Nat, r \in 0..(t - 1) : r = (t + v) % t /\ t + v = q * t + r
  <2>1. (t + v) % t \in 0..(t - 1) /\ (t + v) \div t \in Nat
        /\ t + v = ((t + v) \div t) * t + ((t + v) % t)
    BY <1>1, Remainder
  <2> QED
    BY ONLY <2>1
<1>3. 2 <= q => 2 * t <= q * t
  BY Product
<1>4. q <= 0 => q * t <= 0 * t
  BY Product
<1>5. q * t \in Int /\ 0 * t = 0
  OBVIOUS
<1>6. q = 1
  BY <1>1, <1>2, <1>3, <1>4, <1>5
<1>7. 1 * t = t
  OBVIOUS
<1> QED
  BY <1>2, <1>6, <1>7

\* encodeMatched's flag: the bits so far are those of the match byte.
SameSoFar(v, match, j) ==
  \A k \in 1..j : BitOf(match, LitBits - k) = BitOf(v, LitBits - k)

SameFlags(v, match) ==
  Steps(TRUE, [j \in 1..LitBits |->
                 [same \in BOOLEAN |->
                    same /\ BitOf(match, LitBits - j) = BitOf(v, LitBits - j)]], LitBits)

LEMMA FlagIs ==
  ASSUME NEW v, NEW match, NEW j \in 0..LitBits
  PROVE  SameFlags(v, match)[j] <=> SameSoFar(v, match, j)
<1> DEFINE Eq(k) == BitOf(match, LitBits - k) = BitOf(v, LitBits - k)
           F == [i \in 1..LitBits |-> [same \in BOOLEAN |-> same /\ Eq(i)]]
           q == SameFlags(v, match)
           T == {i \in 0..LitBits : q[i] <=> SameSoFar(v, match, i)}
<1>1. LitBits \in Nat
  BY SymbolAssumption
<1>2. q = Steps(TRUE, F, LitBits)
  BY DEF SameFlags
<1>3. F \in [1..LitBits -> [BOOLEAN -> BOOLEAN]]
  <2> HIDE DEF Eq
  <2> QED
    BY Zenon
<1>4. \A i \in 1..LitBits : \A same \in BOOLEAN : F[i][same] = (same /\ Eq(i))
  <2> HIDE DEF Eq
  <2> QED
    OBVIOUS
<1> HIDE DEF F
<1>5. q \in [0..LitBits -> BOOLEAN] /\ Follows(q, TRUE, F, LitBits)
  <2>1. ASSUME NEW S, S = BOOLEAN, NEW first \in S, first = TRUE
        PROVE  q \in [0..LitBits -> S] /\ Follows(q, first, F, LitBits)
    <3>1. F \in [1..LitBits -> [S -> S]]
      BY <1>3, <2>1
    <3>2. Steps(first, F, LitBits) \in [0..LitBits -> S]
          /\ Follows(Steps(first, F, LitBits), first, F, LitBits)
      BY <1>1, <3>1, StepsFollow
    <3> QED
      BY <1>2, <2>1, <3>2
  <2> QED
    BY <2>1
<1> HIDE DEF q
<1>6. q[0] = TRUE /\ \A i \in 1..LitBits : q[i] = (q[i - 1] /\ Eq(i))
  <2>1. \A i \in 1..LitBits : i - 1 \in 0..LitBits
    BY <1>1
  <2>2. \A i \in 1..LitBits : q[i - 1] \in BOOLEAN /\ q[i] = F[i][q[i - 1]]
    BY <1>5, <2>1 DEF Follows
  <2>3. q[0] = TRUE
    BY <1>5 DEF Follows
  <2> HIDE DEF Eq
  <2>4. ASSUME NEW i \in 1..LitBits PROVE q[i] = (q[i - 1] /\ Eq(i))
    <3>1. q[i - 1] \in BOOLEAN /\ q[i] = F[i][q[i - 1]]
      BY <2>2
    <3>2. F[i][q[i - 1]] = (q[i - 1] /\ Eq(i))
      BY ONLY <1>4, <3>1, Zenon
    <3> QED
      BY ONLY <3>1, <3>2, Zenon
  <2> QED
    BY ONLY <2>3, <2>4, Zenon
<1>7. 0 \in T
  <2>1. SameSoFar(v, match, 0) /\ 0 \in 0..LitBits
    BY <1>1 DEF SameSoFar
  <2> QED
    BY <1>6, <2>1
<1>8. ASSUME NEW i \in 1..LitBits, i - 1 \in T PROVE i \in T
  <2>1. i \in 0..LitBits /\ q[i] = (q[i - 1] /\ Eq(i))
    BY <1>1, <1>6
  <2>2. q[i - 1] <=> SameSoFar(v, match, i - 1)
    BY <1>8
  <2>3. SameSoFar(v, match, i) <=> SameSoFar(v, match, i - 1) /\ Eq(i)
    <3>1. \A k : k \in 1..i <=> k \in 1..(i - 1) \/ k = i
      BY <1>1
    <3> HIDE DEF Eq
    <3>2. (\A k \in 1..i : Eq(k)) <=> (\A k \in 1..(i - 1) : Eq(k)) /\ Eq(i)
      BY <3>1, Zenon
    <3> QED
      BY <3>2 DEF SameSoFar, Eq
  <2> HIDE DEF Eq
  <2>4. q[i] <=> SameSoFar(v, match, i)
    BY <2>1, <2>2, <2>3, Zenon
  <2> QED
    BY <2>1, <2>4
<1>9. j \in T
  <2>1. 0..LitBits \subseteq T
    <3> HIDE DEF T
    <3> QED
      BY <1>1, <1>7, <1>8, UpTo
  <2> HIDE DEF T
  <2> QED
    BY <2>1
<1> QED
  BY <1>9 DEF q

\* Where a matched literal's bits are asked for.
MatchedContext(v, match) ==
  [j \in 1..LitBits |->
     Pushed(1, High(v, LitBits))[j - 1]
     + IF SameSoFar(v, match, j - 1)
       THEN (1 + BitOf(match, LitBits - j)) * TwoTo(LitBits) ELSE 0]

LEMMA MatchedIs ==
  ASSUME NEW v \in Nat, NEW match \in Nat
  PROVE  /\ MatchedLiteral(v, match)
              = Made("literal", LitBits, MatchedContext(v, match), High(v, LitBits))
         /\ MatchedContext(v, match) \in [1..LitBits -> Int]
         /\ \A j \in 1..LitBits : /\ MatchedContext(v, match)[j] \in Nat
                                  /\ MatchedContext(v, match)[j] < 3 * TwoTo(LitBits)
<1> DEFINE m == Pushed(1, High(v, LitBits))
           t == TwoTo(LitBits)
           same == SameFlags(v, match)
<1>1. LitBits \in Nat /\ t \in Nat
  BY SymbolAssumption, TwoToStep
<1>2. \A j \in 1..LitBits : same[j - 1] <=> SameSoFar(v, match, j - 1)
  <2>1. \A j \in 1..LitBits : j - 1 \in 0..LitBits
    BY <1>1
  <2> HIDE DEF same
  <2> QED
    BY <2>1, FlagIs DEF same
<1>3. MatchedLiteral(v, match)
        = [j \in 1..LitBits |->
             Coded("literal", m[j - 1] + IF same[j - 1]
                                THEN (1 + BitOf(match, LitBits - j)) * t ELSE 0,
                   High(v, LitBits)[j])]
  BY DEF MatchedLiteral, MatchedBits, SameFlags
<1>4. \A j \in 1..LitBits : /\ m[j - 1] \in 1..(t - 1)
                            /\ BitOf(match, LitBits - j) \in 0..1
  <2> TAKE j \in 1..LitBits
  <2>1. High(v, LitBits) \in [1..LitBits -> 0..1]
    BY <1>1, HighLow
  <2>2. 0 + m[j - 1] \in (0 + 1)..(0 + t - 1)
    <3>1. /\ Context(LitBits, 0, High(v, LitBits))[j] \in (0 + 1)..(0 + TwoTo(LitBits) - 1)
          /\ Context(LitBits, 0, High(v, LitBits)) \in [1..LitBits -> Int]
      BY <1>1, <2>1, ContextType
    <3>2. Context(LitBits, 0, High(v, LitBits))[j] = 0 + m[j - 1]
      BY DEF Context
    <3> QED
      BY <3>1, <3>2
  <2>3. m[j - 1] \in Nat
    <3>1. m \in [0..LitBits -> Nat] /\ j - 1 \in 0..LitBits
      BY <1>1, <2>1, PushedStep
    <3> QED
      BY <3>1
  <2>4. BitOf(match, LitBits - j) \in 0..1
    <3>1. LitBits - j \in Nat
      BY <1>1
    <3> QED
      BY <3>1, ShrBit
  <2> HIDE DEF m, t
  <2> QED
    BY <1>1, <2>2, <2>3, <2>4
<1> HIDE DEF m, t, same
<1>5. MatchedLiteral(v, match)
        = [j \in 1..LitBits |->
             Coded("literal", m[j - 1] + IF SameSoFar(v, match, j - 1)
                                THEN (1 + BitOf(match, LitBits - j)) * t ELSE 0,
                   High(v, LitBits)[j])]
  BY <1>2, <1>3
<1>6. \A j \in 1..LitBits :
        MatchedContext(v, match)[j]
          = m[j - 1] + IF SameSoFar(v, match, j - 1)
                       THEN (1 + BitOf(match, LitBits - j)) * t ELSE 0
  BY DEF MatchedContext, m, t
<1>7. MatchedLiteral(v, match)
        = Made("literal", LitBits, MatchedContext(v, match), High(v, LitBits))
  BY <1>5, <1>6 DEF Made
<1>8. \A j \in 1..LitBits : /\ MatchedContext(v, match)[j] \in Nat
                            /\ MatchedContext(v, match)[j] < 3 * t
  <2> TAKE j \in 1..LitBits
  <2>1. PICK x \in 1..(t - 1), b \in 0..1 : x = m[j - 1] /\ b = BitOf(match, LitBits - j)
    BY <1>4
  <2>2. MatchedContext(v, match)[j] = x + IF SameSoFar(v, match, j - 1) THEN (1 + b) * t ELSE 0
    BY <1>6, <2>1
  <2>3. (1 + b) * t = t \/ (1 + b) * t = 2 * t
    BY <1>1
  <2> QED
    BY <1>1, <2>2, <2>3
<1>9. MatchedContext(v, match) \in [1..LitBits -> Int]
  <2>1. \A j \in 1..LitBits : MatchedContext(v, match)[j] \in Int
    BY <1>8
  <2> QED
    BY <2>1 DEF MatchedContext
<1> QED
  BY <1>7, <1>8, <1>9 DEF t

\* encodeMatched, then decodeWithMatchByte.
LEMMA MatchedReads ==
  ASSUME NEW v \in Nat, v < TwoTo(LitBits), NEW match \in Nat, NEW rest \in Seq(Items), NEW val
  PROVE  /\ MatchedLiteral(v, match) \in Seq(Items)
         /\ ReadMatched(Reads(MatchedLiteral(v, match) \o rest, val), match) = Reads(rest, v)
<1> DEFINE bits == High(v, LitBits)
           index == MatchedContext(v, match)
           r == Reads(MatchedLiteral(v, match) \o rest, val)
<1>1. LitBits \in Nat /\ bits \in [1..LitBits -> 0..1] /\ TwoTo(LitBits) \in Nat
  BY SymbolAssumption, HighLow, TwoToStep
<1>2. /\ MatchedLiteral(v, match) = Made("literal", LitBits, index, bits)
      /\ index \in [1..LitBits -> Int]
      /\ \A j \in 1..LitBits : index[j] \in Nat /\ index[j] < 3 * TwoTo(LitBits)
  BY MatchedIs
<1>3. /\ \A j \in 1..LitBits : bits[j] = BitOf(v, LitBits - j)
      /\ \A j \in 1..LitBits : High(match, LitBits)[j] = BitOf(match, LitBits - j)
  BY DEF High
<1>4. \A j \in 1..LitBits :
        index[j] = IF \E k \in 1..(j - 1) : High(match, LitBits)[k] # bits[k]
                   THEN Pushed(1, bits)[j - 1]
                   ELSE (1 + High(match, LitBits)[j]) * TwoTo(LitBits) + Pushed(1, bits)[j - 1]
  <2> TAKE j \in 1..LitBits
  <2>1. \A k \in 1..(j - 1) : k \in 1..LitBits
    BY <1>1
  <2>2. SameSoFar(v, match, j - 1)
          <=> ~\E k \in 1..(j - 1) : High(match, LitBits)[k] # bits[k]
    BY <1>3, <2>1 DEF SameSoFar
  <2>3. index[j] = Pushed(1, bits)[j - 1]
                   + IF SameSoFar(v, match, j - 1)
                     THEN (1 + BitOf(match, LitBits - j)) * TwoTo(LitBits) ELSE 0
    BY DEF MatchedContext
  <2>4. /\ Pushed(1, bits)[j - 1] \in Int
        /\ (1 + BitOf(match, LitBits - j)) * TwoTo(LitBits) \in Int
    <3>1. Pushed(1, bits) \in [0..LitBits -> Nat] /\ j - 1 \in 0..LitBits /\ LitBits - j \in Nat
      BY <1>1, PushedStep
    <3>2. BitOf(match, LitBits - j) \in 0..1
      BY <3>1, ShrBit
    <3> HIDE DEF bits
    <3> QED
      BY <1>1, <3>1, <3>2
  <2>5. High(match, LitBits)[j] = BitOf(match, LitBits - j)
    BY <1>3
  <2> HIDE DEF bits, index
  <2>6. CASE SameSoFar(v, match, j - 1)
    BY <2>2, <2>3, <2>4, <2>5, <2>6
  <2>7. CASE ~SameSoFar(v, match, j - 1)
    BY <2>2, <2>3, <2>4, <2>5, <2>7
  <2> QED
    BY <2>6, <2>7
<1>5. Pushed(1, bits)[LitBits] % TwoTo(LitBits) = v
  <2>1. Pushed(1, bits)[LitBits] = TwoTo(LitBits) + v
    BY <1>1, AllPushed
  <2> QED
    BY SMTT(30), <1>1, <2>1, TopBitOff
<1> HIDE DEF bits, index
<1>6. Made("literal", LitBits, index, bits) \in Seq(Items)
  <2>1. "literal" \in DOMAIN Size /\ Size["literal"] = 3 * TwoTo(LitBits)
    BY SizesAre
  <2> QED
    BY <1>1, <1>2, <2>1, MadeInRange
<1>7. NextBits(r, LitBits) = bits /\ Took(r, LitBits, "literal", index) = Reads(rest, val)
  <2>1. r = Reads(Made("literal", LitBits, index, bits) \o rest, val)
    BY <1>2
  <2> HIDE DEF r
  <2>2. ASSUME NEW array, array = "literal"
        PROVE  NextBits(r, LitBits) = bits /\ Took(r, LitBits, array, index) = Reads(rest, val)
    BY <1>1, <1>2, <1>6, <2>1, <2>2, TapeTaken
  <2> QED
    BY <2>2
<1> HIDE DEF r
<1>8. ReadMatched(r, match) = [Reads(rest, val) EXCEPT !.val = v]
  <2> DEFINE asked == [j \in 1..LitBits |->
                         IF \E k \in 1..(j - 1) : High(match, LitBits)[k] # bits[k]
                         THEN Pushed(1, bits)[j - 1]
                         ELSE (1 + High(match, LitBits)[j]) * TwoTo(LitBits)
                              + Pushed(1, bits)[j - 1]]
  <2>1. index = asked
    BY <1>2, <1>4
  <2>2. ReadMatched(r, match) = [Took(r, LitBits, "literal", asked) EXCEPT
                                   !.val = Pushed(1, bits)[LitBits] % TwoTo(LitBits)]
    BY <1>7 DEF ReadMatched
  <2> HIDE DEF asked
  <2> QED
    BY <1>5, <1>7, <2>1, <2>2
<1> QED
  BY <1>2, <1>6, <1>8 DEF Reads, r
-----------------------------------------------------------------------------
(***************************************************************************)
(* Lengths.                                                                *)
(***************************************************************************)
LEMMA ChoiceReads ==
  ASSUME NEW i \in 0..1, NEW b \in 0..1, NEW rest \in Seq(Items), NEW val
  PROVE  LET r == Reads(<<Coded("choice", i, b)>> \o rest, val)
         IN  /\ <<Coded("choice", i, b)>> \in Seq(Items)
             /\ NextBits(r, 1) = <<b>>
             /\ Took(r, 1, "choice", <<i>>) = Reads(rest, val)
<1> DEFINE s == <<Coded("choice", i, b)>>
           r == Reads(s \o rest, val)
<1>1. 1 \in Nat /\ <<i>> \in [1..1 -> Int] /\ <<b>> \in [1..1 -> 0..1]
  OBVIOUS
<1>2. Made("choice", 1, <<i>>, <<b>>) = s
  <2>1. \A j \in 1..1 : j = 1 /\ <<i>>[j] = i /\ <<b>>[j] = b
    OBVIOUS
  <2>2. Made("choice", 1, <<i>>, <<b>>) = [j \in 1..1 |-> Coded("choice", i, b)]
    BY <2>1 DEF Made
  <2>3. \A x : [j \in 1..1 |-> x] = <<x>>
    OBVIOUS
  <2> QED
    BY <2>2, <2>3
<1>3. s \in Seq(Items)
  <2>1. "choice" \in DOMAIN Size /\ Size["choice"] = 2
    BY SizesAre
  <2>2. Coded("choice", i, b) \in Items
    BY <2>1 DEF Items, Coded
  <2> QED
    BY <2>2
<1> HIDE DEF s
<1>4. r = Reads(Made("choice", 1, <<i>>, <<b>>) \o rest, val)
  BY <1>2
<1> HIDE DEF r
<1>5. ASSUME NEW array, array = "choice", NEW index, index = <<i>>, NEW bits, bits = <<b>>,
             NEW n, n = 1
      PROVE  NextBits(r, n) = bits /\ Took(r, n, array, index) = Reads(rest, val)
  <2>1. n \in Nat /\ index \in [1..n -> Int] /\ bits \in [1..n -> 0..1]
    BY <1>1, <1>5
  <2>2. Made(array, n, index, bits) \in Seq(Items) /\ r = Reads(Made(array, n, index, bits) \o rest, val)
    BY <1>2, <1>3, <1>4, <1>5
  <2>3. rest \in Seq(Items)
    OBVIOUS
  <2> QED
    BY ONLY <2>1, <2>2, <2>3, TapeTaken, SMTT(30)
<1>6. NextBits(r, 1) = <<b>> /\ Took(r, 1, "choice", <<i>>) = Reads(rest, val)
  BY <1>5
<1> QED
  BY <1>3, <1>6 DEF s, r

LEMMA NoMore == ASSUME NEW s \in Seq(Items) PROVE s \o << >> = s /\ << >> \in Seq(Items)
OBVIOUS

BehindTwo(b, t) == <<Coded("choice", 0, 1), Coded("choice", 1, b)>> \o t

LEMMA TwoChoices ==
  ASSUME NEW b \in 0..1, NEW t \in Seq(Items), NEW val
  PROVE  LET r  == Reads(BehindTwo(b, t), val)
             r1 == Took(r, 1, "choice", <<0>>)
         IN  /\ BehindTwo(b, t) \in Seq(Items) /\ NextBits(r, 1) = <<1>>
             /\ NextBits(r1, 1) = <<b>> /\ Took(r1, 1, "choice", <<1>>) = Reads(t, val)
<1> DEFINE w == BehindTwo(b, t)
            s == <<Coded("choice", 0, 1)>>
           u == <<Coded("choice", 1, b)>>
           x == u \o t
<1>1. 0 \in 0..1 /\ 1 \in 0..1
  OBVIOUS
<1>2. u \in Seq(Items) /\ NextBits(Reads(x, val), 1) = <<b>>
      /\ Took(Reads(x, val), 1, "choice", <<1>>) = Reads(t, val)
  BY <1>1, ChoiceReads
<1>3. s \in Seq(Items)
  BY <1>1, ChoiceReads
<1> HIDE DEF w
<1>4. w = s \o x
  <2>0. w = <<Coded("choice", 0, 1), Coded("choice", 1, b)>> \o t
    BY DEF BehindTwo, w
  <2>1. (s \o u) \o t = s \o (u \o t)
    <3> HIDE DEF s, u
    <3> QED
      BY SMTT(30), <1>2, <1>3, ConcatAssociative
  <2>2. ASSUME NEW y \in Items, NEW z \in Items PROVE <<y>> \o <<z>> = <<y, z>>
    <3>1. <<y>> \in Seq(Items) /\ Len(<<y>>) = 1 /\ <<y>>[1] = y
          /\ <<z>> \in Seq(Items) /\ Len(<<z>>) = 1 /\ <<z>>[1] = z
      OBVIOUS
    <3>2. \A f \in Seq(Items) : Len(f) = 2 /\ f[1] = y /\ f[2] = z => f = <<y, z>>
      OBVIOUS
    <3>3. <<y>> \o <<z>> \in Seq(Items) /\ Len(<<y>> \o <<z>>) = 2
          /\ (<<y>> \o <<z>>)[1] = y /\ (<<y>> \o <<z>>)[2] = z
      BY <3>1, ConcatProperties
    <3> QED
      BY <3>2, <3>3
  <2>3. Coded("choice", 0, 1) \in Items /\ Coded("choice", 1, b) \in Items
    BY <1>2, <1>3
  <2>4. s \o u = <<Coded("choice", 0, 1), Coded("choice", 1, b)>>
    BY <2>2, <2>3
  <2> QED
    BY <2>0, <2>1, <2>4
<1>5. x \in Seq(Items)
  BY <1>2
<1> HIDE DEF x
<1>6. NextBits(Reads(s \o x, val), 1) = <<1>>
      /\ Took(Reads(s \o x, val), 1, "choice", <<0>>) = Reads(x, val)
  BY <1>1, <1>5, ChoiceReads
<1> HIDE DEF s
<1>7. w \in Seq(Items)
  BY <1>3, <1>4, <1>5, ConcatProperties
<1> QED
  BY <1>2, <1>4, <1>6, <1>7 DEF w

\* A tree and nothing behind it.
LEMMA LastTreeReads ==
  ASSUME NEW array \in DOMAIN Size, NEW n \in Nat, Size[array] = TwoTo(n),
         NEW v \in Nat, v < TwoTo(n), NEW val
  PROVE  /\ Tree(array, n, v) \in Seq(Items)
         /\ ReadTree(Reads(Tree(array, n, v), val), array, n) = Reads(<< >>, v)
<1>1. TwoTo(n) <= Size[array] /\ Size[array] \in Nat
  <2>1. TwoTo(n) \in Nat
    BY TwoToStep
  <2> QED
    BY <2>1
<1>2. PICK rest \in Seq(Items) : rest = << >>
  <2>1. << >> \in Seq(Items)
    OBVIOUS
  <2> QED
    BY ONLY <2>1
<1>3. /\ Tree(array, n, v) \in Seq(Items)
      /\ ReadTree(Reads(Tree(array, n, v) \o rest, val), array, n) = Reads(rest, v)
  BY <1>1, TreeReads
<1>4. Tree(array, n, v) \o rest = Tree(array, n, v)
  BY <1>2, <1>3, NoMore
<1> QED
  BY <1>2, <1>3, <1>4

\* lenCoder: encode, then decode.
LEMMA LengthReads ==
  ASSUME NEW v \in 0..(TwoTo(LowBits) + TwoTo(MidBits) + TwoTo(HighBits) - 1), NEW val
  PROVE  /\ Length(v) \in Seq(Items)
         /\ ReadLength(Reads(Length(v), val)) = Reads(<< >>, v)
<1> DEFINE low == TwoTo(LowBits)
           mid == TwoTo(MidBits)
           r == Reads(Length(v), val)
           r1 == Took(r, 1, "choice", <<0>>)
           r2 == Took(r1, 1, "choice", <<1>>)
<1>1. /\ LowBits \in Nat /\ MidBits \in Nat /\ HighBits \in Nat
      /\ low \in Nat /\ mid \in Nat /\ TwoTo(HighBits) \in Nat
  BY SymbolAssumption, TwoToStep
<1>2. /\ "low" \in DOMAIN Size /\ "mid" \in DOMAIN Size /\ "high" \in DOMAIN Size
      /\ Size["low"] = low /\ Size["mid"] = mid /\ Size["high"] = TwoTo(HighBits)
  BY SizesAre
<1>3. << >> \in Seq(Items) /\ 0 \in 0..1 /\ 1 \in 0..1
  OBVIOUS
<1>4. <<0>> # <<1>>
  OBVIOUS
<1>5. ReadLength(r) =
        CASE NextBits(r, 1) = <<0>> -> ReadTree(r1, "low", LowBits)
          [] NextBits(r, 1) # <<0>> /\ NextBits(r1, 1) = <<0>> ->
               [ReadTree(r2, "mid", MidBits) EXCEPT !.val = low + @]
          [] OTHER -> [ReadTree(r2, "high", HighBits) EXCEPT !.val = low + mid + @]
  BY DEF ReadLength
<1>6. CASE v < low
  <2> DEFINE t == Tree("low", LowBits, v)
             s == <<Coded("choice", 0, 0)>>
  <2>1. v \in Nat /\ v < TwoTo(LowBits)
    BY <1>1, <1>6
  <2>2. t \in Seq(Items) /\ ReadTree(Reads(t, val), "low", LowBits) = Reads(<< >>, v)
    <3>1. ASSUME NEW array, array = "low", NEW n, n = LowBits, NEW x, x = v
          PROVE  /\ Tree(array, n, x) \in Seq(Items)
                 /\ ReadTree(Reads(Tree(array, n, x), val), array, n) = Reads(<< >>, x)
      <4>1. array \in DOMAIN Size /\ n \in Nat /\ Size[array] = TwoTo(n) /\ x \in Nat /\ x < TwoTo(n)
        BY <1>1, <1>2, <2>1, <3>1
      <4> QED
        BY ONLY <4>1, LastTreeReads
    <3> QED
      BY <3>1
  <2>3. Length(v) = s \o t
    <3>1. ~(v >= low)
      BY <1>1, <1>6
    <3> QED
      BY <1>6, <3>1 DEF Length
  <2> HIDE DEF t
  <2>4. s \in Seq(Items) /\ NextBits(Reads(s \o t, val), 1) = <<0>>
        /\ Took(Reads(s \o t, val), 1, "choice", <<0>>) = Reads(t, val)
    BY <1>3, <2>2, ChoiceReads
  <2> HIDE DEF s
  <2>5. NextBits(r, 1) = <<0>> /\ r1 = Reads(t, val) /\ Length(v) \in Seq(Items)
    BY <2>2, <2>3, <2>4
  <2> HIDE DEF r, r1, r2, low, mid
  <2>6. ReadLength(r) = ReadTree(r1, "low", LowBits)
    BY <1>5, <2>5
  <2> QED
    BY <2>2, <2>5, <2>6 DEF r
<1>7. CASE v >= low /\ v - low < mid
  <2> DEFINE t == Tree("mid", MidBits, v - low)
  <2>1. v - low \in Nat /\ v - low < TwoTo(MidBits)
    BY <1>1, <1>7
  <2>2. t \in Seq(Items) /\ ReadTree(Reads(t, val), "mid", MidBits) = Reads(<< >>, v - low)
    <3>1. ASSUME NEW array, array = "mid", NEW n, n = MidBits, NEW x, x = v - low
          PROVE  /\ Tree(array, n, x) \in Seq(Items)
                 /\ ReadTree(Reads(Tree(array, n, x), val), array, n) = Reads(<< >>, x)
      <4>1. array \in DOMAIN Size /\ n \in Nat /\ Size[array] = TwoTo(n) /\ x \in Nat /\ x < TwoTo(n)
        BY <1>1, <1>2, <2>1, <3>1
      <4> QED
        BY ONLY <4>1, LastTreeReads
    <3> QED
      BY <3>1
  <2>3. Length(v) = <<Coded("choice", 0, 1), Coded("choice", 1, 0)>> \o t
    <3>1. ~(v < low)
      BY <1>1, <1>7
    <3> HIDE DEF t
    <3> QED
      BY <1>7, <3>1 DEF Length, t
  <2> HIDE DEF t
  <2>4. /\ Length(v) \in Seq(Items) /\ NextBits(r, 1) = <<1>>
        /\ NextBits(r1, 1) = <<0>> /\ r2 = Reads(t, val)
    <3>1. /\ BehindTwo(0, t) \in Seq(Items)
          /\ NextBits(Reads(BehindTwo(0, t), val), 1) = <<1>>
          /\ NextBits(Took(Reads(BehindTwo(0, t), val), 1, "choice", <<0>>), 1) = <<0>>
          /\ Took(Took(Reads(BehindTwo(0, t), val), 1, "choice", <<0>>), 1, "choice", <<1>>)
               = Reads(t, val)
      BY <1>3, <2>2, TwoChoices
    <3>2. Length(v) = BehindTwo(0, t)
      BY <2>3 DEF BehindTwo
    <3> QED
      BY <3>1, <3>2
  <2> HIDE DEF r, r1, r2, low, mid
  <2>5. ReadLength(r) = [Reads(<< >>, v - low) EXCEPT !.val = low + @]
    BY <1>4, <1>5, <2>2, <2>4
  <2>6. low + (v - low) = v
    BY <1>1
  <2> QED
    BY <2>4, <2>5, <2>6 DEF Reads, r
<1>8. CASE ~(v < low) /\ ~(v >= low /\ v - low < mid)
  <2> DEFINE t == Tree("high", HighBits, v - low - mid)
  <2>1. v - low - mid \in Nat /\ v - low - mid < TwoTo(HighBits)
    BY <1>1, <1>8
  <2>2. t \in Seq(Items) /\ ReadTree(Reads(t, val), "high", HighBits) = Reads(<< >>, v - low - mid)
    <3>1. ASSUME NEW array, array = "high", NEW n, n = HighBits, NEW x, x = v - low - mid
          PROVE  /\ Tree(array, n, x) \in Seq(Items)
                 /\ ReadTree(Reads(Tree(array, n, x), val), array, n) = Reads(<< >>, x)
      <4>1. array \in DOMAIN Size /\ n \in Nat /\ Size[array] = TwoTo(n) /\ x \in Nat /\ x < TwoTo(n)
        BY <1>1, <1>2, <2>1, <3>1
      <4> QED
        BY ONLY <4>1, LastTreeReads
    <3> QED
      BY <3>1
  <2>3. Length(v) = <<Coded("choice", 0, 1), Coded("choice", 1, 1)>> \o t
    <3>1. ~(v < low)
      BY <1>1, <1>8
    <3> HIDE DEF t
    <3> QED
      BY <1>8, <3>1 DEF Length, t
  <2> HIDE DEF t
  <2>4. /\ Length(v) \in Seq(Items) /\ NextBits(r, 1) = <<1>>
        /\ NextBits(r1, 1) = <<1>> /\ r2 = Reads(t, val)
    <3>1. /\ BehindTwo(1, t) \in Seq(Items)
          /\ NextBits(Reads(BehindTwo(1, t), val), 1) = <<1>>
          /\ NextBits(Took(Reads(BehindTwo(1, t), val), 1, "choice", <<0>>), 1) = <<1>>
          /\ Took(Took(Reads(BehindTwo(1, t), val), 1, "choice", <<0>>), 1, "choice", <<1>>)
               = Reads(t, val)
      BY <1>3, <2>2, TwoChoices
    <3>2. Length(v) = BehindTwo(1, t)
      BY <2>3 DEF BehindTwo
    <3> QED
      BY <3>1, <3>2
  <2> HIDE DEF r, r1, r2, low, mid
  <2>5. ReadLength(r) = [Reads(<< >>, v - low - mid) EXCEPT !.val = low + mid + @]
    BY <1>4, <1>5, <2>2, <2>4
  <2>6. low + mid + (v - low - mid) = v
    BY <1>1
  <2> QED
    BY <2>4, <2>5, <2>6 DEF Reads, r
<1> QED
  BY <1>6, <1>7, <1>8
-----------------------------------------------------------------------------
(***************************************************************************)
(* Slots. From 2 on, two slots of each number of footer bits follow one    *)
(* another, each beginning where the one before ends.                      *)
(***************************************************************************)
LEMMA SlotIs ==
  ASSUME NEW k \in Nat
  PROVE  /\ FooterBits(2 * k + 2) = k /\ Base(2 * k + 2) = 2 * TwoTo(k)
         /\ FooterBits(2 * k + 3) = k /\ Base(2 * k + 3) = 3 * TwoTo(k)
<1>1. /\ (2 * k + 2) \div 2 = k + 1 /\ (2 * k + 2) % 2 = 0
      /\ (2 * k + 3) \div 2 = k + 1 /\ (2 * k + 3) % 2 = 1
  OBVIOUS
<1>2. FooterBits(2 * k + 2) = k /\ FooterBits(2 * k + 3) = k
  BY <1>1 DEF FooterBits
<1> QED
  BY <1>1, <1>2 DEF Base

LEMMA EverySlot ==
  ASSUME NEW s \in Nat, s >= 2
  PROVE  \E k \in Nat : s = 2 * k + 2 \/ s = 2 * k + 3
<1>1. (s - 2) \div 2 \in Nat /\ (s - 2) % 2 \in 0..1 /\ s - 2 = 2 * ((s - 2) \div 2) + ((s - 2) % 2)
  OBVIOUS
<1>2. s = 2 * ((s - 2) \div 2) + 2 \/ s = 2 * ((s - 2) \div 2) + 3
  BY <1>1
<1> QED
  BY <1>1, <1>2

LEMMA SlotStep ==
  ASSUME NEW s \in Nat, s >= 2
  PROVE  /\ FooterBits(s) \in Nat /\ Base(s) \in Nat
         /\ Base(s + 1) = Base(s) + TwoTo(FooterBits(s))
         /\ Base(s + 2) = 2 * Base(s) /\ FooterBits(s + 2) = FooterBits(s) + 1
<1>1. PICK k \in Nat : s = 2 * k + 2 \/ s = 2 * k + 3
  BY EverySlot
<1>2. k + 1 \in Nat /\ TwoTo(k) \in Nat /\ TwoTo(k + 1) = 2 * TwoTo(k)
  BY TwoToStep
<1>3. /\ FooterBits(2 * k + 2) = k /\ Base(2 * k + 2) = 2 * TwoTo(k)
      /\ FooterBits(2 * k + 3) = k /\ Base(2 * k + 3) = 3 * TwoTo(k)
      /\ FooterBits(2 * (k + 1) + 2) = k + 1 /\ Base(2 * (k + 1) + 2) = 2 * TwoTo(k + 1)
      /\ FooterBits(2 * (k + 1) + 3) = k + 1 /\ Base(2 * (k + 1) + 3) = 3 * TwoTo(k + 1)
  BY <1>2, SlotIs
<1>4. CASE s = 2 * k + 2
  <2>1. s + 1 = 2 * k + 3 /\ s + 2 = 2 * (k + 1) + 2
    BY <1>4
  <2> QED
    BY <1>2, <1>3, <1>4, <2>1
<1>5. CASE s = 2 * k + 3
  <2>1. s + 1 = 2 * (k + 1) + 2 /\ s + 2 = 2 * (k + 1) + 3
    BY <1>5
  <2> QED
    BY <1>2, <1>3, <1>5, <2>1
<1> QED
  BY <1>1, <1>4, <1>5

LEMMA BaseGrows ==
  ASSUME NEW a \in Nat, NEW b \in Nat, 2 <= a, a <= b
  PROVE  Base(a) \in Nat /\ Base(b) \in Nat /\ Base(a) + (b - a) <= Base(b)
<1> DEFINE T == {i \in Nat : Base(a) + i <= Base(a + i)}
<1>1. Base(a) \in Nat /\ Base(b) \in Nat
  BY SlotStep
<1>2. 0 \in T
  BY <1>1
<1>3. ASSUME NEW i \in Nat, i \in T PROVE i + 1 \in T
  <2>1. a + i \in Nat /\ a + i >= 2 /\ a + (i + 1) = (a + i) + 1
    OBVIOUS
  <2>2. FooterBits(a + i) \in Nat /\ Base(a + i) \in Nat
        /\ Base(a + (i + 1)) = Base(a + i) + TwoTo(FooterBits(a + i))
    BY <2>1, SlotStep
  <2>3. TwoTo(FooterBits(a + i)) \in Nat /\ TwoTo(FooterBits(a + i)) >= 1
    BY <2>2, TwoToPositive
  <2> QED
    BY <1>1, <1>3, <2>2, <2>3
<1>4. b - a \in T
  <2>1. b - a \in Nat
    OBVIOUS
  <2> HIDE DEF T
  <2> QED
    BY <1>2, <1>3, <2>1, Upwards
<1>5. a + (b - a) = b
  OBVIOUS
<1> QED
  BY <1>1, <1>4, <1>5

LEMMA BaseShift ==
  ASSUME NEW s \in Nat, s >= 2, NEW n \in Nat
  PROVE  Base(s + 2 * n) = Base(s) * TwoTo(n) /\ FooterBits(s + 2 * n) = FooterBits(s) + n
<1> DEFINE T == {i \in Nat : /\ Base(s + 2 * i) = Base(s) * TwoTo(i)
                             /\ FooterBits(s + 2 * i) = FooterBits(s) + i}
<1>1. Base(s) \in Nat /\ FooterBits(s) \in Nat
  BY SlotStep
<1>2. 0 \in T
  <2>1. s + 2 * 0 = s /\ TwoTo(0) = 1
    BY TwoToStep
  <2> QED
    BY <1>1, <2>1
<1>3. ASSUME NEW i \in Nat, i \in T PROVE i + 1 \in T
  <2>1. s + 2 * i \in Nat /\ s + 2 * i >= 2 /\ s + 2 * (i + 1) = (s + 2 * i) + 2
    OBVIOUS
  <2>2. /\ Base(s + 2 * (i + 1)) = 2 * Base(s + 2 * i)
        /\ FooterBits(s + 2 * (i + 1)) = FooterBits(s + 2 * i) + 1
    BY <2>1, SlotStep
  <2>3. TwoTo(i) \in Nat /\ TwoTo(i + 1) = 2 * TwoTo(i)
    BY TwoToStep
  <2>4. Base(s) * (2 * TwoTo(i)) = 2 * (Base(s) * TwoTo(i))
    BY <1>1, <2>3
  <2>5. /\ Base(s + 2 * (i + 1)) = Base(s) * TwoTo(i + 1)
        /\ FooterBits(s + 2 * (i + 1)) = FooterBits(s) + (i + 1)
    BY <1>1, <1>3, <2>2, <2>3, <2>4
  <2> QED
    BY <2>5
<1> HIDE DEF T
<1>4. Nat \subseteq T
  BY <1>2, <1>3, Upwards
<1> QED
  BY <1>4 DEF T

InSlot(pos, s) == s \in Nat /\ s >= 2 /\ Base(s) <= pos /\ pos < Base(s + 1)

LEMMA OneSlot ==
  ASSUME NEW pos \in Nat, NEW s, InSlot(pos, s), NEW t, InSlot(pos, t)
  PROVE  s = t
<1>1. /\ s \in Nat /\ s >= 2 /\ t \in Nat /\ t >= 2 /\ s + 1 \in Nat /\ t + 1 \in Nat
      /\ Base(s) <= pos /\ pos < Base(s + 1) /\ Base(t) <= pos /\ pos < Base(t + 1)
  BY DEF InSlot
<1>2. Base(s) \in Nat /\ Base(t) \in Nat /\ Base(s + 1) \in Nat /\ Base(t + 1) \in Nat
  BY <1>1, SlotStep
<1>3. s + 1 <= t => Base(s + 1) + (t - (s + 1)) <= Base(t)
  BY <1>1, BaseGrows
<1>4. t + 1 <= s => Base(t + 1) + (s - (t + 1)) <= Base(s)
  BY <1>1, BaseGrows
<1> QED
  BY <1>1, <1>2, <1>3, <1>4

\* gFastPos is full, and has the slot of each of its indices.
FastEnds == Steps(2, [k \in 1..(FastSlots - 2) |->
                        [c \in Nat |-> c + TwoTo(FooterBits(k + 1))]], FastSlots - 2)

LEMMA FastNumbers ==
  /\ FastBits \in Nat /\ FastBits >= 1 /\ FastSlots \in Nat /\ FastSlots - 2 \in Nat
  /\ FastSlots = 2 * FastBits /\ TwoTo(FastBits) \in Nat /\ TwoTo(FastBits) >= 2
  /\ Base(FastSlots) = TwoTo(FastBits) /\ Base(2) = 2 /\ Base(3) = 3 /\ Base(4) = 4
<1>1. FastBits \in Nat /\ FastBits >= 1 /\ FastSlots = 2 * FastBits
  BY SymbolAssumption
<1>2. FastBits - 1 \in Nat /\ (FastBits - 1) + 1 = FastBits /\ FastSlots = 2 * (FastBits - 1) + 2
  BY <1>1
<1>3. Base(FastSlots) = 2 * TwoTo(FastBits - 1) /\ TwoTo(FastBits) = 2 * TwoTo(FastBits - 1)
      /\ TwoTo(FastBits - 1) \in Nat
  BY <1>2, SlotIs, TwoToStep
<1>4. TwoTo(FastBits - 1) >= 1
  BY <1>2, TwoToPositive
<1>5. TwoTo(0) = 1 /\ TwoTo(1) = 2 /\ 2 * 0 + 2 = 2 /\ 2 * 0 + 3 = 3 /\ 2 * 1 + 2 = 4
  <2>1. TwoTo(0 + 1) = 2 * TwoTo(0) /\ TwoTo(0) = 1
    BY TwoToStep
  <2> QED
    BY <2>1
<1>6. Base(2 * 0 + 2) = 2 * TwoTo(0) /\ Base(2 * 0 + 3) = 3 * TwoTo(0)
      /\ Base(2 * 1 + 2) = 2 * TwoTo(1)
  BY SlotIs
<1> QED
  BY <1>1, <1>2, <1>3, <1>4, <1>5, <1>6

LEMMA EndsAre == \A k \in 0..(FastSlots - 2) : FastEnds[k] = Base(k + 2)
<1> DEFINE n == FastSlots - 2
           F == [k \in 1..n |-> [c \in Nat |-> c + TwoTo(FooterBits(k + 1))]]
           T == {k \in 0..n : FastEnds[k] = Base(k + 2)}
<1>1. n \in Nat /\ Base(2) = 2
  BY FastNumbers
<1>2. \A k \in 1..n : /\ FooterBits(k + 1) \in Nat /\ TwoTo(FooterBits(k + 1)) \in Nat
                      /\ Base(k + 1) \in Nat
                      /\ Base(k + 2) = Base(k + 1) + TwoTo(FooterBits(k + 1))
  <2> TAKE k \in 1..n
  <2>1. k + 1 \in Nat /\ k + 1 >= 2 /\ (k + 1) + 1 = k + 2
    BY <1>1
  <2> QED
    BY <2>1, SlotStep, TwoToStep
<1>3. FastEnds = Steps(2, F, n)
  BY DEF FastEnds
<1> HIDE DEF n
<1>4. F \in [1..n -> [Nat -> Nat]]
  <2>1. \A k \in 1..n : \A c \in Nat : c + TwoTo(FooterBits(k + 1)) \in Nat
    BY <1>2
  <2> QED
    BY <2>1
<1>5. \A k \in 1..n : \A c \in Nat : F[k][c] = c + TwoTo(FooterBits(k + 1))
  OBVIOUS
<1> HIDE DEF F
<1>6. Follows(FastEnds, 2, F, n)
  BY <1>1, <1>3, <1>4, StepsFollow
<1>7. 0 \in T
  BY <1>1, <1>6 DEF Follows
<1>8. ASSUME NEW k \in 1..n, k - 1 \in T PROVE k \in T
  <2>1. (k - 1) + 2 = k + 1 /\ k \in 0..n
    BY <1>1
  <2>2. FastEnds[k - 1] = Base(k + 1) /\ FastEnds[k] = F[k][FastEnds[k - 1]]
    BY <1>6, <1>8, <2>1 DEF Follows
  <2>3. FastEnds[k] = Base(k + 2)
    BY <1>2, <1>5, <2>2
  <2> QED
    BY <2>1, <2>3
<1>9. 0..n \subseteq T
  <2> HIDE DEF T
  <2> QED
    BY <1>1, <1>7, <1>8, UpTo
<1> QED
  BY <1>9 DEF n

\* What lies below the end of a slot lies in one up to it.
LEMMA SomeSlot ==
  ASSUME NEW top \in Nat, NEW pos \in Nat, pos >= 2, pos < Base(top + 2)
  PROVE  \E k \in 1..top : Base(k + 1) <= pos /\ pos < Base(k + 2)
<1> DEFINE T == {k \in 0..top : pos < Base(k + 2)}
<1>1. PICK k \in T : \A j \in T : k <= j
  <2>1. T \subseteq Nat /\ top \in T
    OBVIOUS
  <2> HIDE DEF T
  <2> QED
    BY <2>1, Least
<1>2. k # 0
  <2>1. Base(2) = 2 /\ 0 + 2 = 2
    BY FastNumbers
  <2> QED
    BY <1>1, <2>1
<1>3. k \in 1..top /\ k - 1 \in 0..top /\ k - 1 \notin T /\ (k - 1) + 2 = k + 1
  BY <1>1, <1>2
<1>4. Base(k + 1) \in Nat
  <2>1. k + 1 \in Nat /\ k + 1 >= 2
    BY <1>3
  <2> QED
    BY <2>1, SlotStep
<1>5. Base(k + 1) <= pos
  BY <1>3, <1>4
<1> QED
  BY <1>1, <1>3, <1>5

LEMMA FastPosIs ==
  ASSUME NEW i \in 0..(TwoTo(FastBits) - 1)
  PROVE  /\ i < 2 => FastPos[i] = i
         /\ i >= 2 => InSlot(i, FastPos[i]) /\ FastPos[i] \in 2..(FastSlots - 1)
<1>1. FastPos[i] = IF i < 2 THEN i
                   ELSE 1 + CHOOSE k \in 1..(FastSlots - 2) :
                              FastEnds[k - 1] <= i /\ i < FastEnds[k]
  BY DEF FastPos, FastEnds
<1>2. CASE i >= 2
  <2> DEFINE P(k) == FastEnds[k - 1] <= i /\ i < FastEnds[k]
             c == CHOOSE k \in 1..(FastSlots - 2) : P(k)
  <2>1. i \in Nat /\ FastSlots - 2 \in Nat /\ (FastSlots - 2) + 2 = FastSlots
        /\ i < Base(FastSlots)
    BY FastNumbers
  <2>2. PICK k \in 1..(FastSlots - 2) : Base(k + 1) <= i /\ i < Base(k + 2)
    BY <1>2, <2>1, SomeSlot
  <2>3. \A j \in 1..(FastSlots - 2) : FastEnds[j] = Base(j + 2) /\ FastEnds[j - 1] = Base(j + 1)
    <3> TAKE j \in 1..(FastSlots - 2)
    <3>1. j \in 0..(FastSlots - 2) /\ j - 1 \in 0..(FastSlots - 2) /\ (j - 1) + 2 = j + 1
      BY <2>1
    <3> QED
      BY <3>1, EndsAre
  <2>4. P(k)
    BY <2>2, <2>3
  <2>5. c \in 1..(FastSlots - 2) /\ P(c)
    <3> HIDE DEF P
    <3> QED
      BY <2>4
  <2>6. FastPos[i] = 1 + c
    BY <1>1, <1>2, <2>1
  <2> HIDE DEF c
  <2>7. Base(c + 1) <= i /\ i < Base(c + 2)
    BY <2>3, <2>5
  <2>8. c + 1 \in 2..(FastSlots - 1) /\ (c + 1) + 1 = c + 2 /\ 1 + c = c + 1
    BY <2>1, <2>5
  <2>9. InSlot(i, c + 1)
    BY <2>7, <2>8 DEF InSlot
  <2> QED
    BY <1>2, <2>6, <2>8, <2>9
<1> QED
  BY <1>1, <1>2, FastNumbers

\* The slot of the leading bits of a distance, two for each bit left out.
LEMMA SlotOfIs ==
  ASSUME NEW pos \in Nat, NEW n \in Nat, Shr(pos, n) >= 2, Shr(pos, n) < TwoTo(FastBits)
  PROVE  InSlot(pos, SlotOf(pos, n)) /\ SlotOf(pos, n) <= FastSlots - 1 + 2 * n
<1>1. PICK i \in Nat : i = Shr(pos, n)
  BY ShrStep
<1>2. PICK s \in 2..(FastSlots - 1) : s = FastPos[i] /\ InSlot(i, s)
  <2>1. i \in 0..(TwoTo(FastBits) - 1) /\ i >= 2
    BY <1>1, FastNumbers
  <2> QED
    BY <2>1, FastPosIs
<1>3. PICK t \in Nat : t = TwoTo(n)
  BY TwoToStep
<1>4. i * t <= pos /\ pos < (i + 1) * t
  BY <1>1, <1>3, ShrBounds
<1>5. s \in Nat /\ s >= 2 /\ s + 1 \in Nat /\ s + 1 >= 2
  BY <1>2, FastNumbers
<1>6. Base(s) \in Nat /\ Base(s + 1) \in Nat /\ Base(s) <= i /\ i + 1 <= Base(s + 1)
  <2>1. Base(s) \in Nat /\ Base(s + 1) \in Nat
    BY <1>5, SlotStep
  <2> QED
    BY <1>2, <2>1 DEF InSlot
<1>7. Base(s) * t <= i * t /\ (i + 1) * t <= Base(s + 1) * t
  BY <1>6, Product
<1>8. Base(s + 2 * n) = Base(s) * t /\ Base((s + 1) + 2 * n) = Base(s + 1) * t
  BY <1>3, <1>5, BaseShift
<1>9. (s + 1) + 2 * n = (s + 2 * n) + 1 /\ s + 2 * n \in Nat /\ s + 2 * n >= 2
  BY <1>5
<1>10. SlotOf(pos, n) = s + 2 * n
  BY <1>1, <1>2 DEF SlotOf
<1>11. Base(s + 2 * n) <= pos /\ pos < Base((s + 2 * n) + 1)
  <2>1. Base(s) * t \in Int /\ i * t \in Int /\ (i + 1) * t \in Int /\ Base(s + 1) * t \in Int
    BY <1>6
  <2>2. Base(s) * t <= pos /\ pos < Base(s + 1) * t
    BY <1>4, <1>7, <2>1
  <2> QED
    BY <1>8, <1>9, <2>2
<1>12. s + 2 * n <= FastSlots - 1 + 2 * n
  BY <1>2, <1>5, FastNumbers
<1> QED
  BY <1>9, <1>10, <1>11, <1>12 DEF InSlot

LEMMA Leading ==
  ASSUME NEW pos \in Nat, NEW n \in Nat, NEW k \in Nat
  PROVE  /\ Shr(pos, n) \in Nat /\ TwoTo(n) \in Nat /\ TwoTo(n + 1) \in Nat
         /\ TwoTo(k) \in Nat /\ TwoTo(n + k) \in Nat
         /\ TwoTo(n + 1) <= pos <=> 2 <= Shr(pos, n)
         /\ pos < TwoTo(n + k) <=> Shr(pos, n) < TwoTo(k)
<1>1. /\ Shr(pos, n) \in Nat /\ TwoTo(n) \in Nat /\ TwoTo(k) \in Nat /\ n + 1 \in Nat
      /\ n + k \in Nat /\ TwoTo(n + 1) = 2 * TwoTo(n) /\ k + n = n + k
  <2>1. n + 1 \in Nat /\ n + k \in Nat /\ k + n = n + k
    OBVIOUS
  <2>2. Shr(pos, n) \in Nat
    BY ShrStep
  <2>3. TwoTo(n) \in Nat /\ TwoTo(k) \in Nat /\ TwoTo(n + 1) = 2 * TwoTo(n)
    BY TwoToStep
  <2> QED
    BY <2>1, <2>2, <2>3
<1>2. TwoTo(n + 1) \in Nat /\ TwoTo(n + k) \in Nat
  BY <1>1, TwoToStep
<1>3. 2 * TwoTo(n) <= pos <=> 2 <= Shr(pos, n)
  BY ShrAbove
<1>4. TwoTo(n + k) = TwoTo(k) * TwoTo(n)
  <2>1. TwoTo(k + n) = TwoTo(k) * TwoTo(n)
    BY TwoToAdds
  <2> QED
    BY <1>1, <2>1
<1>5. TwoTo(k) * TwoTo(n) <= pos <=> TwoTo(k) <= Shr(pos, n)
  BY <1>1, ShrAbove
<1> QED
  BY <1>1, <1>2, <1>3, <1>4, <1>5

Numbered(pos) == pos \in Nat /\ Shr(pos, 2 * FastBits - 2) < TwoTo(FastBits)

LEMMA LastSlotIs ==
  /\ LastSlot \in Nat /\ LastSlot >= 4 /\ TwoTo(SlotBits) = LastSlot + 1 /\ SlotBits \in Nat
  /\ EndPosModel \in Nat /\ EndPosModel >= 4 /\ EndPosModel <= LastSlot
<1>1. SlotBits \in Nat /\ TwoTo(SlotBits) \in Nat /\ TwoTo(SlotBits) >= 1
  <2>1. SlotBits \in Nat
    BY SymbolAssumption
  <2> QED
    BY <2>1, TwoToPositive
<1>2. EndPosModel \in 4..LastSlot
  BY SymbolAssumption
<1> QED
  BY <1>1, <1>2 DEF LastSlot

\* getPosSlot is the slot of every distance that it is called for; the first
\* two have one of their own each.
LEMMA PosSlotIs ==
  ASSUME NEW pos, Numbered(pos)
  PROVE  /\ PosSlot(pos) \in Nat /\ PosSlot(pos) < LastSlot
         /\ pos < 2 => PosSlot(pos) = pos
         /\ pos >= 2 => InSlot(pos, PosSlot(pos))
<1> DEFINE b == FastBits
<1>1. /\ pos \in Nat /\ b \in Nat /\ b >= 1 /\ b - 1 \in Nat /\ 2 * b - 2 \in Nat
      /\ (b - 1) + 1 = b /\ (b - 1) + b = 2 * b - 1 /\ (2 * b - 2) + 1 = 2 * b - 1
      /\ Shr(pos, 2 * b - 2) < TwoTo(b) /\ TwoTo(b) \in Nat /\ TwoTo(b) >= 2
      /\ 2 * b - 1 \in Nat /\ b <= 2 * b - 1
      /\ FastSlots - 1 + 2 * (2 * b - 2) < LastSlot /\ FastSlots = 2 * b
  BY FastNumbers, SymbolAssumption DEF Numbered
<1>2. TwoTo(2 * b - 1) \in Nat /\ TwoTo(b) <= TwoTo(2 * b - 1)
  BY <1>1, TwoToGrows, TwoToStep
<1>3. LastSlot \in Nat
  BY LastSlotIs
<1>4. CASE pos < TwoTo(b)
  <2>1. PosSlot(pos) = SlotOf(pos, 0) /\ Shr(pos, 0) = pos
    BY <1>1, <1>4, ShrStep DEF PosSlot
  <2>2. CASE pos < 2
    <3>1. FastPos[pos] = pos
      BY <1>1, <1>4, <2>2, FastPosIs
    <3>2. PosSlot(pos) = pos
      BY <1>1, <2>1, <3>1 DEF SlotOf
    <3> QED
      BY <1>1, <2>2, <3>2, LastSlotIs
  <2>3. CASE pos >= 2
    <3>1. InSlot(pos, SlotOf(pos, 0)) /\ SlotOf(pos, 0) <= FastSlots - 1 + 2 * 0
      BY <1>1, <1>4, <2>1, <2>3, SlotOfIs
    <3>2. SlotOf(pos, 0) \in Nat
      BY <3>1 DEF InSlot
    <3> QED
      BY <1>1, <1>3, <2>1, <2>3, <3>1, <3>2
  <2> QED
    BY <1>1, <2>2, <2>3
<1>5. CASE TwoTo(b) <= pos /\ pos < TwoTo(2 * b - 1)
  <2>1. PosSlot(pos) = SlotOf(pos, b - 1)
    BY <1>1, <1>5 DEF PosSlot
  <2>2. Shr(pos, b - 1) >= 2 /\ Shr(pos, b - 1) < TwoTo(b)
    <3>1. /\ Shr(pos, b - 1) \in Nat
          /\ TwoTo((b - 1) + 1) <= pos <=> 2 <= Shr(pos, b - 1)
          /\ pos < TwoTo((b - 1) + b) <=> Shr(pos, b - 1) < TwoTo(b)
      BY <1>1, Leading
    <3> QED
      BY <1>1, <1>5, <3>1
  <2>3. InSlot(pos, SlotOf(pos, b - 1)) /\ SlotOf(pos, b - 1) <= FastSlots - 1 + 2 * (b - 1)
    BY <1>1, <2>2, SlotOfIs
  <2>4. SlotOf(pos, b - 1) \in Nat
    BY <2>3 DEF InSlot
  <2> QED
    BY <1>1, <1>3, <1>5, <2>1, <2>3, <2>4
<1>6. CASE TwoTo(2 * b - 1) <= pos
  <2>1. PosSlot(pos) = SlotOf(pos, 2 * b - 2)
    BY <1>1, <1>2, <1>6 DEF PosSlot
  <2>2. Shr(pos, 2 * b - 2) >= 2
    <3>1. /\ Shr(pos, 2 * b - 2) \in Nat
          /\ TwoTo((2 * b - 2) + 1) <= pos <=> 2 <= Shr(pos, 2 * b - 2)
      BY <1>1, Leading
    <3> QED
      BY <1>1, <1>6, <3>1
  <2>3. /\ InSlot(pos, SlotOf(pos, 2 * b - 2))
        /\ SlotOf(pos, 2 * b - 2) <= FastSlots - 1 + 2 * (2 * b - 2)
    BY <1>1, <2>2, SlotOfIs
  <2>4. SlotOf(pos, 2 * b - 2) \in Nat
    BY <2>3 DEF InSlot
  <2> QED
    BY <1>1, <1>2, <1>3, <1>6, <2>1, <2>3, <2>4
<1> QED
  BY <1>1, <1>2, <1>4, <1>5, <1>6

\* getPosSlot2 is the same slot, for the distances it is called for.
LEMMA PosSlot2Is ==
  ASSUME NEW pos, Numbered(pos), pos >= FullDistances
  PROVE  PosSlot2(pos) = PosSlot(pos)
<1> DEFINE b == FastBits
           l == Low2
<1>1. /\ pos \in Nat /\ b \in Nat /\ b >= 1 /\ l \in Nat /\ l >= 1
      /\ Shr(pos, 2 * b - 2) < TwoTo(b) /\ TwoTo(b) \in Nat
  BY FastNumbers DEF Numbered, Low2
<1> HIDE DEF l, b
<1>2. /\ l + b - 1 \in Nat /\ l + 2 * (b - 1) \in Nat /\ 2 * b - 2 \in Nat
      /\ l + 1 \in Nat /\ l + b \in Nat /\ l + 2 * b - 1 \in Nat
      /\ (l + b - 1) + 1 = l + b /\ (l + b - 1) + b = l + 2 * b - 1
      /\ (l + 2 * (b - 1)) + 1 = l + 2 * b - 1
      /\ (2 * b - 2) + b \in Nat /\ (l + 2 * (b - 1)) + b \in Nat
      /\ (2 * b - 2) + b <= (l + 2 * (b - 1)) + b
      /\ l + 1 <= l + b /\ l + b <= l + 2 * b - 1
  BY <1>1
<1>3. /\ TwoTo(l + 1) \in Nat /\ TwoTo(l + b) \in Nat /\ TwoTo(l + 2 * b - 1) \in Nat
      /\ TwoTo(l + 1) <= TwoTo(l + b) /\ TwoTo(l + b) <= TwoTo(l + 2 * b - 1)
  BY <1>2, TwoToGrows, TwoToStep
<1>4. TwoTo(l + 1) <= pos /\ pos >= 2
  <2>1. FullDistances >= TwoTo(l + 1) /\ FullDistances \in Nat
    <3>1. EndPosModel \in Nat /\ EndPosModel >= 2 /\ FullDistances = Base(EndPosModel)
      BY LastSlotIs, SymbolAssumption
    <3>2. FullDistances \in Nat
      BY <3>1, SlotStep
    <3> QED
      BY <3>2, PriceAssumption DEF l
  <2>2. TwoTo(l) \in Nat /\ TwoTo(l) >= 1 /\ TwoTo(l + 1) = 2 * TwoTo(l)
    BY <1>1, TwoToPositive, TwoToStep
  <2> QED
    BY <1>1, <1>3, <2>1, <2>2
<1>5. ASSUME NEW n \in Nat, TwoTo(n + 1) <= pos, pos < TwoTo(n + b)
      PROVE  InSlot(pos, SlotOf(pos, n))
  <2>1. Shr(pos, n) >= 2 /\ Shr(pos, n) < TwoTo(b)
    BY <1>1, <1>5, Leading
  <2> QED
    BY <1>1, <2>1, SlotOfIs DEF b
<1>6. InSlot(pos, PosSlot2(pos))
  <2>1. CASE pos < TwoTo(l + b)
    <3>1. PosSlot2(pos) = SlotOf(pos, l)
      BY <1>1, <1>3, <2>1 DEF PosSlot2, l, b
    <3> QED
      BY <1>1, <1>4, <1>5, <2>1, <3>1
  <2>2. CASE TwoTo(l + b) <= pos /\ pos < TwoTo(l + 2 * b - 1)
    <3>1. PosSlot2(pos) = SlotOf(pos, l + b - 1)
      <4>1. ~(pos < TwoTo(l + b))
        BY <1>1, <1>3, <2>2
      <4> QED
        BY <2>2, <4>1 DEF PosSlot2, l, b
    <3> QED
      BY <1>2, <1>5, <2>2, <3>1
  <2>3. CASE TwoTo(l + 2 * b - 1) <= pos
    <3>1. PosSlot2(pos) = SlotOf(pos, l + 2 * (b - 1))
      <4>1. ~(pos < TwoTo(l + b)) /\ ~(pos < TwoTo(l + 2 * b - 1))
        BY <1>1, <1>3, <2>3
      <4> QED
        BY <4>1 DEF PosSlot2, l, b
    <3>2. pos < TwoTo((l + 2 * (b - 1)) + b)
      <4>1. pos < TwoTo((2 * b - 2) + b)
        BY <1>1, <1>2, Leading
      <4>2. /\ TwoTo((2 * b - 2) + b) <= TwoTo((l + 2 * (b - 1)) + b)
            /\ TwoTo((2 * b - 2) + b) \in Nat /\ TwoTo((l + 2 * (b - 1)) + b) \in Nat
        BY <1>2, TwoToGrows, TwoToStep
      <4> QED
        BY <1>1, <4>1, <4>2
    <3> QED
      BY <1>2, <1>5, <2>3, <3>1, <3>2
  <2> QED
    BY <1>1, <1>3, <2>1, <2>2, <2>3
<1>7. InSlot(pos, PosSlot(pos))
  BY <1>4, PosSlotIs
<1> QED
  BY <1>1, <1>6, <1>7, OneSlot
-----------------------------------------------------------------------------
(***************************************************************************)
(* Distances.                                                              *)
(***************************************************************************)
LEMMA LastReverseReads ==
  ASSUME NEW array \in DOMAIN Size, NEW n \in Nat, NEW start \in Int, start >= -1,
         Size[array] \in Nat, n # 0 => start + TwoTo(n) <= Size[array],
         NEW v \in Nat, v < TwoTo(n), NEW val
  PROVE  /\ ReverseTree(array, start, n, v) \in Seq(Items)
         /\ ReadReverse(Reads(ReverseTree(array, start, n, v), val), array, start, n)
              = Reads(<< >>, v)
<1>1. PICK rest \in Seq(Items) : rest = << >>
  <2>1. << >> \in Seq(Items)
    OBVIOUS
  <2> QED
    BY ONLY <2>1
<1>2. /\ ReverseTree(array, start, n, v) \in Seq(Items)
      /\ ReadReverse(Reads(ReverseTree(array, start, n, v) \o rest, val), array, start, n)
           = Reads(rest, v)
  BY ReverseReads
<1>3. ReverseTree(array, start, n, v) \o rest = ReverseTree(array, start, n, v)
  BY <1>1, <1>2, NoMore
<1> QED
  BY <1>1, <1>2, <1>3

\* The runs of posCoders end where it does.
LEMMA PosRun ==
  ASSUME NEW slot \in Nat, slot >= 4, slot < EndPosModel
  PROVE  /\ FooterStart(slot) \in Int /\ FooterStart(slot) >= -1
         /\ FooterStart(slot) + TwoTo(FooterBits(slot)) <= FullDistances - EndPosModel
         /\ FullDistances - EndPosModel \in Nat
<1>1. /\ slot >= 2 /\ slot + 1 \in Nat /\ slot + 1 >= 2 /\ EndPosModel \in Nat
      /\ EndPosModel >= 4 /\ slot + 1 <= EndPosModel /\ 2 \in Nat /\ 4 \in Nat
  BY LastSlotIs
<1>2. /\ FooterBits(slot) \in Nat /\ Base(slot) \in Nat
      /\ Base(slot + 1) = Base(slot) + TwoTo(FooterBits(slot))
  BY <1>1, SlotStep
<1>3. TwoTo(FooterBits(slot)) \in Nat /\ TwoTo(FooterBits(slot)) >= 1
  BY <1>2, TwoToPositive
<1>4. Base(slot + 1) + (EndPosModel - (slot + 1)) <= Base(EndPosModel) /\ Base(EndPosModel) \in Nat
  BY <1>1, BaseGrows
<1>5. Base(4) + (slot - 4) <= Base(slot) /\ Base(4) = 4
  <2>1. Base(4) + (slot - 4) <= Base(slot)
    BY <1>1, BaseGrows
  <2> QED
    BY <2>1, FastNumbers
<1>6. FullDistances = Base(EndPosModel)
  BY SymbolAssumption
<1>7. FooterStart(slot) = Base(slot) - slot - 1
  BY DEF FooterStart
<1>8. FooterStart(slot) >= -1 /\ FooterStart(slot) \in Int
  BY <1>1, <1>2, <1>5, <1>7
<1> QED
  BY <1>1, <1>2, <1>3, <1>4, <1>6, <1>7, <1>8

\* What follows the slot, for a distance beyond posCoders.
LEMMA FarFooter ==
  ASSUME NEW slot \in Nat, slot >= EndPosModel,
         NEW reduced \in Nat, reduced < TwoTo(FooterBits(slot))
  PROVE  /\ FooterBits(slot) - AlignBits \in Nat /\ AlignBits \in Nat
         /\ Shr(reduced, AlignBits) \in Nat
         /\ Shr(reduced, AlignBits) < TwoTo(FooterBits(slot) - AlignBits)
         /\ reduced % TwoTo(AlignBits) \in Nat /\ reduced % TwoTo(AlignBits) < TwoTo(AlignBits)
         /\ reduced = Shr(reduced, AlignBits) * TwoTo(AlignBits) + (reduced % TwoTo(AlignBits))
<1>1. /\ AlignBits \in Nat /\ EndPosModel \in Nat /\ EndPosModel >= 4
      /\ EndPosModel >= 2 * AlignBits + 2
  BY LastSlotIs, SymbolAssumption
<1>2. FooterBits(slot) - AlignBits \in Nat
  <2>1. \A x, y \in Nat : x >= 2 * y + 2 => (x \div 2) - 1 - y \in Nat
    OBVIOUS
  <2>2. slot >= 2 * AlignBits + 2
    BY <1>1
  <2> QED
    BY <1>1, <2>1, <2>2 DEF FooterBits
<1>3. AlignBits + (FooterBits(slot) - AlignBits) = FooterBits(slot)
  <2>1. FooterBits(slot) \in Int
    BY <1>1 DEF FooterBits
  <2> QED
    BY <1>1, <2>1
<1>4. Shr(reduced, AlignBits) \in Nat
      /\ Shr(reduced, AlignBits) < TwoTo(FooterBits(slot) - AlignBits)
  <2>1. /\ Shr(reduced, AlignBits) \in Nat
        /\ reduced < TwoTo(AlignBits + (FooterBits(slot) - AlignBits))
             <=> Shr(reduced, AlignBits) < TwoTo(FooterBits(slot) - AlignBits)
    BY <1>1, <1>2, Leading
  <2> QED
    BY <1>3, <2>1
<1>5. /\ reduced % TwoTo(AlignBits) \in 0..(TwoTo(AlignBits) - 1)
      /\ reduced = Shr(reduced, AlignBits) * TwoTo(AlignBits) + (reduced % TwoTo(AlignBits))
      /\ TwoTo(AlignBits) \in Nat
  BY <1>1, ShrRest, TwoToStep
<1>6. reduced % TwoTo(AlignBits) \in Nat /\ reduced % TwoTo(AlignBits) < TwoTo(AlignBits)
  BY <1>5
<1> QED
  BY <1>1, <1>2, <1>4, <1>5, <1>6

\* codeOneBlock's slot and footer, then doDecode's.
LEMMA SlotAndFooterReads ==
  ASSUME NEW slot \in Nat, slot <= LastSlot, NEW reduced \in Nat,
         slot >= 4 => reduced < TwoTo(FooterBits(slot)), NEW val
  PROVE  /\ SlotAndFooter(slot, reduced) \in Seq(Items)
         /\ ReadDistance(Reads(SlotAndFooter(slot, reduced), val))
              = Reads(<< >>, IF slot < 4 THEN slot
                             ELSE IF slot = LastSlot /\ reduced = TwoTo(FooterBits(slot)) - 1
                                  THEN Marker ELSE Base(slot) + reduced)
<1> DEFINE fb == FooterBits(slot)
           direct == DirectBits(fb - AlignBits, Shr(reduced, AlignBits))
           align == ReverseTree("align", 0, AlignBits, reduced % TwoTo(AlignBits))
           near == ReverseTree("pos", FooterStart(slot), fb, reduced)
           footer == IF slot < 4 THEN << >>
                     ELSE IF slot < EndPosModel THEN near ELSE direct \o align
           r == Reads(SlotAndFooter(slot, reduced), val)
           s == Reads(footer, slot)
<1>1. StartPosModel = 4 /\ EndPosModel \in Nat /\ EndPosModel >= 4 /\ EndPosModel <= LastSlot
      /\ LastSlot \in Nat
  BY LastSlotIs, SymbolAssumption
<1>2. SlotAndFooter(slot, reduced) = Tree("slot", SlotBits, slot) \o footer
  <2>1. CASE slot < 4
    BY <1>1, <2>1 DEF SlotAndFooter
  <2>2. CASE slot >= 4 /\ slot < EndPosModel
    <3>1. ~(slot < 4)
      BY <2>2
    <3> QED
      BY <1>1, <2>2, <3>1 DEF SlotAndFooter
  <2>3. CASE slot >= 4 /\ ~(slot < EndPosModel)
    <3>1. ~(slot < 4)
      BY <2>3
    <3> QED
      BY <1>1, <2>3, <3>1 DEF SlotAndFooter
  <2> QED
    BY <2>1, <2>2, <2>3
<1>3. slot >= 4 /\ slot < EndPosModel =>
        /\ near \in Seq(Items)
        /\ \A v : ReadReverse(Reads(near, v), "pos", FooterStart(slot), fb)
                    = Reads(<< >>, reduced)
  <2> SUFFICES ASSUME slot >= 4, slot < EndPosModel, NEW v
               PROVE  /\ near \in Seq(Items)
                      /\ ReadReverse(Reads(near, v), "pos", FooterStart(slot), fb)
                           = Reads(<< >>, reduced)
    OBVIOUS
  <2>1. /\ FooterStart(slot) \in Int /\ FooterStart(slot) >= -1
        /\ FooterStart(slot) + TwoTo(fb) <= FullDistances - EndPosModel
        /\ FullDistances - EndPosModel \in Nat
    BY PosRun
  <2>2. fb \in Nat
    BY SlotStep
  <2>3. "pos" \in DOMAIN Size /\ Size["pos"] = FullDistances - EndPosModel
    BY SizesAre
  <2>4. ASSUME NEW array, array = "pos", NEW start, start = FooterStart(slot), NEW n, n = fb
        PROVE  /\ ReverseTree(array, start, n, reduced) \in Seq(Items)
               /\ ReadReverse(Reads(ReverseTree(array, start, n, reduced), v), array, start, n)
                    = Reads(<< >>, reduced)
    <3>1. /\ array \in DOMAIN Size /\ n \in Nat /\ start \in Int /\ start >= -1
          /\ Size[array] \in Nat /\ start + TwoTo(n) <= Size[array]
          /\ reduced \in Nat /\ reduced < TwoTo(n)
      BY <2>1, <2>2, <2>3, <2>4
    <3> QED
      BY ONLY <3>1, LastReverseReads
  <2> QED
    BY <2>4
<1>4. ~(slot < EndPosModel) =>
        /\ direct \in Seq(Items) /\ align \in Seq(Items)
        /\ \A v : ReadDirect(Reads(direct \o align, v), fb - AlignBits)
                    = Reads(align, Shr(reduced, AlignBits))
        /\ \A v : ReadReverse(Reads(align, v), "align", 0, AlignBits)
                    = Reads(<< >>, reduced % TwoTo(AlignBits))
  <2> SUFFICES ASSUME ~(slot < EndPosModel), NEW v
               PROVE  /\ direct \in Seq(Items) /\ align \in Seq(Items)
                      /\ ReadDirect(Reads(direct \o align, v), fb - AlignBits)
                           = Reads(align, Shr(reduced, AlignBits))
                      /\ ReadReverse(Reads(align, v), "align", 0, AlignBits)
                           = Reads(<< >>, reduced % TwoTo(AlignBits))
    OBVIOUS
  <2>1. slot >= 4 /\ slot >= EndPosModel /\ reduced < TwoTo(fb)
    BY <1>1
  <2>2. /\ fb - AlignBits \in Nat /\ AlignBits \in Nat
        /\ Shr(reduced, AlignBits) \in Nat
        /\ Shr(reduced, AlignBits) < TwoTo(fb - AlignBits)
        /\ reduced % TwoTo(AlignBits) \in Nat /\ reduced % TwoTo(AlignBits) < TwoTo(AlignBits)
    BY <2>1, FarFooter
  <2>3. "align" \in DOMAIN Size /\ Size["align"] = TwoTo(AlignBits) /\ TwoTo(AlignBits) \in Nat
    BY <2>2, SizesAre
  <2>4. ASSUME NEW array, array = "align", NEW start, start = 0,
               NEW x, x = reduced % TwoTo(AlignBits)
        PROVE  /\ ReverseTree(array, start, AlignBits, x) \in Seq(Items)
               /\ ReadReverse(Reads(ReverseTree(array, start, AlignBits, x), v),
                              array, start, AlignBits)
                    = Reads(<< >>, x)
    <3>1. /\ array \in DOMAIN Size /\ AlignBits \in Nat /\ start \in Int /\ start >= -1
          /\ Size[array] \in Nat /\ start + TwoTo(AlignBits) <= Size[array]
          /\ x \in Nat /\ x < TwoTo(AlignBits)
      BY <2>2, <2>3, <2>4
    <3> QED
      BY ONLY <3>1, LastReverseReads
  <2>5. /\ align \in Seq(Items)
        /\ ReadReverse(Reads(align, v), "align", 0, AlignBits)
             = Reads(<< >>, reduced % TwoTo(AlignBits))
    BY <2>4
  <2> HIDE DEF align
  <2>6. /\ direct \in Seq(Items)
        /\ ReadDirect(Reads(direct \o align, v), fb - AlignBits)
             = Reads(align, Shr(reduced, AlignBits))
    <3>1. ASSUME NEW n, n = fb - AlignBits, NEW x, x = Shr(reduced, AlignBits)
          PROVE  /\ DirectBits(n, x) \in Seq(Items)
                 /\ ReadDirect(Reads(DirectBits(n, x) \o align, v), n) = Reads(align, x)
      <4>1. n \in Nat /\ x \in Nat /\ x < TwoTo(n) /\ align \in Seq(Items)
        BY <2>2, <2>5, <3>1
      <4> QED
        BY ONLY <4>1, DirectReads
    <3> QED
      BY <3>1
  <2> QED
    BY <2>5, <2>6
<1> HIDE DEF near, direct, align
<1>5. footer \in Seq(Items)
  <2>1. << >> \in Seq(Items)
    OBVIOUS
  <2>2. ~(slot < EndPosModel) => direct \o align \in Seq(Items)
    BY <1>4
  <2>3. ~(slot < 4) => slot >= 4
    OBVIOUS
  <2> QED
    BY <1>3, <2>1, <2>2, <2>3
<1> HIDE DEF footer
<1>6. Tree("slot", SlotBits, slot) \in Seq(Items) /\ ReadTree(r, "slot", SlotBits) = s
  <2>1. /\ "slot" \in DOMAIN Size /\ Size["slot"] = TwoTo(SlotBits) /\ TwoTo(SlotBits) \in Nat
        /\ SlotBits \in Nat /\ slot < TwoTo(SlotBits)
    BY LastSlotIs, SizesAre
  <2>2. ASSUME NEW array, array = "slot"
        PROVE  /\ Tree(array, SlotBits, slot) \in Seq(Items)
               /\ ReadTree(Reads(Tree(array, SlotBits, slot) \o footer, val), array, SlotBits)
                    = Reads(footer, slot)
    <3>1. /\ array \in DOMAIN Size /\ TwoTo(SlotBits) <= Size[array] /\ Size[array] \in Nat
          /\ SlotBits \in Nat /\ slot < TwoTo(SlotBits) /\ slot \in Nat /\ footer \in Seq(Items)
      BY <1>5, <2>1, <2>2
    <3> QED
      BY ONLY <3>1, TreeReads
  <2> QED
    BY <1>2, <2>2
<1>7. SlotAndFooter(slot, reduced) \in Seq(Items)
  BY <1>2, <1>5, <1>6
<1> HIDE DEF r
<1>8. s.val = slot
  BY DEF Reads
<1>9. CASE slot < 4
  <2>1. ReadDistance(r) = s
    BY <1>1, <1>6, <1>8, <1>9 DEF ReadDistance
  <2>2. footer = << >>
    BY <1>9 DEF footer
  <2> QED
    BY <1>7, <1>9, <2>1, <2>2 DEF r
<1>10. CASE slot >= 4 /\ slot < EndPosModel
  <2>1. ~(slot < 4) /\ slot # LastSlot
    BY <1>1, <1>10
  <2>2. footer = near
    BY <1>10, <2>1 DEF footer
  <2>3. ReadReverse(s, "pos", Base(slot) - slot - 1, fb) = Reads(<< >>, reduced)
    BY <1>3, <1>10, <2>2 DEF FooterStart
  <2>4. ReadDistance(r) = [ReadReverse(s, "pos", Base(slot) - slot - 1, fb) EXCEPT
                             !.val = Base(slot) + @]
    <3> HIDE DEF s
    <3> QED
      BY <1>1, <1>6, <1>8, <1>10, <2>1 DEF ReadDistance
  <2>5. ReadDistance(r) = Reads(<< >>, Base(slot) + reduced)
    <3>1. ReadDistance(r) = [Reads(<< >>, reduced) EXCEPT !.val = Base(slot) + @]
      BY ONLY <2>3, <2>4
    <3> QED
      BY ONLY <3>1 DEF Reads
  <2> QED
    BY <1>7, <2>1, <2>5 DEF r
<1>11. CASE slot >= 4 /\ ~(slot < EndPosModel)
  <2> DEFINE d == ReadDirect(s, fb - AlignBits)
             a == ReadReverse(d, "align", 0, AlignBits)
  <2>1. ~(slot < 4) /\ slot >= EndPosModel
    BY <1>1, <1>11
  <2>2. footer = direct \o align
    BY <1>11, <2>1 DEF footer
  <2>3. d = Reads(align, Shr(reduced, AlignBits))
    BY <1>4, <1>11, <2>2
  <2>4. a = Reads(<< >>, reduced % TwoTo(AlignBits))
    BY <1>4, <1>11, <2>3
  <2>5. ReadDistance(r) =
          [a EXCEPT !.val =
             IF slot = LastSlot
                /\ d.val * TwoTo(AlignBits) + a.val = TwoTo(FooterBits(slot)) - 1 THEN Marker
             ELSE Base(slot) + (d.val * TwoTo(AlignBits) + a.val)]
    <3> HIDE DEF s
    <3> QED
      BY <1>1, <1>6, <1>8, <1>11, <2>1 DEF ReadDistance
  <2>6. d.val * TwoTo(AlignBits) + a.val = reduced
    <3>1. d.val = Shr(reduced, AlignBits) /\ a.val = reduced % TwoTo(AlignBits)
      BY <2>3, <2>4 DEF Reads
    <3>2. reduced = Shr(reduced, AlignBits) * TwoTo(AlignBits) + (reduced % TwoTo(AlignBits))
      BY <1>11, <2>1, FarFooter
    <3> QED
      BY <3>1, <3>2
  <2> HIDE DEF d, a
  <2>7. ReadDistance(r)
          = [a EXCEPT !.val = IF slot = LastSlot /\ reduced = TwoTo(FooterBits(slot)) - 1
                              THEN Marker ELSE Base(slot) + reduced]
    BY <2>5, <2>6
  <2>8. ReadDistance(r)
          = Reads(<< >>, IF slot = LastSlot /\ reduced = TwoTo(FooterBits(slot)) - 1
                         THEN Marker ELSE Base(slot) + reduced)
    BY <2>4, <2>7 DEF Reads
  <2> QED
    BY <1>7, <2>1, <2>8 DEF r
<1> QED
  BY <1>9, <1>10, <1>11

LEMMA SizesAreNumbers == \A array \in DOMAIN Size : Size[array] \in Nat
<1>1. FullDistances - EndPosModel \in Nat
  <2>1. 4 \in Nat /\ EndPosModel \in Nat /\ EndPosModel >= 4 /\ FullDistances = Base(EndPosModel)
    BY LastSlotIs, SymbolAssumption
  <2>2. Base(EndPosModel) \in Nat /\ Base(4) + (EndPosModel - 4) <= Base(EndPosModel)
    BY <2>1, BaseGrows
  <2> QED
    BY <2>1, <2>2, FastNumbers
<1>2. {LitBits, LowBits, MidBits, HighBits, SlotBits, AlignBits} \subseteq Nat
  BY SymbolAssumption
<1> QED
  BY <1>1, <1>2, SizesAre

\* A distance that getPosSlot is called for, and the marker.
LEMMA DistanceReads ==
  ASSUME NEW pos, Numbered(pos) \/ pos = Marker, NEW val
  PROVE  /\ Distance(pos) \in Seq(Items)
         /\ ReadDistance(Reads(Distance(pos), val)) = Reads(<< >>, pos)
<1>1. LastSlot \in Nat /\ LastSlot >= 4 /\ StartPosModel = 4
  BY LastSlotIs, SymbolAssumption
<1>2. CASE pos = Marker
  <2> DEFINE fb == FooterBits(LastSlot)
             reduced == TwoTo(fb) - 1
  <2>1. fb \in Nat /\ TwoTo(fb) \in Nat /\ TwoTo(fb) >= 1
    <3>1. fb \in Nat
      BY <1>1, SlotStep
    <3> QED
      BY <3>1, TwoToPositive
  <2>2. Distance(pos) = SlotAndFooter(LastSlot, reduced)
    BY <1>2 DEF Distance
  <2>3. reduced \in Nat /\ reduced < TwoTo(fb)
    BY <2>1
  <2>4. /\ SlotAndFooter(LastSlot, reduced) \in Seq(Items)
        /\ ReadDistance(Reads(SlotAndFooter(LastSlot, reduced), val))
             = Reads(<< >>, IF LastSlot < 4 THEN LastSlot
                            ELSE IF LastSlot = LastSlot
                                    /\ reduced = TwoTo(FooterBits(LastSlot)) - 1
                                 THEN Marker ELSE Base(LastSlot) + reduced)
    <3>1. LastSlot <= LastSlot
      BY <1>1
    <3> HIDE DEF reduced
    <3> QED
      BY <1>1, <2>3, <3>1, SlotAndFooterReads
  <2>5. ~(LastSlot < 4)
    BY <1>1
  <2> QED
    BY <1>2, <2>2, <2>4, <2>5
<1>3. CASE Numbered(pos)
  <2> DEFINE slot == PosSlot(pos)
             reduced == IF slot < 4 THEN 0 ELSE pos - Base(slot)
  <2>1. /\ pos \in Nat /\ slot \in Nat /\ slot < LastSlot
        /\ pos < 2 => slot = pos
        /\ pos >= 2 => InSlot(pos, slot)
    BY <1>3, PosSlotIs DEF Numbered
  <2>2. Distance(pos) = SlotAndFooter(slot, reduced)
    <3>1. pos # Marker
      BY <2>1 DEF Marker
    <3> QED
      BY <1>1, <3>1 DEF Distance
  <2> HIDE DEF slot
  <2>3. slot < 4 => slot = pos
    <3>1. ASSUME slot < 4, pos >= 2 PROVE slot = pos
      <4>1. slot = 2 \/ slot = 3
        BY <2>1, <3>1 DEF InSlot
      <4>2. 2 + 1 = 3 /\ 3 + 1 = 4 /\ Base(2) = 2 /\ Base(3) = 3 /\ Base(4) = 4
        BY FastNumbers
      <4>3. CASE slot = 2
        <5>1. 2 <= pos /\ pos < 3
          BY <2>1, <3>1, <4>2, <4>3 DEF InSlot
        <5> QED
          BY <2>1, <4>3, <5>1
      <4>4. CASE slot = 3
        <5>1. 3 <= pos /\ pos < 4
          BY <2>1, <3>1, <4>2, <4>4 DEF InSlot
        <5> QED
          BY <2>1, <4>4, <5>1
      <4> QED
        BY <4>1, <4>3, <4>4
    <3> QED
      BY <2>1, <3>1
  <2>4. slot >= 4 => /\ reduced \in Nat /\ reduced < TwoTo(FooterBits(slot))
                     /\ Base(slot) + reduced = pos
    <3> SUFFICES ASSUME slot >= 4
                 PROVE  /\ reduced \in Nat /\ reduced < TwoTo(FooterBits(slot))
                        /\ Base(slot) + reduced = pos
      OBVIOUS
    <3>1. InSlot(pos, slot)
      BY <2>1
    <3>2. /\ Base(slot) \in Nat /\ FooterBits(slot) \in Nat
          /\ Base(slot + 1) = Base(slot) + TwoTo(FooterBits(slot))
      BY <2>1, SlotStep
    <3>3. TwoTo(FooterBits(slot)) \in Nat
      BY <3>2, TwoToStep
    <3>4. reduced = pos - Base(slot)
      BY <2>1
    <3> HIDE DEF reduced
    <3> QED
      BY <2>1, <3>1, <3>2, <3>3, <3>4 DEF InSlot
  <2>5. reduced \in Nat
    <3>1. slot < 4 => reduced = 0
      OBVIOUS
    <3> HIDE DEF reduced
    <3> QED
      BY <2>1, <2>4, <3>1
  <2> HIDE DEF reduced
  <2>6. /\ SlotAndFooter(slot, reduced) \in Seq(Items)
        /\ ReadDistance(Reads(SlotAndFooter(slot, reduced), val))
             = Reads(<< >>, IF slot < 4 THEN slot
                            ELSE IF slot = LastSlot /\ reduced = TwoTo(FooterBits(slot)) - 1
                                 THEN Marker ELSE Base(slot) + reduced)
    <3>1. slot <= LastSlot
      BY <1>1, <2>1
    <3> QED
      BY <2>1, <2>4, <2>5, <3>1, SlotAndFooterReads
  <2>7. slot # LastSlot /\ (slot < 4 \/ slot >= 4)
    BY <1>1, <2>1
  <2> QED
    BY <2>2, <2>3, <2>4, <2>6, <2>7
<1> QED
  BY <1>2, <1>3
-----------------------------------------------------------------------------
(***************************************************************************)
(* All symbols.                                                            *)
(***************************************************************************)
\* What Encode puts on the tape for a job, and what Decode makes of a reader.
Sent(j) == IF j.kind = "literal" /\ j.match = None THEN Literal(j.sym)
           ELSE IF j.kind = "literal" THEN MatchedLiteral(j.sym, j.match)
           ELSE IF j.kind = "length" THEN Length(j.sym) ELSE Distance(j.sym)

Decoded(j, r) == IF j.kind = "literal" /\ j.match = None THEN ReadTree(r, "literal", LitBits)
              ELSE IF j.kind = "literal" THEN ReadMatched(r, j.match)
              ELSE IF j.kind = "length" THEN ReadLength(r) ELSE ReadDistance(r)

LEMMA JobIs ==
  ASSUME NEW j \in Jobs
  PROVE  \/ /\ j.kind = "literal"
            /\ j.sym \in Nat /\ j.sym < TwoTo(LitBits)
            /\ \/ j.match = None
               \/ j.match # None /\ j.match \in Nat /\ j.match < TwoTo(LitBits)
         \/ /\ j.kind = "length"
            /\ j.sym \in 0..(TwoTo(LowBits) + TwoTo(MidBits) + TwoTo(HighBits) - 1)
         \/ /\ j.kind = "distance"
            /\ Numbered(j.sym) \/ j.sym = Marker
<1>1. LitBits \in Nat /\ TwoTo(LitBits) \in Nat
      /\ Literals \cup MatchBytes \subseteq 0..(TwoTo(LitBits) - 1)
  <2>1. LitBits \in Nat /\ Literals \cup MatchBytes \subseteq 0..(TwoTo(LitBits) - 1)
    BY SymbolAssumption
  <2> QED
    BY <2>1, TwoToStep
<1>2. CASE j \in [kind : {"literal"}, sym : Literals, match : MatchBytes \cup {None}]
  <2>1. j.kind = "literal" /\ j.sym \in Literals /\ j.match \in MatchBytes \cup {None}
    BY <1>2
  <2>2. j.sym \in 0..(TwoTo(LitBits) - 1)
    BY <1>1, <2>1
  <2>3. CASE j.match = None
    BY <1>1, <2>1, <2>2, <2>3
  <2>4. CASE j.match # None
    <3>1. j.match \in 0..(TwoTo(LitBits) - 1)
      BY <1>1, <2>1, <2>4
    <3> QED
      BY <1>1, <2>1, <2>2, <2>4, <3>1
  <2> QED
    BY <2>3, <2>4
<1>3. CASE j \in [kind : {"length"}, sym : Lengths]
  <2>1. j.kind = "length" /\ j.sym \in Lengths
    BY <1>3
  <2> QED
    BY <2>1, SymbolAssumption
<1>4. CASE j \in [kind : {"distance"}, sym : Distances \cup {Marker}]
  <2>1. j.kind = "distance" /\ j.sym \in Distances \cup {Marker}
    BY <1>4
  <2>2. \A d \in Distances : Numbered(d)
    BY SymbolAssumption DEF Numbered
  <2> QED
    BY <2>1, <2>2
<1> QED
  BY <1>2, <1>3, <1>4 DEF Jobs

LEMMA JobReads ==
  ASSUME NEW j \in Jobs
  PROVE  Sent(j) \in Seq(Items) /\ Decoded(j, Reads(Sent(j), 0)) = Reads(<< >>, j.sym)
<1>1. LitBits \in Nat /\ TwoTo(LitBits) \in Nat /\ "literal" \in DOMAIN Size
      /\ Size["literal"] = 3 * TwoTo(LitBits)
  <2>1. LitBits \in Nat
    BY SymbolAssumption
  <2> QED
    BY <2>1, SizesAre
<1>2. CASE j.kind = "literal" /\ j.match = None
  <2>1. Sent(j) = Tree("literal", LitBits, j.sym)
    BY <1>2 DEF Sent, Literal
  <2>2. \A r : Decoded(j, r) = ReadTree(r, "literal", LitBits)
    BY <1>2 DEF Decoded
  <2>3. j.sym \in Nat /\ j.sym < TwoTo(LitBits)
    BY <1>2, JobIs
  <2>4. ASSUME NEW array, array = "literal", NEW v, v = j.sym
        PROVE  /\ Tree(array, LitBits, v) \in Seq(Items)
               /\ ReadTree(Reads(Tree(array, LitBits, v), 0), array, LitBits) = Reads(<< >>, v)
    <3>1. /\ array \in DOMAIN Size /\ LitBits \in Nat /\ TwoTo(LitBits) <= Size[array]
          /\ Size[array] \in Nat /\ v \in Nat /\ v < TwoTo(LitBits)
      BY <1>1, <2>3, <2>4
    <3>2. \A rest \in Seq(Items) :
            /\ Tree(array, LitBits, v) \in Seq(Items)
            /\ ReadTree(Reads(Tree(array, LitBits, v) \o rest, 0), array, LitBits)
                 = Reads(rest, v)
      BY ONLY <3>1, TreeReads
    <3>3. << >> \in Seq(Items)
      OBVIOUS
    <3>4. Tree(array, LitBits, v) \o << >> = Tree(array, LitBits, v)
      BY ONLY <3>2, <3>3, NoMore
    <3> QED
      BY ONLY <3>2, <3>3, <3>4
  <2> QED
    BY <2>1, <2>2, <2>4
<1>3. CASE j.kind = "literal" /\ j.match # None
  <2>1. Sent(j) = MatchedLiteral(j.sym, j.match)
    BY <1>3 DEF Sent
  <2>2. \A r : Decoded(j, r) = ReadMatched(r, j.match)
    BY <1>3 DEF Decoded
  <2>3. j.sym \in Nat /\ j.sym < TwoTo(LitBits) /\ j.match \in Nat
    BY <1>3, JobIs
  <2>4. ASSUME NEW v, v = j.sym, NEW m, m = j.match
        PROVE  /\ MatchedLiteral(v, m) \in Seq(Items)
               /\ ReadMatched(Reads(MatchedLiteral(v, m), 0), m) = Reads(<< >>, v)
    <3>1. v \in Nat /\ v < TwoTo(LitBits) /\ m \in Nat
      BY <2>3, <2>4
    <3>2. \A rest \in Seq(Items) :
            /\ MatchedLiteral(v, m) \in Seq(Items)
            /\ ReadMatched(Reads(MatchedLiteral(v, m) \o rest, 0), m) = Reads(rest, v)
      BY ONLY <3>1, MatchedReads
    <3>3. << >> \in Seq(Items)
      OBVIOUS
    <3>4. MatchedLiteral(v, m) \o << >> = MatchedLiteral(v, m)
      BY ONLY <3>2, <3>3, NoMore
    <3> QED
      BY ONLY <3>2, <3>3, <3>4
  <2> QED
    BY <2>1, <2>2, <2>4
<1>4. CASE j.kind = "length"
  <2>1. j.kind # "literal"
    BY <1>4
  <2>2. Sent(j) = Length(j.sym) /\ \A r : Decoded(j, r) = ReadLength(r)
    BY <1>4, <2>1 DEF Sent, Decoded
  <2>3. j.sym \in 0..(TwoTo(LowBits) + TwoTo(MidBits) + TwoTo(HighBits) - 1)
    BY <1>4, JobIs
  <2> QED
    BY <2>2, <2>3, LengthReads
<1>5. CASE j.kind = "distance"
  <2>1. j.kind # "literal" /\ j.kind # "length"
    BY <1>5
  <2>2. Sent(j) = Distance(j.sym) /\ \A r : Decoded(j, r) = ReadDistance(r)
    BY <2>1 DEF Sent, Decoded
  <2>3. Numbered(j.sym) \/ j.sym = Marker
    BY <1>5, JobIs
  <2> QED
    BY <2>2, <2>3, DistanceReads
<1> QED
  BY <1>2, <1>3, <1>4, <1>5, JobIs
-----------------------------------------------------------------------------
(***************************************************************************)
(* Prices: what is left of a tape when no direct bit is told from another. *)
(***************************************************************************)
Shown(t) == [j \in 1..Len(t) |->
               IF t[j].array = "direct" THEN [t[j] EXCEPT !.bit = 0] ELSE t[j]]

LEMMA ClearedItem ==
  ASSUME NEW x, x \in Items
  PROVE  [x EXCEPT !.bit = 0] \in Items
<1>1. x \in [array : DOMAIN Size, index : Nat, bit : 0..1] /\ x.index < Size[x.array]
  BY DEF Items
<1>2. 0 \in 0..1
  OBVIOUS
<1> DEFINE y == [x EXCEPT !.bit = 0]
<1>3. y \in [array : DOMAIN Size, index : Nat, bit : 0..1]
      /\ y.index = x.index /\ y.array = x.array
  BY ONLY <1>1, <1>2
<1> HIDE DEF y
<1>4. y \in Items
  BY <1>1, <1>3 DEF Items
<1> QED
  BY <1>4 DEF y

LEMMA ShownType ==
  ASSUME NEW t \in Seq(Items)
  PROVE  Shown(t) \in Seq(Items) /\ Len(Shown(t)) = Len(t)
<1>1. \A j \in 1..Len(t) : Shown(t)[j] \in Items
  <2> TAKE j \in 1..Len(t)
  <2>1. t[j] \in Items
    OBVIOUS
  <2>2. [t[j] EXCEPT !.bit = 0] \in Items
    BY <2>1, ClearedItem
  <2> QED
    BY <2>1, <2>2 DEF Shown
<1>2. DOMAIN Shown(t) = 1..Len(t) /\ Len(t) \in Nat
  BY DEF Shown
<1>3. Shown(t) = [j \in 1..Len(t) |-> Shown(t)[j]]
  BY DEF Shown
<1> HIDE DEF Shown
<1> QED
  BY <1>1, <1>2, <1>3

\* Two tapes, one after the other.
LEMMA ShownBoth ==
  ASSUME NEW s \in Seq(Items), NEW t \in Seq(Items)
  PROVE  Shown(s \o t) = Shown(s) \o Shown(t)
<1> DEFINE one(x) == IF x.array = "direct" THEN [x EXCEPT !.bit = 0] ELSE x
           l == Shown(s \o t)
           r == Shown(s) \o Shown(t)
<1>0. \A u : Shown(u) = [j \in 1..Len(u) |-> one(u[j])]
  BY DEF Shown
<1>1. /\ Shown(s) \in Seq(Items) /\ Len(Shown(s)) = Len(s)
      /\ Shown(t) \in Seq(Items) /\ Len(Shown(t)) = Len(t)
  BY ShownType
<1>2. s \o t \in Seq(Items) /\ Len(s \o t) = Len(s) + Len(t)
  OBVIOUS
<1>3. l \in Seq(Items) /\ Len(l) = Len(s) + Len(t) /\ Len(s) \in Nat /\ Len(t) \in Nat
  <2>1. ASSUME NEW u, u \in Seq(Items)
        PROVE  Shown(u) \in Seq(Items) /\ Len(Shown(u)) = Len(u) /\ Len(u) \in Nat
    BY <2>1, ShownType, LenProperties
  <2> QED
    BY <1>2, <2>1
<1>4. r \in Seq(Items) /\ Len(r) = Len(s) + Len(t)
  <2>1. ASSUME NEW u, u \in Seq(Items), NEW w, w \in Seq(Items)
        PROVE  u \o w \in Seq(Items) /\ Len(u \o w) = Len(u) + Len(w)
    BY <2>1, ConcatProperties
  <2> QED
    BY ONLY <1>1, <2>1
<1>5. ASSUME NEW j \in 1..(Len(s) + Len(t)) PROVE l[j] = r[j]
  <2>1. l[j] = one((s \o t)[j])
    BY <1>0, <1>2
  <2>2. (s \o t)[j] = IF j <= Len(s) THEN s[j] ELSE t[j - Len(s)]
    BY ConcatProperties
  <2>3. r[j] = IF j <= Len(s) THEN Shown(s)[j] ELSE Shown(t)[j - Len(s)]
    BY <1>1, ConcatProperties
  <2>4. CASE j <= Len(s)
    <3>1. j \in 1..Len(s)
      BY <1>3, <2>4
    <3>2. Shown(s)[j] = one(s[j])
      BY <1>0, <3>1
    <3> HIDE DEF one, l, r
    <3> QED
      BY <2>1, <2>2, <2>3, <2>4, <3>2
  <2>5. CASE ~(j <= Len(s))
    <3>1. j - Len(s) \in 1..Len(t)
      BY <1>3, <2>5
    <3>2. Shown(t)[j - Len(s)] = one(t[j - Len(s)])
      BY <1>0, <3>1
    <3> HIDE DEF one, l, r
    <3> QED
      BY <2>1, <2>2, <2>3, <2>5, <3>2
  <2> QED
    BY <2>4, <2>5
<1> HIDE DEF l, r
<1>6. l = r
  BY <1>3, <1>4, <1>5
<1> QED
  BY <1>6 DEF l, r

LEMMA ShownMade ==
  ASSUME NEW array, array # "direct", NEW n \in Nat, NEW index, NEW bits
  PROVE  Shown(Made(array, n, index, bits)) = Made(array, n, index, bits)
<1> DEFINE m == Made(array, n, index, bits)
<1>1. m = [j \in 1..n |-> Coded(array, index[j], bits[j])]
  BY DEF Made
<1>2. Len(m) = n
  BY <1>1
<1>3. \A j \in 1..n : m[j].array # "direct"
  BY <1>1 DEF Coded
<1> HIDE DEF m
<1>4. Shown(m) = [j \in 1..n |-> m[j]]
  BY <1>2, <1>3 DEF Shown
<1>5. m = [j \in 1..n |-> m[j]]
  BY <1>1
<1> QED
  BY <1>4, <1>5 DEF m

\* getPrice and encode of a tree agree about where its bits are.
LEMMA TreeCosts ==
  ASSUME NEW array, array # "direct", NEW n \in Nat, NEW v \in Nat, v < TwoTo(n)
  PROVE  TreePrice(array, n, v) = Tree(array, n, v) /\ Shown(Tree(array, n, v)) = Tree(array, n, v)
<1> DEFINE bits == High(v, n)
           index == Context(n, 0, bits)
<1>1. bits \in [1..n -> 0..1] /\ \A j \in 1..n : bits[j] = BitOf(v, n - j)
  BY HighLow DEF High
<1>2. ASSUME NEW j \in 1..n PROVE index[j] = TwoTo(j - 1) + Shr(v, n - j + 1)
  <2>1. j - 1 \in 0..n /\ j - 1 \in Nat /\ n - (j - 1) = n - j + 1 /\ n - j + 1 \in Nat
    OBVIOUS
  <2>2. Pushed(1, bits)[j - 1] = 1 * TwoTo(j - 1) + Shr(v, n - (j - 1))
    BY <2>1, PushedHigh
  <2>3. TwoTo(j - 1) \in Nat /\ Shr(v, n - j + 1) \in Nat
    BY <2>1, TwoToStep, ShrStep
  <2>4. index[j] = 0 + Pushed(1, bits)[j - 1]
    BY DEF Context
  <2> HIDE DEF bits, index
  <2> QED
    BY <2>1, <2>2, <2>3, <2>4
<1>3. Tree(array, n, v) = Made(array, n, index, bits)
  <2>1. Tree(array, n, v) = Symbols(array, 0, bits)
    BY DEF Tree
  <2> HIDE DEF bits
  <2> QED
    BY <1>1, <2>1, SymbolsAre
<1>4. TreePrice(array, n, v) = Made(array, n, index, bits)
  <2> HIDE DEF bits, index
  <2> QED
    BY <1>1, <1>2 DEF TreePrice, Made
<1> QED
  BY <1>3, <1>4, ShownMade

\* So do reverseGetPriceIndex and reverseEncodeIndex.
LEMMA ReverseCosts ==
  ASSUME NEW array, array # "direct", NEW start \in Int, NEW n \in Nat, NEW v \in Nat
  PROVE  /\ ReversePrice(array, start, n, v) = ReverseTree(array, start, n, v)
         /\ Shown(ReverseTree(array, start, n, v)) = ReverseTree(array, start, n, v)
<1>1. ReversePrice(array, start, n, v) = ReverseTree(array, start, n, v)
  BY DEF ReversePrice, ReverseTree, Low, BitOf
<1>2. ReverseTree(array, start, n, v)
        = Made(array, n, Context(n, start, Low(v, n)), Low(v, n))
  <2>1. Low(v, n) \in [1..n -> 0..1]
    BY HighLow
  <2> QED
    BY <2>1, SymbolsAre DEF ReverseTree
<1> QED
  BY <1>1, <1>2, ShownMade

LEMMA DirectCosts ==
  ASSUME NEW n \in Nat, NEW v
  PROVE  Shown(DirectBits(n, v)) = DirectPrice(n)
<1> DEFINE d == DirectBits(n, v)
<1>1. d = [j \in 1..n |-> Coded("direct", 0, BitOf(v, n - j))]
  BY DEF DirectBits
<1>2. Len(d) = n
  BY <1>1
<1>3. \A j \in 1..n : d[j].array = "direct" /\ [d[j] EXCEPT !.bit = 0] = Coded("direct", 0, 0)
  BY <1>1 DEF Coded
<1> HIDE DEF d
<1> QED
  BY <1>2, <1>3 DEF Shown, DirectPrice, d

\* A literal costs what it takes: a matched one in two parts, up to the first
\* bit in which it differs from the match byte and from there on.
LEMMA FirstDifference ==
  ASSUME NEW n \in Nat, n >= 1, NEW D
  PROVE  \E k \in 1..n : (k \in D \/ k = n) /\ \A j \in 1..(k - 1) : j \notin D
<1> DEFINE T == {k \in 1..n : k \in D \/ k = n}
<1>1. T \subseteq Nat /\ n \in T
  OBVIOUS
<1>2. PICK k \in T : \A j \in T : k <= j
  <2> HIDE DEF T
  <2> QED
    BY <1>1, Least
<1>3. \A j \in 1..(k - 1) : j \in 1..n /\ ~(k <= j)
  BY <1>1
<1> QED
  BY <1>2, <1>3

LEMMA TwoParts ==
  ASSUME NEW S, NEW s \in Seq(S), NEW t \in Seq(S), NEW w \in Seq(S),
         Len(w) = Len(s) + Len(t),
         \A j \in 1..Len(s) : s[j] = w[j],
         \A j \in 1..Len(t) : t[j] = w[Len(s) + j]
  PROVE  s \o t = w
<1>1. Len(s) \in Nat /\ Len(t) \in Nat
  BY LenProperties
<1>2. s \o t \in Seq(S) /\ Len(s \o t) = Len(w)
  BY ConcatProperties
<1>3. ASSUME NEW j \in 1..Len(w) PROVE (s \o t)[j] = w[j]
  <2>1. (s \o t)[j] = IF j <= Len(s) THEN s[j] ELSE t[j - Len(s)]
    BY ConcatProperties
  <2>2. CASE j <= Len(s)
    BY <1>1, <2>1, <2>2
  <2>3. CASE ~(j <= Len(s))
    <3>1. j - Len(s) \in 1..Len(t) /\ Len(s) + (j - Len(s)) = j
      BY <1>1, <2>3
    <3> QED
      BY <2>1, <2>3, <3>1
  <2> QED
    BY <2>2, <2>3
<1>4. ASSUME NEW x, x = s \o t PROVE x = w
  <2>1. x \in Seq(S) /\ Len(x) = Len(w) /\ \A j \in 1..Len(w) : x[j] = w[j]
    BY <1>2, <1>3, <1>4
  <2>2. w \in Seq(S)
    OBVIOUS
  <2> QED
    BY ONLY <2>1, <2>2, SeqEqual
<1> QED
  BY <1>4

LEMMA LiteralCosts ==
  ASSUME NEW v \in Nat, v < TwoTo(LitBits), NEW match,
         match = None \/ (match # None /\ match \in Nat)
  PROVE  LiteralPrice(v, match)
           = Shown(IF match = None THEN Literal(v) ELSE MatchedLiteral(v, match))
<1> DEFINE N == LitBits
           top == TwoTo(LitBits)
           context(j) == TwoTo(j - 1) + Shr(v, N - j + 1)
           bit(j)  == BitOf(v, N - j)
           m2(j)   == BitOf(match, N - j)
           differs == {j \in 1..N : m2(j) # bit(j)}
           is(n)   == (n \in differs \/ n = N) /\ \A j \in 1..(n - 1) : j \notin differs
           found   == CHOOSE n \in 1..N : is(n)
           first   == IF match = None THEN 0 ELSE found
           matched == [j \in 1..first |-> Coded("literal", (1 + m2(j)) * top + context(j), bit(j))]
           plain   == [j \in 1..(N - first) |->
                         Coded("literal", context(first + j), bit(first + j))]
           sent    == IF match = None THEN Literal(v) ELSE MatchedLiteral(v, match)
           made    == [j \in 1..N |->
                         Coded("literal", IF j <= first THEN (1 + m2(j)) * top + context(j)
                                          ELSE context(j), bit(j))]
<1>1. N \in Nat /\ N >= 1 /\ top \in Nat
  <2>1. N \in Nat /\ N >= 1
    BY SymbolAssumption
  <2> QED
    BY <2>1, TwoToStep
<1>2. LiteralPrice(v, match) = matched \o plain
  BY DEF LiteralPrice
<1>3. /\ first \in 0..N
      /\ match = None => first = 0
      /\ match # None => /\ first \in 1..N
                         /\ first \in differs \/ first = N
                         /\ \A j \in 1..(first - 1) : j \notin differs
  <2>1. \E k \in 1..N : is(k)
    <3> HIDE DEF differs
    <3> QED
      BY <1>1, FirstDifference
  <2>2. found \in 1..N /\ is(found)
    <3> HIDE DEF is
    <3> QED
      BY ONLY <2>1
  <2> HIDE DEF differs, found
  <2>3. CASE match = None
    BY <1>1, <2>3
  <2>4. CASE match # None
    BY <1>1, <2>2, <2>4
  <2> QED
    BY <2>3, <2>4
<1> HIDE DEF first, found
<1>4. matched \o plain = made
  <2> DEFINE S == {made[j] : j \in 1..N}
  <2>1. made \in Seq(S) /\ Len(made) = N
    <3>1. made \in [1..N -> S]
      OBVIOUS
    <3> HIDE DEF made, S
    <3> QED
      BY <1>1, <3>1
  <2>2. \A j \in 1..N : made[j] \in S
    OBVIOUS
  <2>3. \A j \in 1..first : matched[j] = made[j] /\ j \in 1..N
    BY <1>1, <1>3
  <2>4. ASSUME NEW j \in 1..(N - first)
        PROVE  plain[j] = made[first + j] /\ first + j \in 1..N
    <3>1. first + j \in 1..N /\ ~(first + j <= first)
      BY <1>1, <1>3
    <3>2. plain[j] = Coded("literal", context(first + j), bit(first + j))
      OBVIOUS
    <3>3. made[first + j] = Coded("literal", context(first + j), bit(first + j))
      BY <3>1
    <3> QED
      BY <3>1, <3>2, <3>3
  <2>5. DOMAIN matched = 1..first /\ DOMAIN plain = 1..(N - first)
        /\ matched = [j \in 1..first |-> matched[j]]
        /\ plain = [j \in 1..(N - first) |-> plain[j]]
    OBVIOUS
  <2> HIDE DEF made, matched, plain, S
  <2>6. matched \in [1..first -> S] /\ plain \in [1..(N - first) -> S]
    BY <2>2, <2>3, <2>4, <2>5
  <2>7. /\ matched \in Seq(S) /\ Len(matched) = first
        /\ plain \in Seq(S) /\ Len(plain) = N - first
    BY <1>1, <1>3, <2>6
  <2>8. Len(made) = Len(matched) + Len(plain)
    BY <1>1, <1>3, <2>1, <2>7
  <2>9. \A j \in 1..Len(matched) : matched[j] = made[j]
    BY <2>3, <2>7
  <2>10. \A j \in 1..Len(plain) : plain[j] = made[Len(matched) + j]
    BY <2>4, <2>7
  <2> QED
    BY ONLY <2>1, <2>7, <2>8, <2>9, <2>10, TwoParts
<1>5. sent = made
  <2>1. CASE match = None
    <3>1. sent = TreePrice("literal", N, v)
      <4>1. sent = Tree("literal", N, v)
        BY <2>1 DEF Literal
      <4> QED
        BY <1>1, <4>1, TreeCosts
    <3>2. \A j \in 1..N : ~(j <= first)
      BY <1>3, <2>1
    <3> QED
      BY <3>1, <3>2 DEF TreePrice
  <2>2. CASE match # None
    <3>1. sent = Made("literal", N, MatchedContext(v, match), High(v, N))
      BY <2>2, MatchedIs
    <3>2. ASSUME NEW j \in 1..N
          PROVE  /\ High(v, N)[j] = bit(j)
                 /\ MatchedContext(v, match)[j]
                      = IF j <= first THEN (1 + m2(j)) * top + context(j) ELSE context(j)
      <4>1. High(v, N)[j] = bit(j)
        BY DEF High
      <4>2. /\ j - 1 \in 0..N /\ j - 1 \in Nat /\ N - (j - 1) = N - j + 1
            /\ N - j + 1 \in Nat /\ N - j \in Nat
        BY <1>1
      <4>3. Pushed(1, High(v, N))[j - 1] = 1 * TwoTo(j - 1) + Shr(v, N - (j - 1))
        BY <1>1, <4>2, PushedHigh
      <4>4. TwoTo(j - 1) \in Nat /\ Shr(v, N - j + 1) \in Nat /\ m2(j) \in 0..1
        BY <2>2, <4>2, TwoToStep, ShrStep, ShrBit
      <4>5. Pushed(1, High(v, N))[j - 1] = context(j) /\ context(j) \in Nat
        BY <4>2, <4>3, <4>4
      <4>6. MatchedContext(v, match)[j]
              = Pushed(1, High(v, N))[j - 1]
                + IF SameSoFar(v, match, j - 1) THEN (1 + m2(j)) * top ELSE 0
        BY DEF MatchedContext
      <4>7. (1 + m2(j)) * top \in Nat
        BY <1>1, <4>4
      <4>8. SameSoFar(v, match, j - 1) <=> j <= first
        <5>1. \A k \in 1..N : k \in differs <=> BitOf(match, N - k) # BitOf(v, N - k)
          OBVIOUS
        <5>2. SameSoFar(v, match, j - 1) <=> \A k \in 1..(j - 1) : k \notin differs
          BY <1>1, <5>1 DEF SameSoFar
        <5> HIDE DEF differs
        <5>3. ASSUME j <= first PROVE \A k \in 1..(j - 1) : k \notin differs
          BY <1>1, <1>3, <2>2, <5>3
        <5>4. ASSUME ~(j <= first) PROVE first \in 1..(j - 1) /\ first \in differs
          BY <1>1, <1>3, <2>2, <5>4
        <5> QED
          BY <5>2, <5>3, <5>4
      <4> HIDE DEF context, bit, m2, top
      <4> QED
        BY <4>1, <4>5, <4>6, <4>7, <4>8
    <3> HIDE DEF context, bit, m2, top
    <3> QED
      BY <3>1, <3>2 DEF Made
  <2> QED
    BY <2>1, <2>2
<1>6. Shown(made) = made
  <2> DEFINE index == [j \in 1..N |-> IF j <= first THEN (1 + m2(j)) * top + context(j)
                                      ELSE context(j)]
  <2>1. made = Made("literal", N, index, High(v, N))
    BY DEF Made, High
  <2> HIDE DEF made, index
  <2>2. ASSUME NEW array, array = "literal"
        PROVE  Shown(Made(array, N, index, High(v, N))) = Made(array, N, index, High(v, N))
    BY <1>1, <2>2, ShownMade
  <2> QED
    BY <2>1, <2>2
<1> QED
  BY <1>2, <1>4, <1>5, <1>6

\* A choice, or two, in front of a tree.
LEMMA ShownChoices ==
  ASSUME NEW array \in DOMAIN Size, array # "direct", NEW n \in Nat, Size[array] = TwoTo(n),
         NEW v \in Nat, v < TwoTo(n), NEW a \in 0..1, NEW b \in 0..1
  PROVE  /\ Shown(<<Coded("choice", 0, a)>> \o Tree(array, n, v))
              = <<Coded("choice", 0, a)>> \o TreePrice(array, n, v)
         /\ Shown(<<Coded("choice", 0, a), Coded("choice", 1, b)>> \o Tree(array, n, v))
              = <<Coded("choice", 0, a), Coded("choice", 1, b)>> \o TreePrice(array, n, v)
<1> DEFINE c == <<Coded("choice", 0, a)>>
           d == <<Coded("choice", 0, a), Coded("choice", 1, b)>>
           t == Tree(array, n, v)
<1>1. t \in Seq(Items) /\ Shown(t) = t /\ TreePrice(array, n, v) = t
  BY LastTreeReads, TreeCosts
<1>2. Coded("choice", 0, a) \in Items /\ Coded("choice", 1, b) \in Items
      /\ Coded("choice", 0, a).array = "choice" /\ Coded("choice", 1, b).array = "choice"
  BY SizesAre DEF Coded, Items
<1>3. ASSUME NEW x, x \in Items, x.array = "choice", NEW y, y \in Items, y.array = "choice"
      PROVE  /\ <<x>> \in Seq(Items) /\ Shown(<<x>>) = <<x>>
             /\ <<x, y>> \in Seq(Items) /\ Shown(<<x, y>>) = <<x, y>>
  <2>1. Shown(<<x>>) = <<x>>
    BY <1>3 DEF Shown
  <2>2. Shown(<<x, y>>) = <<x, y>>
    BY <1>3 DEF Shown
  <2> QED
    BY <1>3, <2>1, <2>2
<1>4. c \in Seq(Items) /\ Shown(c) = c /\ d \in Seq(Items) /\ Shown(d) = d
  BY <1>2, <1>3
<1> HIDE DEF c, d, t
<1>5. Shown(c \o t) = c \o t /\ Shown(d \o t) = d \o t
  BY <1>1, <1>4, ShownBoth
<1> QED
  BY <1>1, <1>5 DEF c, d, t

LEMMA LengthCosts ==
  ASSUME NEW v \in 0..(TwoTo(LowBits) + TwoTo(MidBits) + TwoTo(HighBits) - 1), v < TableSize
  PROVE  LengthPrices[v] = Shown(Length(v))
<1> DEFINE low == TwoTo(LowBits)
           mid == TwoTo(MidBits)
           high == TwoTo(HighBits)
<1>1. low \in Nat /\ mid \in Nat /\ high \in Nat
      /\ LowBits \in Nat /\ MidBits \in Nat /\ HighBits \in Nat
  <2>1. LowBits \in Nat /\ MidBits \in Nat /\ HighBits \in Nat
    BY SymbolAssumption
  <2> QED
    BY <2>1, TwoToStep
<1>2. v \in 0..(TableSize - 1) /\ v \in Nat /\ TableSize \in Nat
  BY <1>1, PriceAssumption
<1>3. ASSUME NEW a \in 0..1, NEW b \in 0..1
      PROVE  <<Coded("choice", 0, a)>> \o <<Coded("choice", 1, b)>>
               = <<Coded("choice", 0, a), Coded("choice", 1, b)>>
  <2>1. ASSUME NEW x, NEW y PROVE <<x>> \o <<y>> = <<x, y>>
    <3> DEFINE S == {x, y}
    <3>1. /\ <<x>> \in Seq(S) /\ <<y>> \in Seq(S) /\ <<x, y>> \in Seq(S)
          /\ Len(<<x>>) = 1 /\ Len(<<y>>) = 1 /\ Len(<<x, y>>) = 2
          /\ <<x>>[1] = <<x, y>>[1] /\ <<y>>[1] = <<x, y>>[1 + 1]
      OBVIOUS
    <3>2. Len(<<x, y>>) = Len(<<x>>) + Len(<<y>>)
      BY <3>1
    <3>3. \A j \in 1..Len(<<x>>) : <<x>>[j] = <<x, y>>[j]
      BY <3>1
    <3>4. ASSUME NEW j \in 1..Len(<<y>>) PROVE <<y>>[j] = <<x, y>>[Len(<<x>>) + j]
      <4>1. j = 1 /\ Len(<<x>>) + j = 1 + 1
        BY <3>1
      <4> QED
        BY ONLY <3>1, <4>1
    <3> HIDE DEF S
    <3> QED
      BY ONLY <3>1, <3>2, <3>3, <3>4, TwoParts
  <2> QED
    BY ONLY <2>1
<1> DEFINE lowPrice == <<Coded("choice", 0, 0)>> \o TreePrice("low", LowBits, v)
           midPrice == (<<Coded("choice", 0, 1)>> \o <<Coded("choice", 1, 0)>>)
                       \o TreePrice("mid", MidBits, v - low)
           highPrice == (<<Coded("choice", 0, 1)>> \o <<Coded("choice", 1, 1)>>)
                        \o TreePrice("high", HighBits, v - (low + mid))
           lowTape == <<Coded("choice", 0, 0)>> \o Tree("low", LowBits, v)
           midTape == <<Coded("choice", 0, 1), Coded("choice", 1, 0)>>
                      \o Tree("mid", MidBits, v - low)
           highTape == <<Coded("choice", 0, 1), Coded("choice", 1, 1)>>
                       \o Tree("high", HighBits, v - low - mid)
<1>7. LengthPrices[v] = CASE v < low -> lowPrice
                          [] v >= low /\ v < low + mid -> midPrice
                          [] OTHER -> highPrice
  BY <1>2 DEF LengthPrices
<1>8. Length(v) = CASE v < low -> lowTape
                    [] v >= low /\ v - low < mid -> midTape
                    [] OTHER -> highTape
  BY DEF Length
<1>4. CASE v < low
  <2>1. LengthPrices[v] = lowPrice /\ Length(v) = lowTape
    <3>1. v < low /\ ~(v >= low)
      BY <1>1, <1>2, <1>4
    <3> HIDE DEF lowPrice, midPrice, highPrice, lowTape, midTape, highTape, low, mid
    <3> QED
      BY ONLY <3>1, <1>7, <1>8
  <2>3. ASSUME NEW array, array = "low"
        PROVE  Shown(<<Coded("choice", 0, 0)>> \o Tree(array, LowBits, v))
                 = <<Coded("choice", 0, 0)>> \o TreePrice(array, LowBits, v)
    <3>1. /\ array \in DOMAIN Size /\ array # "direct" /\ LowBits \in Nat
          /\ Size[array] = TwoTo(LowBits) /\ v \in Nat /\ v < TwoTo(LowBits) /\ 0 \in 0..1
      BY <1>1, <1>2, <1>4, <2>3, SizesAre
    <3> QED
      BY ONLY <3>1, ShownChoices
  <2> QED
    BY <2>1, <2>3
<1>5. CASE v >= low /\ v < low + mid
  <2>1. LengthPrices[v] = midPrice /\ Length(v) = midTape
    <3>1. ~(v < low) /\ v >= low /\ v < low + mid /\ v - low < mid
      BY <1>1, <1>2, <1>5
    <3> HIDE DEF lowPrice, midPrice, highPrice, lowTape, midTape, highTape, low, mid
    <3> QED
      BY ONLY <3>1, <1>7, <1>8
  <2>3. ASSUME NEW array, array = "mid", NEW w, w = v - low
        PROVE  Shown(<<Coded("choice", 0, 1), Coded("choice", 1, 0)>> \o Tree(array, MidBits, w))
                 = <<Coded("choice", 0, 1), Coded("choice", 1, 0)>> \o TreePrice(array, MidBits, w)
    <3>1. /\ array \in DOMAIN Size /\ array # "direct" /\ MidBits \in Nat
          /\ Size[array] = TwoTo(MidBits) /\ w \in Nat /\ w < TwoTo(MidBits)
          /\ 0 \in 0..1 /\ 1 \in 0..1
      BY <1>1, <1>2, <1>5, <2>3, SizesAre
    <3> QED
      BY ONLY <3>1, ShownChoices
  <2>4. <<Coded("choice", 0, 1)>> \o <<Coded("choice", 1, 0)>>
          = <<Coded("choice", 0, 1), Coded("choice", 1, 0)>>
    BY <1>3
  <2> QED
    BY <2>1, <2>3, <2>4
<1>6. CASE v >= low + mid
  <2>1. LengthPrices[v] = highPrice /\ Length(v) = highTape
    <3>1. ~(v < low) /\ ~(v < low + mid) /\ ~(v - low < mid)
      BY <1>1, <1>2, <1>6
    <3> HIDE DEF lowPrice, midPrice, highPrice, lowTape, midTape, highTape, low, mid
    <3> QED
      BY ONLY <3>1, <1>7, <1>8
  <2>3. ASSUME NEW array, array = "high", NEW w, w = v - low - mid
        PROVE  Shown(<<Coded("choice", 0, 1), Coded("choice", 1, 1)>> \o Tree(array, HighBits, w))
                 = <<Coded("choice", 0, 1), Coded("choice", 1, 1)>> \o TreePrice(array, HighBits, w)
    <3>1. /\ array \in DOMAIN Size /\ array # "direct" /\ HighBits \in Nat
          /\ Size[array] = TwoTo(HighBits) /\ w \in Nat /\ w < TwoTo(HighBits)
          /\ 1 \in 0..1
      BY <1>1, <1>2, <1>6, <2>3, SizesAre
    <3> QED
      BY ONLY <3>1, ShownChoices
  <2>4. <<Coded("choice", 0, 1)>> \o <<Coded("choice", 1, 1)>>
          = <<Coded("choice", 0, 1), Coded("choice", 1, 1)>>
    BY <1>3
  <2>5. v - (low + mid) = v - low - mid
    BY <1>1, <1>2
  <2> QED
    BY <2>1, <2>3, <2>4, <2>5
<1> QED
  BY <1>1, <1>2, <1>4, <1>5, <1>6

\* The slots of distances on either side of the last one that posCoders has.
LEMMA SlotSide ==
  ASSUME NEW pos, Numbered(pos)
  PROVE  /\ pos < 4 <=> PosSlot(pos) < 4
         /\ pos < 4 => PosSlot(pos) = pos
         /\ pos < FullDistances <=> PosSlot(pos) < EndPosModel
         /\ pos < TwoTo(DictLog) => PosSlot(pos) < 2 * DictLog
<1> DEFINE slot == PosSlot(pos)
<1>1. /\ pos \in Nat /\ slot \in Nat
      /\ pos < 2 => slot = pos
      /\ pos >= 2 => InSlot(pos, slot)
  BY PosSlotIs DEF Numbered
<1>2. /\ EndPosModel \in Nat /\ EndPosModel >= 4 /\ FullDistances = Base(EndPosModel)
      /\ DictLog \in Nat /\ 2 * DictLog >= EndPosModel
  BY LastSlotIs, SymbolAssumption, PriceAssumption
<1>3. Base(2) = 2 /\ Base(3) = 3 /\ Base(4) = 4
  BY FastNumbers
<1>4. Base(2 * DictLog) = TwoTo(DictLog)
  <2>1. DictLog - 1 \in Nat /\ (DictLog - 1) + 1 = DictLog /\ 2 * (DictLog - 1) + 2 = 2 * DictLog
    BY <1>2
  <2>2. Base(2 * (DictLog - 1) + 2) = 2 * TwoTo(DictLog - 1)
    BY <2>1, SlotIs
  <2>3. TwoTo((DictLog - 1) + 1) = 2 * TwoTo(DictLog - 1)
    BY <2>1, TwoToStep
  <2> QED
    BY <2>1, <2>2, <2>3
<1> HIDE DEF slot
\* A boundary that is the first distance of a slot.
<1>5. ASSUME NEW b \in Nat, b >= 3
      PROVE  pos < Base(b) <=> slot < b
  <2>1. Base(b) \in Nat /\ Base(2) + (b - 2) <= Base(b)
    BY <1>5, BaseGrows
  <2>2. CASE pos < 2
    BY <1>1, <1>3, <1>5, <2>1, <2>2
  <2>3. CASE pos >= 2
    <3>1. slot \in Nat /\ slot >= 2 /\ Base(slot) <= pos /\ pos < Base(slot + 1)
      BY <1>1, <2>3 DEF InSlot
    <3>2. Base(slot) \in Nat /\ Base(slot + 1) \in Nat
      BY <3>1, SlotStep
    <3>3. slot < b => Base(slot + 1) <= Base(b)
      <4>1. ASSUME slot < b PROVE Base(slot + 1) + (b - (slot + 1)) <= Base(b)
        <5>1. slot + 1 \in Nat /\ 2 <= slot + 1 /\ slot + 1 <= b
          BY <1>5, <3>1, <4>1
        <5> QED
          BY <5>1, BaseGrows
      <4> QED
        BY <2>1, <3>1, <3>2, <4>1
    <3>4. ~(slot < b) => Base(b) <= Base(slot)
      <4>1. ASSUME ~(slot < b) PROVE Base(b) + (slot - b) <= Base(slot)
        <5>1. b \in Nat /\ 2 <= b /\ b <= slot
          BY <1>5, <3>1, <4>1
        <5> QED
          BY <3>1, <5>1, BaseGrows
      <4> QED
        BY <2>1, <3>1, <3>2, <4>1
    <3> QED
      BY <1>1, <2>1, <3>1, <3>2, <3>3, <3>4
  <2> QED
    BY <1>1, <2>2, <2>3
<1>6. 3 \in Nat /\ 4 \in Nat /\ 2 * DictLog \in Nat /\ 2 * DictLog >= 3 /\ EndPosModel >= 3
  BY <1>2
<1>7. (pos < 4 <=> slot < 4) /\ (pos < 3 <=> slot < 3)
  BY <1>3, <1>5, <1>6
<1>8. pos < 4 => slot = pos
  BY <1>1, <1>7 DEF InSlot
<1>9. pos < FullDistances <=> slot < EndPosModel
  BY <1>2, <1>5, <1>6
<1>10. pos < TwoTo(DictLog) <=> slot < 2 * DictLog
  BY <1>4, <1>5, <1>6
<1> QED
  BY <1>7, <1>8, <1>9, <1>10 DEF slot

\* The last bits of a distance are those of what is behind its slot's first.
LEMMA SameAlignment ==
  ASSUME NEW slot \in Nat, slot >= EndPosModel, NEW reduced \in Nat
  PROVE  (Base(slot) + reduced) % TwoTo(AlignBits) = reduced % TwoTo(AlignBits)
<1> DEFINE fb == FooterBits(slot)
           t == TwoTo(AlignBits)
           c == (2 + (slot % 2)) * TwoTo(fb - AlignBits)
           pos == Base(slot) + reduced
<1>1. /\ AlignBits \in Nat /\ fb \in Nat /\ fb - AlignBits \in Nat
      /\ AlignBits + (fb - AlignBits) = fb
  <2>1. AlignBits \in Nat /\ EndPosModel >= 2 * AlignBits + 2 /\ EndPosModel \in Nat
    BY LastSlotIs, SymbolAssumption
  <2>2. fb = (slot \div 2) - 1
    BY DEF FooterBits
  <2> QED
    BY <2>1, <2>2
<1>2. t \in Nat /\ t >= 1 /\ TwoTo(fb - AlignBits) \in Nat /\ TwoTo(fb) = t * TwoTo(fb - AlignBits)
  BY <1>1, TwoToPositive, TwoToAdds, TwoToStep
<1>3. c \in Nat /\ Base(slot) = c * t
  <2>1. 2 + (slot % 2) \in Nat
    OBVIOUS
  <2>2. \A a \in Nat, b \in Nat, d \in Nat : a * (b * d) = (a * d) * b /\ a * d \in Nat
    OBVIOUS
  <2>3. Base(slot) = (2 + (slot % 2)) * TwoTo(fb)
    BY DEF Base
  <2> HIDE DEF fb, t
  <2> QED
    BY <1>2, <2>1, <2>2, <2>3
<1> HIDE DEF c, fb
<1>4. /\ Shr(reduced, AlignBits) \in Nat
      /\ reduced % t \in 0..(t - 1)
      /\ reduced = Shr(reduced, AlignBits) * t + (reduced % t)
  BY <1>1, ShrRest, ShrStep
<1>5. /\ pos \in Nat /\ Shr(pos, AlignBits) \in Nat
      /\ pos % t \in 0..(t - 1)
      /\ pos = Shr(pos, AlignBits) * t + (pos % t)
  <2>1. c * t \in Nat
    BY <1>2, <1>3
  <2>2. pos \in Nat
    BY <1>3, <2>1
  <2> HIDE DEF pos, t
  <2> QED
    BY <1>1, <2>2, ShrRest, ShrStep DEF t
<1>6. PICK q \in Nat : q = Shr(reduced, AlignBits)
  BY <1>4
<1>7. Shr(pos, AlignBits) = c + q
  <2>1. c + q \in Nat /\ (c + q) * t = c * t + q * t /\ (c + q + 1) * t = c * t + q * t + t
    BY <1>2, <1>3, <1>6
  <2>2. q * t \in Nat /\ c * t \in Nat
    BY <1>2, <1>3
  <2>3. (c + q) * t <= pos /\ pos < (c + q + 1) * t
    BY <1>2, <1>3, <1>4, <1>6, <2>1, <2>2
  <2> HIDE DEF pos
  <2> QED
    BY <1>1, <1>5, <2>1, <2>3, ShrIs
<1>8. (c + q) * t = c * t + q * t /\ c * t \in Nat /\ q * t \in Nat
  BY <1>2, <1>3, <1>6
<1>9. pos = (c * t) + (q * t) + (pos % t)
  <2> HIDE DEF pos
  <2> QED
    BY <1>5, <1>7, <1>8
<1>10. pos = c * t + (q * t + (reduced % t))
  BY <1>3, <1>4, <1>6
<1> HIDE DEF pos
<1>11. pos % t = reduced % t
  BY <1>4, <1>5, <1>8, <1>9, <1>10
<1> QED
  BY <1>11 DEF pos

\* The tree of the slot, with what is behind it.
LEMMA SlotCosts ==
  ASSUME NEW slot \in Nat, slot <= LastSlot, NEW footer \in Seq(Items)
  PROVE  Shown(Tree("slot", SlotBits, slot) \o footer)
           = TreePrice("slot", SlotBits, slot) \o Shown(footer)
         /\ TreePrice("slot", SlotBits, slot) \in Seq(Items)
<1>1. ASSUME NEW array, array = "slot"
      PROVE  /\ Tree(array, SlotBits, slot) \in Seq(Items)
             /\ TreePrice(array, SlotBits, slot) = Tree(array, SlotBits, slot)
             /\ Shown(Tree(array, SlotBits, slot)) = Tree(array, SlotBits, slot)
  <2>1. /\ array \in DOMAIN Size /\ array # "direct" /\ SlotBits \in Nat
        /\ Size[array] = TwoTo(SlotBits) /\ slot < TwoTo(SlotBits)
    BY <1>1, SizesAre, LastSlotIs
  <2> QED
    BY ONLY <2>1, slot \in Nat, LastTreeReads, TreeCosts
<1>2. PICK t \in Seq(Items) : t = Tree("slot", SlotBits, slot)
  BY <1>1
<1>3. Shown(t \o footer) = Shown(t) \o Shown(footer)
  BY ShownBoth
<1> QED
  BY <1>1, <1>2, <1>3

LEMMA NearCosts ==
  ASSUME NEW pos, Numbered(pos), pos < FullDistances
  PROVE  DistancePrice(pos) = Shown(Distance(pos))
<1> DEFINE slot == PosSlot(pos)
           fb == FooterBits(slot)
           reduced == IF slot < 4 THEN 0 ELSE pos - Base(slot)
           near == ReverseTree("pos", FooterStart(slot), fb, reduced)
           footer == IF slot < 4 THEN << >> ELSE near
           tree == TreePrice("slot", SlotBits, slot)
<1>1. /\ pos \in Nat /\ slot \in Nat /\ slot < LastSlot
      /\ pos >= 2 => InSlot(pos, slot)
      /\ slot < EndPosModel /\ slot < 2 * DictLog
      /\ pos < 4 <=> slot < 4
      /\ pos < 4 => slot = pos
      /\ StartPosModel = 4 /\ EndPosModel \in Nat /\ EndPosModel >= 4
      /\ LastSlot \in Nat /\ DictLog \in Nat /\ FullDistances \in Nat /\ pos # Marker
  <2>1. pos \in Nat /\ FullDistances = Base(EndPosModel) /\ StartPosModel = 4
        /\ DictLog \in Nat /\ 2 * DictLog >= EndPosModel
    BY SymbolAssumption, PriceAssumption DEF Numbered
  <2>2. EndPosModel \in Nat /\ EndPosModel >= 4 /\ LastSlot \in Nat
    BY LastSlotIs
  <2>3. Base(EndPosModel) \in Nat
    BY <2>2, SlotStep
  <2>4. slot \in Nat /\ slot < LastSlot /\ (pos >= 2 => InSlot(pos, slot))
    BY PosSlotIs
  <2>5. slot < EndPosModel /\ (pos < 4 <=> slot < 4) /\ (pos < 4 => slot = pos)
    BY SlotSide
  <2> HIDE DEF slot
  <2> QED
    BY <2>1, <2>2, <2>3, <2>4, <2>5 DEF Marker
<1>2. SlotPrices[slot] = tree
  <2>1. tree \in Seq(Items)
    <3>1. slot <= LastSlot /\ << >> \in Seq(Items)
      BY <1>1
    <3> HIDE DEF slot
    <3> QED
      BY <1>1, <3>1, SlotCosts
  <2>2. slot \in 0..(2 * DictLog - 1)
    BY <1>1
  <2>3. SlotPrices[slot] = tree \o << >>
    <3> HIDE DEF slot
    <3> QED
      BY <1>1, <2>2 DEF SlotPrices
  <2> HIDE DEF tree
  <2> QED
    BY <2>1, <2>3, NoMore
<1>3. Distance(pos) = Tree("slot", SlotBits, slot) \o footer
  <2>1. Distance(pos) = SlotAndFooter(slot, reduced)
    BY <1>1 DEF Distance
  <2>2. ASSUME NEW s \in Nat, s < EndPosModel, NEW x
        PROVE  SlotAndFooter(s, x)
                 = Tree("slot", SlotBits, s)
                   \o IF s < 4 THEN << >>
                      ELSE ReverseTree("pos", FooterStart(s), FooterBits(s), x)
    <3>1. CASE s < 4
      BY <1>1, <3>1 DEF SlotAndFooter
    <3>2. CASE ~(s < 4)
      <4>1. s >= 4
        BY <3>2
      <4> QED
        BY <1>1, <2>2, <3>2, <4>1 DEF SlotAndFooter
    <3> QED
      BY <3>1, <3>2
  <2> HIDE DEF reduced, slot
  <2> QED
    BY <1>1, <2>1, <2>2
<1>4. DistancePrice(pos) = IF pos < 4 THEN SlotPrices[pos] ELSE SlotPrices[slot] \o TempPrices[pos]
  <2>1. pos \in 0..(FullDistances - 1)
    BY <1>1
  <2> QED
    BY <1>1, <2>1 DEF DistancePrice, DistancesPrices
<1>5. CASE slot < 4
  <2>1. footer = << >> /\ pos = slot /\ pos < 4
    BY <1>1, <1>5
  <2>2. Shown(Distance(pos)) = tree \o Shown(<< >>) /\ tree \in Seq(Items)
    <3>1. slot <= LastSlot /\ << >> \in Seq(Items) /\ slot \in Nat
      BY <1>1
    <3> HIDE DEF slot, footer
    <3> QED
      BY <1>3, <2>1, <3>1, SlotCosts
  <2>3. Shown(<< >>) = << >>
    BY DEF Shown
  <2>4. DistancePrice(pos) = tree
    BY <1>2, <1>4, <2>1
  <2> HIDE DEF tree
  <2> QED
    BY <2>2, <2>3, <2>4, NoMore
<1>6. CASE ~(slot < 4)
  <2>1. slot >= 4 /\ ~(pos < 4) /\ pos \in 4..(FullDistances - 1)
    BY <1>1, <1>6
  <2>2. /\ reduced = pos - Base(slot) /\ reduced \in Nat /\ reduced < TwoTo(fb)
        /\ fb \in Nat /\ Base(slot) \in Nat
    <3>1. Base(slot) <= pos /\ pos < Base(slot + 1) /\ slot >= 2
      BY <1>1, <2>1 DEF InSlot
    <3>2. fb \in Nat /\ Base(slot) \in Nat /\ Base(slot + 1) = Base(slot) + TwoTo(fb)
      BY <1>1, <3>1, SlotStep
    <3>3. TwoTo(fb) \in Nat
      BY <3>2, TwoToStep
    <3>4. reduced = pos - Base(slot)
      BY <1>6
    <3> HIDE DEF reduced, slot, fb
    <3> QED
      BY <1>1, <3>1, <3>2, <3>3, <3>4
  <2>3. TempPrices[pos] = ReversePrice("pos", FooterStart(slot), fb, reduced)
    BY <1>1, <1>6, <2>1 DEF TempPrices, FooterStart
  <2> HIDE DEF slot, fb, reduced
  <2>4. ASSUME NEW array, array = "pos"
        PROVE  /\ ReverseTree(array, FooterStart(slot), fb, reduced) \in Seq(Items)
               /\ ReversePrice(array, FooterStart(slot), fb, reduced)
                    = ReverseTree(array, FooterStart(slot), fb, reduced)
               /\ Shown(ReverseTree(array, FooterStart(slot), fb, reduced))
                    = ReverseTree(array, FooterStart(slot), fb, reduced)
    <3>1. /\ FooterStart(slot) \in Int /\ FooterStart(slot) >= -1
          /\ FooterStart(slot) + TwoTo(fb) <= FullDistances - EndPosModel
          /\ FullDistances - EndPosModel \in Nat
      BY <1>1, <2>1, PosRun DEF fb
    <3>2. /\ array \in DOMAIN Size /\ array # "direct"
          /\ Size[array] = FullDistances - EndPosModel
      BY <2>4, SizesAre
    <3>3. Size[array] \in Nat /\ FooterStart(slot) + TwoTo(fb) <= Size[array]
      BY <3>1, <3>2
    <3> QED
      BY ONLY <2>2, <3>1, <3>2, <3>3, LastReverseReads, ReverseCosts
  <2>5. /\ near \in Seq(Items) /\ ReversePrice("pos", FooterStart(slot), fb, reduced) = near
        /\ Shown(near) = near
    BY <2>4
  <2> HIDE DEF near
  <2>6. footer = near
    BY <1>6
  <2>7. Shown(Distance(pos)) = tree \o Shown(near)
    <3>1. slot <= LastSlot /\ slot \in Nat
      BY <1>1
    <3>2. PICK f \in Seq(Items) : f = near
      BY <2>5
    <3>3. Shown(Tree("slot", SlotBits, slot) \o f) = tree \o Shown(f)
      BY ONLY <3>1, SlotCosts
    <3> HIDE DEF tree, footer
    <3> QED
      BY <1>3, <2>6, <3>2, <3>3
  <2> HIDE DEF tree
  <2>8. DistancePrice(pos) = tree \o near
    BY <1>2, <1>4, <2>1, <2>3, <2>5
  <2> QED
    BY <2>5, <2>7, <2>8
<1> QED
  BY <1>5, <1>6

LEMMA FarCosts ==
  ASSUME NEW pos, Numbered(pos), pos >= FullDistances, pos < TwoTo(DictLog)
  PROVE  DistancePrice(pos) = Shown(Distance(pos))
<1> DEFINE slot == PosSlot(pos)
           fb == FooterBits(slot)
           reduced == pos - Base(slot)
           direct == DirectBits(fb - AlignBits, Shr(reduced, AlignBits))
           align == ReverseTree("align", 0, AlignBits, reduced % TwoTo(AlignBits))
           tree == TreePrice("slot", SlotBits, slot)
<1>1. /\ pos \in Nat /\ slot \in Nat /\ slot < LastSlot /\ slot >= EndPosModel
      /\ slot < 2 * DictLog /\ slot >= 4 /\ InSlot(pos, slot)
      /\ StartPosModel = 4 /\ LastSlot \in Nat /\ DictLog \in Nat /\ pos # Marker
      /\ ~(pos < FullDistances)
  <2>1. pos \in Nat /\ StartPosModel = 4 /\ DictLog \in Nat
    BY SymbolAssumption, PriceAssumption DEF Numbered
  <2>2. EndPosModel \in Nat /\ EndPosModel >= 4 /\ LastSlot \in Nat
        /\ FullDistances = Base(EndPosModel)
    BY LastSlotIs, SymbolAssumption
  <2>3. Base(EndPosModel) \in Nat
    BY <2>2, SlotStep
  <2>4. slot \in Nat /\ slot < LastSlot /\ (pos >= 2 => InSlot(pos, slot))
        /\ (pos < 2 => slot = pos)
    BY PosSlotIs
  <2>5. (pos < FullDistances <=> slot < EndPosModel) /\ slot < 2 * DictLog
    BY SlotSide
  <2> HIDE DEF slot
  <2> QED
    BY <2>1, <2>2, <2>3, <2>4, <2>5 DEF Marker
<1>2. Distance(pos) = Tree("slot", SlotBits, slot) \o (direct \o align)
  <2>1. ~(slot < 4) /\ ~(slot < EndPosModel) /\ ~(slot < StartPosModel)
        /\ ~(slot >= StartPosModel /\ slot < EndPosModel)
    <3>1. EndPosModel \in Nat
      BY LastSlotIs
    <3> HIDE DEF slot
    <3> QED
      BY <1>1, <3>1
  <2>2. Distance(pos) = SlotAndFooter(slot, reduced)
    BY <1>1, <2>1 DEF Distance
  <2> HIDE DEF slot, reduced
  <2> QED
    BY <2>1, <2>2 DEF SlotAndFooter
<1>3. SlotPrices[slot] = tree \o DirectPrice(fb - AlignBits)
  <2>1. slot \in 0..(2 * DictLog - 1) /\ ~(slot < EndPosModel)
    <3>1. EndPosModel \in Nat
      BY LastSlotIs
    <3> HIDE DEF slot
    <3> QED
      BY <1>1, <3>1
  <2> HIDE DEF slot
  <2> QED
    BY <2>1 DEF SlotPrices, fb
<1>4. /\ reduced \in Nat /\ reduced < TwoTo(fb) /\ Base(slot) + reduced = pos
  <2>1. Base(slot) <= pos /\ pos < Base(slot + 1) /\ slot >= 2
    BY <1>1 DEF InSlot
  <2>2. fb \in Nat /\ Base(slot) \in Nat /\ Base(slot + 1) = Base(slot) + TwoTo(fb)
    BY <1>1, <2>1, SlotStep
  <2>3. TwoTo(fb) \in Nat
    BY <2>2, TwoToStep
  <2> HIDE DEF slot, fb
  <2> QED
    BY <1>1, <2>1, <2>2, <2>3
<1> HIDE DEF slot, reduced
<1>5. pos % TwoTo(AlignBits) = reduced % TwoTo(AlignBits)
  BY <1>1, <1>4, SameAlignment
<1>6. /\ fb - AlignBits \in Nat /\ AlignBits \in Nat
      /\ Shr(reduced, AlignBits) \in Nat
      /\ Shr(reduced, AlignBits) < TwoTo(fb - AlignBits)
      /\ reduced % TwoTo(AlignBits) \in Nat /\ reduced % TwoTo(AlignBits) < TwoTo(AlignBits)
  BY <1>1, <1>4, FarFooter
<1>7. PICK x \in Nat : x = reduced % TwoTo(AlignBits) /\ x < TwoTo(AlignBits)
  BY <1>6
<1>8. TwoTo(AlignBits) \in Nat
  BY <1>6, TwoToStep
<1> HIDE DEF fb
<1>9. ASSUME NEW array, array = "align", NEW start, start = 0
      PROVE  /\ ReverseTree(array, start, AlignBits, x) \in Seq(Items)
             /\ ReversePrice(array, start, AlignBits, x) = ReverseTree(array, start, AlignBits, x)
             /\ Shown(ReverseTree(array, start, AlignBits, x))
                  = ReverseTree(array, start, AlignBits, x)
  <2>1. /\ array \in DOMAIN Size /\ array # "direct" /\ Size[array] = TwoTo(AlignBits)
        /\ Size[array] \in Nat /\ start \in Int /\ start >= -1
        /\ start + TwoTo(AlignBits) <= Size[array] /\ AlignBits \in Nat
        /\ x \in Nat /\ x < TwoTo(AlignBits)
    BY <1>6, <1>7, <1>8, <1>9, SizesAre
  <2> QED
    BY ONLY <2>1, LastReverseReads, ReverseCosts
<1>10. /\ align \in Seq(Items) /\ Shown(align) = align
       /\ ReversePrice("align", 0, AlignBits, x) = align
  BY <1>7, <1>9
<1> HIDE DEF align
<1>11. AlignPrices[pos % TwoTo(AlignBits)] = align
  <2>1. x \in 0..(TwoTo(AlignBits) - 1) /\ pos % TwoTo(AlignBits) = x
    BY <1>5, <1>7, <1>8
  <2> QED
    BY <1>10, <2>1 DEF AlignPrices
<1>12. direct \in Seq(Items) /\ Shown(direct) = DirectPrice(fb - AlignBits)
  <2>1. ASSUME NEW rest \in Seq(Items)
        PROVE  direct \in Seq(Items)
    BY <1>6, <2>1, DirectReads
  <2> QED
    BY <1>6, <1>10, <2>1, DirectCosts
<1> HIDE DEF direct
<1>13. /\ direct \o align \in Seq(Items)
       /\ Shown(direct \o align) = DirectPrice(fb - AlignBits) \o align
       /\ DirectPrice(fb - AlignBits) \in Seq(Items)
  <2>1. direct \o align \in Seq(Items)
    BY <1>10, <1>12, ConcatProperties
  <2>2. Shown(direct) \in Seq(Items)
    BY <1>12, ShownType
  <2> QED
    BY ZenonT(40), <1>10, <1>12, <2>1, <2>2, ShownBoth
<1>14. Shown(Distance(pos)) = tree \o (DirectPrice(fb - AlignBits) \o align)
       /\ tree \in Seq(Items)
  <2>1. slot <= LastSlot
    BY <1>1
  <2>2. PICK f \in Seq(Items) : f = direct \o align
    BY <1>13
  <2>3. Shown(Tree("slot", SlotBits, slot) \o f) = tree \o Shown(f) /\ tree \in Seq(Items)
    BY <1>1, <2>1, SlotCosts
  <2> HIDE DEF tree
  <2> QED
    BY <1>2, <1>13, <2>2, <2>3
<1>15. DistancePrice(pos) = SlotPrices[slot] \o AlignPrices[pos % TwoTo(AlignBits)]
  <2>1. PosSlot2(pos) = slot
    BY PosSlot2Is DEF slot
  <2> QED
    BY <1>1, <2>1 DEF DistancePrice
<1> HIDE DEF tree
<1>16. (tree \o DirectPrice(fb - AlignBits)) \o align
         = tree \o (DirectPrice(fb - AlignBits) \o align)
  <2>1. /\ tree \in Seq(Items) /\ DirectPrice(fb - AlignBits) \in Seq(Items)
        /\ align \in Seq(Items)
    BY <1>10, <1>13, <1>14
  <2> QED
    BY ONLY <2>1, ConcatAssociative
<1> QED
  BY <1>3, <1>11, <1>14, <1>15, <1>16

(***************************************************************************)
(* The header, and the theorems.                                           *)
(***************************************************************************)
\* decoder has looked at the header, or could.
Present == step \in {"written", "read", "headerError"}

PropsByte(p) == (p.pb * 5 + p.lp) * 9 + p.lc

AskIsTyped == ask.level # 0 => /\ ask.props \in [lc : Nat, lp : Nat, pb : Nat]
                               /\ ask.size \in Sizes

\* The header begins with a byte, the one of the arguments if encoder wrote it,
\* who lets only legal ones through.
FirstByte == Present =>
  /\ bytes[1] \in Byte
  /\ ask.level # 0 => LegalProps(ask.props) /\ bytes[1] = PropsByte(ask.props)

DictPart == SubSeq(bytes, 2, DictBytes + 1)
SizePart == SubSeq(bytes, DictBytes + 2, Len(bytes))

\* The bytes behind it are those of the arguments.
OtherBytes == Present /\ ask.level # 0 =>
  /\ ask.dictLog \in LegalLogs
  /\ DictPart = Little(2^ask.dictLog, DictBytes)
  /\ SizePart = Little(ask.size, SizeBytes)

\* decoder's verdict is that of decodeProps about the first byte, and what it
\* has read is what the others make.
Verdict ==
  /\ step = "read" =>
       /\ AcceptsByte(bytes[1])
       /\ prop.lc = bytes[1] % 9
       /\ prop.lp = (bytes[1] \div 9) % 5
       /\ prop.pb = (bytes[1] \div 9) \div 5
       /\ prop.dict = Number(DictPart) /\ prop.size = Signed(SizePart)
  /\ step = "headerError" => ~AcceptsByte(bytes[1])

IInv == AskIsTyped /\ FirstByte /\ OtherBytes /\ Verdict
-----------------------------------------------------------------------------
\* Of a header in three parts the first byte is that of the first part.
LEMMA FirstOfThree ==
  ASSUME NEW S, NEW b \in S, NEW s \in Seq(S), NEW t \in Seq(S)
  PROVE  (<<b>> \o s \o t)[1] = b
<1>1. <<b>> \in Seq(S) /\ Len(<<b>>) = 1 /\ <<b>>[1] = b
  OBVIOUS
<1>2. <<b>> \o s \in Seq(S) /\ Len(<<b>> \o s) = 1 + Len(s) /\ (<<b>> \o s)[1] = b
  BY <1>1, ConcatProperties
<1> QED
  BY <1>2, ConcatProperties, LenProperties

\* Little gives a sequence, of whatever its bytes are.
LEMMA LittleIsSeq ==
  ASSUME NEW v, NEW n \in Nat, NEW S, \A i \in 1..n : Little(v, n)[i] \in S
  PROVE  Little(v, n) \in Seq(S)
<1>1. Little(v, n) \in [1..n -> S]
  BY DEF Little
<1> QED
  BY <1>1

\* A number made of fives, or of nines, and a rest falls apart into them; and
\* any number is made so.
LEMMA Fives ==
  ASSUME NEW q \in Nat, NEW r \in 0..4
  PROVE  (q * 5 + r) % 5 = r /\ (q * 5 + r) \div 5 = q
OBVIOUS

LEMMA Nines ==
  ASSUME NEW q \in Nat, NEW r \in 0..8
  PROVE  (q * 9 + r) % 9 = r /\ (q * 9 + r) \div 9 = q
OBVIOUS

LEMMA MadeOfFives ==
  ASSUME NEW q \in 0..28
  PROVE  q % 5 \in 0..4 /\ q \div 5 \in 0..5 /\ q = (q \div 5) * 5 + (q % 5)
OBVIOUS

LEMMA MadeOfNines ==
  ASSUME NEW d \in Byte
  PROVE  d % 9 \in 0..8 /\ d \div 9 \in 0..28 /\ d = (d \div 9) * 9 + (d % 9)
BY DEF Byte

\* The byte of legal properties fits, is accepted, and falls apart into them.
LEMMA ByteFallsApart ==
  ASSUME NEW p \in [lc : Nat, lp : Nat, pb : Nat], LegalProps(p)
  PROVE  /\ PropsByte(p) \in 0..224
         /\ PropsByte(p) % 9 = p.lc
         /\ (PropsByte(p) \div 9) % 5 = p.lp
         /\ (PropsByte(p) \div 9) \div 5 = p.pb
<1>1. PICK lc \in 0..8, lp \in 0..4, pb \in 0..4 : lc = p.lc /\ lp = p.lp /\ pb = p.pb
  BY DEF LegalProps
<1>2. /\ pb * 5 + lp \in 0..24
      /\ (pb * 5 + lp) % 5 = lp /\ (pb * 5 + lp) \div 5 = pb
  BY Fives
<1>3. LET d == (pb * 5 + lp) * 9 + lc
      IN  d \in 0..224 /\ d % 9 = lc /\ d \div 9 = pb * 5 + lp
  BY <1>2, Nines
<1>4. PropsByte(p) = (pb * 5 + lp) * 9 + lc
  BY <1>1 DEF PropsByte
<1> QED
  BY <1>1, <1>2, <1>3, <1>4

\* And a byte that is accepted is the one of what it falls apart into.
LEMMA AcceptedIsLegal ==
  ASSUME NEW d \in Byte
  PROVE  AcceptsByte(d) <=> \E lc \in 0..8, lp \in 0..4, pb \in 0..4 :
                               d = (pb * 5 + lp) * 9 + lc
<1>1. /\ d = (d \div 9) * 9 + (d % 9)
      /\ d % 9 \in 0..8 /\ d \div 9 \in 0..28
  BY MadeOfNines
<1>2. /\ d \div 9 = ((d \div 9) \div 5) * 5 + ((d \div 9) % 5)
      /\ (d \div 9) % 5 \in 0..4 /\ (d \div 9) \div 5 \in 0..5
  BY <1>1, MadeOfFives
<1>3. ASSUME AcceptsByte(d)
      PROVE  \E lc \in 0..8, lp \in 0..4, pb \in 0..4 : d = (pb * 5 + lp) * 9 + lc
  <2>1. (d \div 9) \div 5 \in 0..4
    BY <1>2, <1>3 DEF AcceptsByte
  <2>2. d = (((d \div 9) \div 5) * 5 + ((d \div 9) % 5)) * 9 + (d % 9)
    BY <1>1, <1>2
  <2> QED
    BY <1>1, <1>2, <2>1, <2>2
<1>4. ASSUME NEW lc \in 0..8, NEW lp \in 0..4, NEW pb \in 0..4,
             d = (pb * 5 + lp) * 9 + lc
      PROVE  AcceptsByte(d)
  <2>1. /\ pb * 5 + lp \in 0..24
        /\ (pb * 5 + lp) % 5 = lp /\ (pb * 5 + lp) \div 5 = pb
    BY Fives
  <2>2. d \in 0..224 /\ d % 9 = lc /\ d \div 9 = pb * 5 + lp
    BY <1>4, <2>1, Nines
  <2> QED
    BY <2>1, <2>2 DEF AcceptsByte
<1> QED
  BY <1>3, <1>4
-----------------------------------------------------------------------------
(***************************************************************************)
(* The other bytes. Shifted and Joined are recursive functions: what they  *)
(* are for every number follows, for the set of the numbers for which it   *)
(* is not so would have a least member.                                    *)
(***************************************************************************)
\* f is v shifted by a byte at a time, n times.
Shifts(f, v, n) == f[0] = v /\ \A i \in 1..n : f[i] = f[i - 1] \div 256

LEMMA ShiftsExist ==
  ASSUME NEW v \in Int, NEW n \in Nat
  PROVE  \E f \in [0..n -> Int] : Shifts(f, v, n)
<1> DEFINE T == {i \in Nat : ~\E f \in [0..i -> Int] : Shifts(f, v, i)}
<1>1. ASSUME T # {} PROVE FALSE
  <2>1. PICK i \in T : \A j \in T : i <= j
    <3>1. T \subseteq Nat
      OBVIOUS
    <3> HIDE DEF T
    <3> QED
      BY <1>1, <3>1, Least
  <2>2. CASE i = 0
    <3>1. [k \in 0..0 |-> v] \in [0..0 -> Int] /\ [k \in 0..0 |-> v][0] = v
      OBVIOUS
    <3>2. Shifts([k \in 0..0 |-> v], v, 0)
      BY <3>1 DEF Shifts
    <3> QED
      BY <2>2, <3>1, <3>2
  <2>3. CASE i # 0
    <3>1. i \in Nat /\ i - 1 \in Nat /\ i - 1 \notin T
      <4>1. i \in Nat /\ i - 1 \in Nat /\ ~(i <= i - 1)
        BY <2>1, <2>3
      <4> HIDE DEF T
      <4> QED
        BY <2>1, <4>1
    <3>2. PICK f \in [0..(i - 1) -> Int] : Shifts(f, v, i - 1)
      BY <3>1
    <3> DEFINE last == f[i - 1] \div 256
               w == [k \in 0..i |-> IF k = i THEN last ELSE f[k]]
    <3>3. last \in Int
      <4>1. f[i - 1] \in Int
        BY <3>1, <3>2
      <4>2. \A x \in Int : x \div 256 \in Int
        OBVIOUS
      <4> QED
        BY <4>1, <4>2
    <3> HIDE DEF last
    <3>4. w \in [0..i -> Int]
      BY <3>1, <3>3
    <3>5. w[0] = v
      <4>1. 0 \in 0..i /\ 0 # i
        BY <2>3, <3>1
      <4>2. f[0] = v
        BY <3>2 DEF Shifts
      <4> QED
        BY <4>1, <4>2
    <3>6. \A k \in 1..i : w[k] = w[k - 1] \div 256
      <4>1. ASSUME NEW k \in 1..(i - 1) PROVE w[k] = w[k - 1] \div 256
        <5>1. k \in 0..i /\ k - 1 \in 0..i /\ k # i /\ k - 1 # i
          BY <3>1
        <5>2. w[k] = f[k] /\ w[k - 1] = f[k - 1]
          BY <5>1
        <5> QED
          BY <3>2, <5>2 DEF Shifts
      <4>2. w[i] = w[i - 1] \div 256
        <5>1. i \in 0..i /\ i - 1 \in 0..i /\ i - 1 # i
          BY <3>1
        <5>2. w[i] = last /\ w[i - 1] = f[i - 1]
          BY <5>1
        <5> QED
          BY <5>2 DEF last
      <4> QED
        <5>1. \A k \in 1..i : k = i \/ k \in 1..(i - 1)
          BY <3>1
        <5> HIDE DEF w
        <5> QED
          BY <4>1, <4>2, <5>1
    <3> QED
      BY ZenonT(40), <3>4, <3>5, <3>6 DEF Shifts
  <2> QED
    BY <2>2, <2>3
<1> QED
  BY <1>1

LEMMA SameSteps ==
  ASSUME NEW n \in Nat, NEW v, NEW w, v[0] = w[0],
         \A i \in 1..n : v[i - 1] = w[i - 1] => v[i] = w[i]
  PROVE  v[n] = w[n]
<1> DEFINE T == {i \in 0..n : v[i] # w[i]}
<1>1. ASSUME T # {} PROVE FALSE
  <2>1. PICK i \in T : \A j \in T : i <= j
    <3>1. T \subseteq Nat
      OBVIOUS
    <3> HIDE DEF T
    <3> QED
      BY <1>1, <3>1, Least
  <2>2. i # 0
    BY <2>1
  <2>3. i \in 1..n /\ i - 1 \notin T /\ i - 1 \in 0..n
    BY <2>1, <2>2
  <2> QED
    BY <2>1, <2>3
<1> QED
  BY <1>1

LEMMA ShiftedIs ==
  ASSUME NEW v, NEW n \in Nat, NEW f, Shifts(f, v, n)
  PROVE  Shifted(v, n) = f[n]
<1> DEFINE Rec(q) == [k \in 0..n |-> IF k = 0 THEN v ELSE q[k - 1] \div 256]
           h == [k \in 0..n |-> f[k]]
           g == CHOOSE q : q = Rec(q)
<1>0. f[0] = v /\ \A i \in 1..n : f[i] = f[i - 1] \div 256
  BY DEF Shifts
<1>1. h = Rec(h)
  <2>1. \A k \in 0..n : h[k] = Rec(h)[k]
    <3> TAKE k \in 0..n
    <3>1. CASE k = 0
      BY <1>0, <3>1
    <3>2. CASE k # 0
      <4>1. k \in 1..n /\ k - 1 \in 0..n
        BY <3>2
      <4>2. h[k] = f[k] /\ h[k - 1] = f[k - 1] /\ Rec(h)[k] = h[k - 1] \div 256
        BY <3>2, <4>1
      <4> QED
        BY <1>0, <3>2, <4>1, <4>2
    <3> QED
      BY <3>1, <3>2
  <2> QED
    BY <2>1
<1>2. g = Rec(g)
  BY <1>1
<1>3. Shifted(v, n) = g[n]
  BY DEF Shifted
<1> HIDE DEF g
<1>4. \A k \in 0..n : g[k] = IF k = 0 THEN v ELSE g[k - 1] \div 256
  BY <1>2
<1>5. g[0] = v /\ \A i \in 1..n : g[i] = g[i - 1] \div 256
  <2>1. 0 \in 0..n /\ \A i \in 1..n : i \in 0..n /\ i # 0
    OBVIOUS
  <2> QED
    BY <1>4, <2>1
<1>6. \A i \in 1..n : g[i - 1] = f[i - 1] => g[i] = f[i]
  BY <1>0, <1>5
<1>7. g[n] = f[n]
  BY <1>0, <1>5, <1>6, SameSteps
<1> QED
  BY <1>3, <1>7

\* f puts a byte of s, from its end, below top at a time.
LEMMA JoinedIs ==
  ASSUME NEW top, NEW s \in Seq(Int), NEW f, f[0] = top,
         \A i \in 1..Len(s) : f[i] = f[i - 1] * 256 + s[Len(s) + 1 - i]
  PROVE  Joined(top, s) = f[Len(s)]
<1> DEFINE n == Len(s)
           Rec(j) == [i \in 0..n |->
                        IF i = 0 THEN top ELSE j[i - 1] * 256 + s[Len(s) + 1 - i]]
           h == [k \in 0..n |-> f[k]]
           g == CHOOSE j : j = Rec(j)
<1>0. n \in Nat
  OBVIOUS
<1>1. h = Rec(h)
  <2>1. \A k \in 0..n : h[k] = Rec(h)[k]
    <3> TAKE k \in 0..n
    <3>1. CASE k = 0
      BY <3>1
    <3>2. CASE k # 0
      <4>1. k \in 1..n /\ k - 1 \in 0..n
        BY <1>0, <3>2
      <4>2. h[k] = f[k] /\ h[k - 1] = f[k - 1]
            /\ Rec(h)[k] = h[k - 1] * 256 + s[Len(s) + 1 - k]
        BY <3>2, <4>1
      <4> QED
        BY <4>1, <4>2
    <3> QED
      BY <3>1, <3>2
  <2> QED
    BY SMTT(30), <2>1
<1>2. g = Rec(g)
  BY <1>1
<1>3. Joined(top, s) = g[n]
  BY DEF Joined
<1> HIDE DEF g
<1>4. \A k \in 0..n : g[k] = IF k = 0 THEN top ELSE g[k - 1] * 256 + s[Len(s) + 1 - k]
  <2>1. \A k \in 0..n : Rec(g)[k] = IF k = 0 THEN top ELSE g[k - 1] * 256 + s[Len(s) + 1 - k]
    BY Zenon
  <2> HIDE DEF Rec
  <2> QED
    BY ONLY <1>2, <2>1
<1>5. g[0] = top /\ \A i \in 1..n : g[i] = g[i - 1] * 256 + s[Len(s) + 1 - i]
  <2>1. 0 \in 0..n /\ \A i \in 1..n : i \in 0..n /\ i # 0
    BY <1>0
  <2> QED
    BY <1>4, <2>1
<1>6. \A i \in 1..n : g[i - 1] = f[i - 1] => g[i] = f[i]
  BY <1>5
<1>7. g[n] = f[n]
  BY <1>0, <1>5, <1>6, SameSteps
<1> QED
  BY <1>3, <1>7

\* One byte more.
LEMMA ShiftOne ==
  ASSUME NEW v \in Int, NEW n \in Nat
  PROVE  /\ Shifted(v, 0) = v /\ Shifted(v, n) \in Int
         /\ Shifted(v, n + 1) = Shifted(v, n) \div 256
<1>1. n + 1 \in Nat /\ 0 \in Nat
  OBVIOUS
<1>2. PICK f \in [0..(n + 1) -> Int] : Shifts(f, v, n + 1)
  BY <1>1, ShiftsExist
<1>3. Shifted(v, n + 1) = f[n + 1]
  BY <1>1, <1>2, ShiftedIs
<1>4. Shifted(v, n) = f[n] /\ f[n] \in Int
  <2>1. n \in 0..(n + 1) /\ \A i \in 1..n : i \in 1..(n + 1)
    OBVIOUS
  <2>2. Shifts(f, v, n)
    BY <1>2, <2>1 DEF Shifts
  <2> QED
    BY <1>2, <2>1, <2>2, ShiftedIs
<1>5. Shifted(v, 0) = v
  <2>1. Shifts(f, v, 0) /\ f[0] = v
    BY <1>2 DEF Shifts
  <2> QED
    BY <1>1, <2>1, ShiftedIs
<1>6. f[n + 1] = f[n] \div 256
  <2>1. n + 1 \in 1..(n + 1) /\ (n + 1) - 1 = n
    OBVIOUS
  <2> QED
    BY <1>2, <2>1 DEF Shifts
<1> QED
  BY <1>3, <1>4, <1>5, <1>6

LEMMA LittleBytes ==
  ASSUME NEW v \in Int, NEW n \in Nat
  PROVE  Little(v, n) \in Seq(Byte) /\ Len(Little(v, n)) = n
<1>1. \A i \in 1..n : Shifted(v, i - 1) % 256 \in Byte
  <2> TAKE i \in 1..n
  <2>1. Shifted(v, i - 1) \in Int
    BY ShiftOne
  <2>2. \A x \in Int : x % 256 \in 0..255
    OBVIOUS
  <2> QED
    BY <2>1, <2>2 DEF Byte
<1> QED
  BY <1>1 DEF Little

\* The bytes of v, put back below what is left of it above them, are v.
LEMMA JoinLittle ==
  ASSUME NEW v \in Int, NEW n \in Nat
  PROVE  Joined(Shifted(v, n), Little(v, n)) = v
<1> DEFINE s == Little(v, n)
           f == [i \in 0..n |-> Shifted(v, n - i)]
<1>1. s \in Seq(Int) /\ Len(s) = n
  <2>1. \A i \in 1..n : s[i] \in Int
    <3> TAKE i \in 1..n
    <3>1. s[i] = Shifted(v, i - 1) % 256 /\ Shifted(v, i - 1) \in Int
      BY ShiftOne DEF Little
    <3>2. \A x \in Int : x % 256 \in Int
      OBVIOUS
    <3> QED
      BY <3>1, <3>2
  <2>2. s \in Seq(Int)
    BY <2>1, LittleIsSeq
  <2> QED
    BY <2>2 DEF Little
<1>2. f[0] = Shifted(v, n) /\ f[n] = v
  <2>1. n - 0 = n /\ n - n = 0 /\ 0 \in 0..n /\ n \in 0..n
    OBVIOUS
  <2> QED
    BY <2>1, ShiftOne
<1>3. \A i \in 1..n : f[i] = f[i - 1] * 256 + s[n + 1 - i]
  <2> TAKE i \in 1..n
  <2>1. PICK k \in Nat : k = n - i
    OBVIOUS
  <2>2. n - (i - 1) = k + 1 /\ n + 1 - i = k + 1 /\ k + 1 \in 1..n /\ (k + 1) - 1 = k
        /\ i \in 0..n /\ i - 1 \in 0..n
    BY <2>1
  <2>3. f[i] = Shifted(v, k) /\ f[i - 1] = Shifted(v, k + 1)
    BY <2>1, <2>2
  <2>4. s[n + 1 - i] = Shifted(v, k) % 256
    BY <2>2 DEF Little
  <2>5. Shifted(v, k) \in Int /\ Shifted(v, k + 1) = Shifted(v, k) \div 256
    BY ShiftOne
  <2>6. \A x \in Int : x = (x \div 256) * 256 + (x % 256)
    OBVIOUS
  <2> QED
    BY SMTT(30), <2>3, <2>4, <2>5, <2>6
<1> HIDE DEF s, f
<1>4. \A i \in 1..Len(s) : f[i] = f[i - 1] * 256 + s[Len(s) + 1 - i]
  BY <1>1, <1>3
<1>5. Joined(Shifted(v, n), s) = f[n]
  <2>1. f[Len(s)] = f[n] /\ Shifted(v, n) = f[0]
    BY <1>1, <1>2
  <2> QED
    BY ONLY ZenonT(40), <1>1, <1>4, <2>1, JoinedIs
<1> QED
  BY <1>2, <1>5 DEF s

\* A number that fits comes back; so does one that fits with its sign.
LEMMA DictBack ==
  ASSUME NEW d \in Int, NEW n \in Nat, Shifted(d, n) = 0
  PROVE  Number(Little(d, n)) = d
BY JoinLittle DEF Number

LEMMA SizeBack ==
  ASSUME NEW z \in Int, NEW n \in Nat \ {0}, Shifted(z, n - 1) \in -128..127
  PROVE  Signed(Little(z, n)) = z
<1> DEFINE s == Little(z, n)
<1>1. n - 1 \in Nat /\ (n - 1) + 1 = n /\ n \in 1..n
  OBVIOUS
<1>2. Len(s) = n /\ s[n] = Shifted(z, n - 1) % 256
  <2>1. s[n] = Shifted(z, n - 1) % 256
    BY <1>1 DEF Little
  <2> QED
    BY <2>1, LittleBytes
<1>3. Shifted(z, n) = Shifted(z, n - 1) \div 256
  BY <1>1, ShiftOne
<1>4. \A x \in -128..127 : x \div 256 = IF x % 256 < 128 THEN 0 ELSE -1
  OBVIOUS
<1> HIDE DEF s
<1>5. Shifted(z, n) = IF s[Len(s)] < 128 THEN 0 ELSE -1
  <2> DEFINE x == Shifted(z, n - 1)
  <2>1. x \in -128..127
    OBVIOUS
  <2> HIDE DEF x
  <2>2. x \div 256 = IF x % 256 < 128 THEN 0 ELSE -1
    BY ONLY <1>4, <2>1
  <2>3. Shifted(z, n) = x \div 256 /\ s[Len(s)] = x % 256
    BY <1>2, <1>3 DEF x
  <2> QED
    BY ONLY <2>2, <2>3
<1>6. Joined(Shifted(z, n), s) = z
  BY JoinLittle, n \in Nat DEF s
<1>7. Signed(s) = Joined(Shifted(z, n), s)
  BY ONLY <1>5 DEF Signed
<1>8. Signed(s) = z
  BY ONLY <1>6, <1>7
<1> QED
  BY <1>8 DEF s

\* The second and third part of a header in three.
LEMMA OtherParts ==
  ASSUME NEW S, NEW b \in S, NEW s \in Seq(S), NEW t \in Seq(S),
         NEW h, h = <<b>> \o s \o t
  PROVE  SubSeq(h, 2, Len(s) + 1) = s /\ SubSeq(h, Len(s) + 2, Len(h)) = t
<1>1. /\ h \in Seq(S) /\ Len(h) = 1 + Len(s) + Len(t)
      /\ Len(s) \in Nat /\ Len(t) \in Nat
      /\ \A i \in 1..Len(s) : h[i + 1] = s[i]
      /\ \A i \in 1..Len(t) : h[i + 1 + Len(s)] = t[i]
  OBVIOUS
<1>2. SubSeq(h, 2, Len(s) + 1) = s
  <2> DEFINE u == SubSeq(h, 2, Len(s) + 1)
  <2>1. u \in Seq(S) /\ Len(u) = Len(s)
    BY <1>1
  <2>2. \A i \in 1..Len(s) : u[i] = s[i]
    BY <1>1
  <2> HIDE DEF u
  <2> QED
    BY <2>1, <2>2, SeqEqual DEF u
<1>3. SubSeq(h, Len(s) + 2, Len(h)) = t
  <2> DEFINE u == SubSeq(h, Len(s) + 2, Len(h))
  <2>1. u \in Seq(S) /\ Len(u) = Len(t)
    BY <1>1
  <2>2. \A i \in 1..Len(t) : u[i] = t[i]
    BY <1>1
  <2> HIDE DEF u
  <2> QED
    BY <2>1, <2>2, SeqEqual DEF u
<1> QED
  BY <1>2, <1>3
-----------------------------------------------------------------------------
(* The sub-coders. The powers of two that occur are looked up: what the    *)
(* provers know of ^ is its value at two numbers they are shown.           *)

Power == [n \in 0..12 |-> 2^n]

LEMMA Table ==
  /\ Power[0] = 1 /\ Power[1] = 2 /\ Power[2] = 4 /\ Power[3] = 8 /\ Power[4] = 16
  /\ Power[5] = 32 /\ Power[6] = 64 /\ Power[7] = 128 /\ Power[8] = 256
  /\ Power[9] = 512 /\ Power[10] = 1024 /\ Power[11] = 2048 /\ Power[12] = 4096
BY DEF Power

\* A number of a rows of b places has its place among a * b.
LEMMA Rows ==
  ASSUME NEW a \in Nat, NEW b \in Nat, NEW i \in 0..(a - 1), NEW j \in 0..(b - 1)
  PROVE  i * b + j \in 0..(a * b - 1)
<1>1. i * b \in Nat /\ a * b \in Nat /\ i * b + b = (i + 1) * b
  OBVIOUS
<1>2. (i + 1) * b <= a * b
  OBVIOUS
<1> QED
  BY <1>1, <1>2

\* getSubCoder stays within what newLitCoder has made, whatever the position
\* and the last byte.
LEMMA SubCoderExists ==
  ASSUME NEW p, p.lc \in 0..8, p.lp \in 0..4, NEW pos \in Nat, NEW prev \in Byte
  PROVE  SubCoder(p, pos, prev) \in 0..(SubCoders(p) - 1)
<1>1. PICK c \in 0..8, l \in 0..4 : c = p.lc /\ l = p.lp
  OBVIOUS
<1>2. /\ 2^p.lp = Power[l] /\ 2^p.lc = Power[c]
      /\ 2^(8 - p.lc) = Power[8 - c] /\ 2^(p.lc + p.lp) = Power[c + l]
  BY <1>1 DEF Power
<1>3. /\ Power[l] \in Nat /\ pos % Power[l] \in 0..(Power[l] - 1)
      /\ Power[c] \in Nat /\ prev \div Power[8 - c] \in 0..(Power[c] - 1)
      /\ Power[c + l] = Power[l] * Power[c]
  BY Table DEF Byte
<1>4. (pos % Power[l]) * Power[c] + (prev \div Power[8 - c]) \in 0..(Power[l] * Power[c] - 1)
  BY <1>3, Rows
<1> QED
  BY <1>2, <1>3, <1>4 DEF SubCoder, SubCoders
-----------------------------------------------------------------------------
(* The inductive invariant. *)

LEMMA Initially == Init => IInv
<1> SUFFICES ASSUME Init PROVE IInv
  OBVIOUS
<1> USE HeaderAssumption
<1>1. CASE /\ ask \in [level : Levels \ {0}, size : Sizes, props : Props, dictLog : DictLogs]
           /\ step = "asked"
  BY <1>1 DEF IInv, AskIsTyped, FirstByte, OtherBytes, Verdict, Present
<1>2. ASSUME ask = NoAsk, step = "written",
             NEW b \in Byte, NEW d \in ForeignDicts, NEW s \in ForeignSizes,
             bytes = <<b>> \o d \o s
      PROVE  IInv
  <2>1. bytes[1] = b
    BY <1>2, FirstOfThree
  <2>2. ask.level = 0
    BY <1>2 DEF NoAsk
  <2> QED
    BY <1>2, <2>1, <2>2 DEF IInv, AskIsTyped, FirstByte, OtherBytes, Verdict, Present
<1> QED
  BY <1>1, <1>2 DEF Init, HeaderInit

LEMMA WriteKeeps == IInv /\ Write => IInv'
<1> SUFFICES ASSUME IInv, Write PROVE IInv'
  OBVIOUS
<1> DEFINE d == PropsByte(ask.props) % 256
           dict == Little(2^ask.dictLog, DictBytes)
           size == Little(ask.size, SizeBytes)
<1>1. AskIsTyped'
  BY DEF IInv, AskIsTyped, Write
<1>2. /\ ask.level # 0 /\ ask.size \in Sizes /\ ask.dictLog \in LegalLogs
      /\ ask.props \in [lc : Nat, lp : Nat, pb : Nat] /\ LegalProps(ask.props)
  <2>1. ask.level \in 1..9 /\ LegalProps(ask.props) /\ ask.dictLog \in LegalLogs
    BY DEF Write, Legal
  <2> QED
    BY <2>1 DEF IInv, AskIsTyped
<1>3. d = PropsByte(ask.props) /\ d \in Byte
  <2>1. PropsByte(ask.props) \in 0..224
    BY <1>2, ByteFallsApart
  <2>2. \A n \in 0..224 : n % 256 = n /\ n \in Byte
    BY DEF Byte
  <2> QED
    BY <2>1, <2>2
<1>4. bytes' = <<d>> \o dict \o size
  BY DEF Write, PropsByte
<1>5. /\ dict \in Seq(Byte) /\ Len(dict) = DictBytes
      /\ size \in Seq(Byte) /\ Len(size) = SizeBytes
  <2>1. DictBytes \in Nat /\ SizeBytes \in Nat /\ ask.size \in Int
    BY <1>2, HeaderAssumption
  <2>2. PICK v \in Nat : v = 2^ask.dictLog
    BY <1>2, HeaderAssumption
  <2>3. v \in Int /\ dict = Little(v, DictBytes)
    BY <2>2
  <2>4. dict \in Seq(Byte) /\ Len(dict) = DictBytes
    <3> HIDE DEF dict
    <3> QED
      BY <2>1, <2>3, LittleBytes
  <2>5. size \in Seq(Byte) /\ Len(size) = SizeBytes
    BY <2>1, LittleBytes
  <2> QED
    BY <2>4, <2>5
<1> HIDE DEF d, dict, size
<1>6. bytes'[1] = d
  BY <1>3, <1>4, <1>5, FirstOfThree
<1>7. /\ SubSeq(bytes', 2, DictBytes + 1) = dict
      /\ SubSeq(bytes', DictBytes + 2, Len(bytes')) = size
  BY <1>3, <1>4, <1>5, OtherParts
<1>8. FirstByte'
  BY <1>2, <1>3, <1>6 DEF FirstByte, Write
<1>9. OtherBytes'
  BY <1>2, <1>7 DEF OtherBytes, DictPart, SizePart, Write, dict, size
<1>10. Verdict'
  BY DEF Verdict, Write
<1> QED
  BY <1>1, <1>8, <1>9, <1>10 DEF IInv

LEMMA RefuseKeeps == IInv /\ Refuse => IInv'
BY DEF IInv, AskIsTyped, FirstByte, OtherBytes, Verdict, Present, Refuse

LEMMA ReadKeeps == IInv /\ Read => IInv'
<1> SUFFICES ASSUME IInv, Read PROVE IInv'
  OBVIOUS
<1>1. AskIsTyped' /\ FirstByte' /\ OtherBytes'
  BY DEF IInv, AskIsTyped, FirstByte, OtherBytes, DictPart, SizePart, Present, Read
<1>2. Verdict'
  BY DEF Verdict, DictPart, SizePart, Read
<1> QED
  BY <1>1, <1>2 DEF IInv

\* What follows the header leaves it alone.
LEMMA Inductive == IInv /\ [Next]_vars => IInv'
<1> SUFFICES ASSUME IInv, [Next]_vars PROVE IInv'
  OBVIOUS
<1>1. CASE HeaderNext
  BY <1>1, WriteKeeps, RefuseKeeps, ReadKeeps DEF HeaderNext
<1>2. CASE UNCHANGED headerVars
  BY <1>2 DEF headerVars, IInv, AskIsTyped, FirstByte, OtherBytes, DictPart, SizePart,
               Verdict, Present
<1> QED
  BY <1>1, <1>2 DEF Next, AnyHeader, FirstSymbol, AnySymbol, vars

LEMMA Invariance == Spec => []IInv
BY Initially, Inductive, PTL DEF Spec
-----------------------------------------------------------------------------
\* The part of HeaderRoundTrip that the first byte tells.
PropsReturn ==
  step \in {"read", "headerError"} /\ ask.level # 0 =>
    step = "read" /\ [lc |-> prop.lc, lp |-> prop.lp, pb |-> prop.pb] = ask.props

LEMMA ReadIsLegal ==
  ASSUME IInv, step = "read"
  PROVE  prop.lc \in 0..8 /\ prop.lp \in 0..4 /\ prop.pb \in 0..4
<1>1. bytes[1] \in Byte /\ AcceptsByte(bytes[1])
  BY DEF IInv, FirstByte, Verdict, Present
<1>2. \A d \in Byte : d % 9 \in 0..8 /\ (d \div 9) % 5 \in 0..4 /\ (d \div 9) \div 5 \in Nat
  BY DEF Byte
<1> QED
  BY <1>1, <1>2 DEF IInv, Verdict, AcceptsByte

LEMMA PropsComeBack == IInv => PropsReturn
<1> SUFFICES ASSUME IInv, step \in {"read", "headerError"}, ask.level # 0
             PROVE  step = "read"
                    /\ [lc |-> prop.lc, lp |-> prop.lp, pb |-> prop.pb] = ask.props
  BY DEF PropsReturn
<1>1. /\ ask.props \in [lc : Nat, lp : Nat, pb : Nat] /\ LegalProps(ask.props)
      /\ bytes[1] \in Byte /\ bytes[1] = PropsByte(ask.props)
  BY DEF IInv, AskIsTyped, FirstByte, Present
<1>2. /\ bytes[1] % 9 = ask.props.lc /\ (bytes[1] \div 9) % 5 = ask.props.lp
      /\ (bytes[1] \div 9) \div 5 = ask.props.pb /\ bytes[1] \in 0..224
  BY <1>1, ByteFallsApart
<1>3. AcceptsByte(bytes[1])
  BY <1>1, <1>2 DEF AcceptsByte, LegalProps
<1>4. step = "read"
  BY <1>3 DEF IInv, Verdict
<1> QED
  BY <1>1, <1>2, <1>4 DEF IInv, Verdict

\* decodeProps accepts exactly the first bytes that stand for legal properties.
THEOREM AcceptsLegal == Spec => []AcceptsExactlyLegal
<1>1. IInv => AcceptsExactlyLegal
  <2>1. ASSUME IInv, step = "read" PROVE LegalProps(prop)
    BY <2>1, ReadIsLegal DEF LegalProps
  <2>2. ASSUME IInv, step = "headerError"
        PROVE  ~\E lc \in 0..8, lp \in 0..4, pb \in 0..4 : bytes[1] = (pb * 5 + lp) * 9 + lc
    <3>1. bytes[1] \in Byte /\ ~AcceptsByte(bytes[1])
      BY <2>2 DEF IInv, FirstByte, Verdict, Present
    <3> QED
      BY <3>1, AcceptedIsLegal
  <2> QED
    BY <2>1, <2>2 DEF AcceptsExactlyLegal
<1> QED
  BY <1>1, Invariance, PTL

\* What decoder makes of a header that encoder wrote is what encoder was asked
\* for: it is never refused, and properties, dictionary and size come back,
\* whatever the number of bytes they take.
THEOREM HeaderComesBack == Spec => []HeaderRoundTrip
<1>1. IInv => HeaderRoundTrip
  <2> SUFFICES ASSUME IInv, step \in {"read", "headerError"}, ask.level # 0
               PROVE  /\ step = "read"
                      /\ [lc |-> prop.lc, lp |-> prop.lp, pb |-> prop.pb] = ask.props
                      /\ DictSizeCheck = 2^ask.dictLog /\ prop.size = ask.size
    BY DEF HeaderRoundTrip
  <2>1. step = "read" /\ [lc |-> prop.lc, lp |-> prop.lp, pb |-> prop.pb] = ask.props
    BY PropsComeBack DEF PropsReturn
  <2>2. /\ ask.dictLog \in LegalLogs /\ ask.size \in Sizes
        /\ DictPart = Little(2^ask.dictLog, DictBytes)
        /\ SizePart = Little(ask.size, SizeBytes)
    BY DEF IInv, AskIsTyped, OtherBytes, Present
  <2>3. prop.dict = Number(DictPart) /\ prop.size = Signed(SizePart)
    BY <2>1 DEF IInv, Verdict
  <2>4. /\ 2^ask.dictLog \in Nat \ {0} /\ Shifted(2^ask.dictLog, DictBytes) = 0
        /\ ask.size \in Int /\ Shifted(ask.size, SizeBytes - 1) \in -128..127
        /\ DictBytes \in Nat /\ SizeBytes \in Nat \ {0}
    BY <2>2, HeaderAssumption
  <2>5. prop.dict = 2^ask.dictLog
    BY <2>2, <2>3, <2>4, DictBack
  <2>6. prop.size = ask.size
    BY <2>2, <2>3, <2>4, SizeBack
  <2>7. DictSizeCheck = prop.dict
    BY <2>4, <2>5 DEF DictSizeCheck
  <2> QED
    BY <2>1, <2>5, <2>6, <2>7
<1> QED
  BY <1>1, Invariance, PTL

\* Behind every header that is accepted each literal has a sub-coder, at any
\* position and after any byte, and encoder has taken the same.
THEOREM HaveCoders == Spec => []LiteralsHaveCoders
<1>1. IInv => LiteralsHaveCoders
  <2> SUFFICES ASSUME IInv, step = "read", NEW pos \in Positions, NEW prev \in PrevBytes
               PROVE  /\ SubCoder(prop, pos, prev) \in 0..(SubCoders(prop) - 1)
                      /\ ask.level # 0 =>
                           SubCoder(prop, pos, prev) = SubCoder(ask.props, pos, prev)
    BY DEF LiteralsHaveCoders
  <2>1. SubCoder(prop, pos, prev) \in 0..(SubCoders(prop) - 1)
    BY ReadIsLegal, SubCoderExists, StreamAssumption
  <2>2. ASSUME ask.level # 0 PROVE prop.lc = ask.props.lc /\ prop.lp = ask.props.lp
    BY <2>2, PropsComeBack DEF PropsReturn
  <2> QED
    BY <2>1, <2>2 DEF SubCoder
<1> QED
  BY <1>1, Invariance, PTL
-----------------------------------------------------------------------------
(***************************************************************************)
(* The symbol. Its reader has what its coder sent, and nothing is left of  *)
(* it once it is decoded.                                                  *)
(***************************************************************************)
SymbolInv ==
  /\ stage \in {"header", "new", "coded", "decoded"}
  /\ stage # "header" => job \in Jobs
  /\ stage \in {"header", "new"} => tape = << >> /\ reader = Reads(<< >>, 0)
  /\ stage \in {"coded", "decoded"} => tape = Sent(job)
  /\ stage = "coded" => reader = Reads(Sent(job), 0)
  /\ stage = "decoded" => reader = Reads(<< >>, job.sym)

LEMMA EncodeKeeps == SymbolInv /\ Encode => SymbolInv'
<1> SUFFICES ASSUME SymbolInv, Encode PROVE SymbolInv'
  OBVIOUS
<1>1. /\ stage = "new" /\ stage' = "coded" /\ job' = job
      /\ job \in Jobs /\ reader = Reads(<< >>, 0) /\ reader' = [reader EXCEPT !.tape = tape']
  BY DEF SymbolInv, Encode
<1>2. tape' = Sent(job)
  BY DEF Encode, Sent
<1>3. reader' = Reads(Sent(job), 0)
  BY <1>1, <1>2 DEF Reads
<1> QED
  BY <1>1, <1>2, <1>3 DEF SymbolInv

LEMMA DecodeKeeps == SymbolInv /\ Decode => SymbolInv'
<1> SUFFICES ASSUME SymbolInv, Decode PROVE SymbolInv'
  OBVIOUS
<1>1. /\ stage = "coded" /\ stage' = "decoded" /\ job' = job /\ tape' = tape
      /\ job \in Jobs /\ tape = Sent(job) /\ reader = Reads(Sent(job), 0)
  BY DEF SymbolInv, Decode
<1>2. reader' = Decoded(job, reader)
  BY DEF Decode, Decoded
<1>3. reader' = Reads(<< >>, job.sym)
  BY <1>1, <1>2, JobReads
<1> QED
  BY <1>1, <1>3 DEF SymbolInv

LEMMA SymbolInvariance == Spec => []SymbolInv
<1>1. Init => SymbolInv
  BY DEF Init, SymbolInv, Reads
<1>2. SymbolInv /\ [Next]_vars => SymbolInv'
  <2> SUFFICES ASSUME SymbolInv, [Next]_vars PROVE SymbolInv'
    OBVIOUS
  <2>1. ASSUME UNCHANGED symbolVars PROVE SymbolInv'
    BY <2>1 DEF SymbolInv, symbolVars
  <2>2. CASE AnyHeader
    BY <2>1, <2>2 DEF AnyHeader
  <2>3. CASE FirstSymbol
    BY <2>3 DEF FirstSymbol, SymbolInv
  <2>4. CASE AnySymbol
    BY <2>4, EncodeKeeps, DecodeKeeps DEF AnySymbol, SymbolNext
  <2>5. CASE UNCHANGED vars
    BY <2>1, <2>5 DEF vars
  <2> QED
    BY <2>2, <2>3, <2>4, <2>5 DEF Next
<1> QED
  BY <1>1, <1>2, PTL DEF Spec

\* Whatever is encoded is decoded: each bit is asked for with the probability
\* it was coded with, none is left over, and the symbol is the same.
THEOREM SymbolComesBack == Spec => []RoundTrip
<1>1. SymbolInv => RoundTrip
  BY DEF SymbolInv, RoundTrip, Reads
<1> QED
  BY <1>1, SymbolInvariance, PTL

\* No symbol is coded with a probability beyond the end of its array.
THEOREM InItsArray == Spec => []IndexInRange
<1>1. SymbolInv => IndexInRange
  <2> SUFFICES ASSUME SymbolInv, NEW i \in 1..Len(tape)
               PROVE  tape[i].index \in 0..(Size[tape[i].array] - 1)
    BY DEF IndexInRange
  <2>1. tape \in Seq(Items)
    BY JobReads DEF SymbolInv
  <2>2. tape[i] \in Items
    BY <2>1
  <2>3. tape[i].index \in Nat /\ tape[i].index < Size[tape[i].array]
    BY <2>2 DEF Items
  <2>4. Size[tape[i].array] \in Nat
    BY <2>2, SizesAreNumbers DEF Items
  <2> QED
    BY <2>3, <2>4
<1> QED
  BY <1>1, SymbolInvariance, PTL

LEMMA JobCosts ==
  ASSUME NEW j \in Jobs
  PROVE  /\ j.kind = "literal" => LiteralPrice(j.sym, j.match) = Shown(Sent(j))
         /\ j.kind = "length" /\ j.sym < TableSize => LengthPrices[j.sym] = Shown(Sent(j))
         /\ j.kind = "distance" /\ j.sym # Marker /\ j.sym < TwoTo(DictLog) =>
              DistancePrice(j.sym) = Shown(Sent(j))
<1>1. ASSUME j.kind = "literal" PROVE LiteralPrice(j.sym, j.match) = Shown(Sent(j))
  <2>1. /\ j.sym \in Nat /\ j.sym < TwoTo(LitBits)
        /\ j.match = None \/ (j.match # None /\ j.match \in Nat)
    BY <1>1, JobIs
  <2>2. Sent(j) = IF j.match = None THEN Literal(j.sym) ELSE MatchedLiteral(j.sym, j.match)
    BY <1>1 DEF Sent
  <2> QED
    BY <2>1, <2>2, LiteralCosts
<1>2. ASSUME j.kind = "length", j.sym < TableSize PROVE LengthPrices[j.sym] = Shown(Sent(j))
  <2>1. j.sym \in 0..(TwoTo(LowBits) + TwoTo(MidBits) + TwoTo(HighBits) - 1)
    BY <1>2, JobIs
  <2>2. Sent(j) = Length(j.sym)
    BY <1>2 DEF Sent
  <2> QED
    BY <1>2, <2>1, <2>2, LengthCosts
<1>3. ASSUME j.kind = "distance", j.sym # Marker, j.sym < TwoTo(DictLog)
      PROVE  DistancePrice(j.sym) = Shown(Sent(j))
  <2>1. Numbered(j.sym)
    BY <1>3, JobIs
  <2>2. Sent(j) = Distance(j.sym)
    BY <1>3 DEF Sent
  <2>3. CASE j.sym < FullDistances
    BY <2>1, <2>2, <2>3, NearCosts
  <2>4. CASE ~(j.sym < FullDistances)
    <3>1. j.sym >= FullDistances
      <4>1. FullDistances \in Nat /\ j.sym \in Nat
        <5>1. FullDistances = Base(EndPosModel) /\ EndPosModel \in Nat /\ EndPosModel >= 2
          BY LastSlotIs, SymbolAssumption
        <5> QED
          BY <2>1, <5>1, SlotStep DEF Numbered
      <4> QED
        BY <2>4, <4>1
    <3> QED
      BY <1>3, <2>1, <2>2, <3>1, FarCosts
  <2> QED
    BY <2>3, <2>4
<1> QED
  BY <1>1, <1>2, <1>3

\* What the optimal parser believes a symbol costs is what is sent of it: one
\* term for each bit, at the probability it is sent with.
THEOREM CostsWhatIsSent == Spec => []PricesWhatIsSent
<1>1. SymbolInv => PricesWhatIsSent
  <2> SUFFICES ASSUME SymbolInv, stage = "coded", HasPrice PROVE Price = Shown(tape)
    BY DEF PricesWhatIsSent, Shown
  <2>1. tape = Sent(job) /\ job \in Jobs
    BY DEF SymbolInv
  <2>2. CASE job.kind = "literal"
    BY <2>1, <2>2, JobCosts DEF Price
  <2>3. CASE job.kind = "length"
    <3>1. job.kind # "literal" /\ job.sym < TableSize
      BY <2>3 DEF HasPrice
    <3> QED
      BY <2>1, <2>3, <3>1, JobCosts DEF Price
  <2>4. CASE job.kind = "distance"
    <3>1. job.kind # "literal" /\ job.kind # "length"
      BY <2>4
    <3>2. job.sym # Marker /\ job.sym < TwoTo(DictLog)
      BY <3>1 DEF HasPrice
    <3> QED
      BY <2>1, <2>4, <3>1, <3>2, JobCosts DEF Price
  <2> QED
    BY <2>1, <2>2, <2>3, <2>4, JobIs
<1> QED
  BY <1>1, SymbolInvariance, PTL
=============================================================================
