--------------------------- MODULE BinTreeProofs ---------------------------
(***************************************************************************)
(* Proofs about BinTree, for every input, dictionary, size of the tables,  *)
(* cutValue and bound on positions: the match finder implements            *)
(* MatchFinder.                                                            *)
(*                                                                         *)
(* A walk does not compare the node it visits with the new string from the *)
(* first byte: it takes it that the two are the same as far as the lesser  *)
(* of len0 and len1 (NeedNotCompare). That is so because the tree is in    *)
(* order, everything below a node between what was passed on the way down; *)
(* and so the invariant has to say what is below a node. It does so with a *)
(* set Sub[c][s] for each place c and side s (InOrder), of which it says   *)
(* only that what can be reached is in it, never that all of it can be:    *)
(* the walk cuts trees off, and positions leave the dictionary.            *)
(*                                                                         *)
(* Three things stand in the way of the obvious induction. The numbers of  *)
(* positions change and slots are used again, so that the sets are of      *)
(* places in the input, which do not. Where the input ends strings are     *)
(* compared only as far as lenLimit, so that the order is weak, and gets   *)
(* weaker. And while a walk is under way the two links it has open belong  *)
(* to other nodes than those it visits: what will be linked there is known *)
(* by a third set, that of the candidates (Descends).                      *)
(***************************************************************************)
EXTENDS BinTree, SequenceTheorems, WellFoundedInduction, TLAPS

(***************************************************************************)
(* Numbers.                                                                *)
(***************************************************************************)
\* A set of numbers that is not empty has a least one: induction, for the provers.
LEMMA LeastOf ==
  ASSUME NEW T, T \subseteq Nat, T # {}
  PROVE  \E x \in T : \A y \in T : x <= y
<1>1. PICK x \in T : \A y \in T : ~ (<<y, x>> \in OpToRel(<, Nat))
  BY NatLessThanWellFounded, WFMin
<1>2. \A y \in T : ~(y < x)
  BY <1>1 DEF OpToRel
<1> QED
  BY <1>2

LEMMA UpTo ==
  ASSUME NEW n \in Nat, NEW T, 0 \in T, \A i \in 1..n : i - 1 \in T => i \in T
  PROVE  0..n \subseteq T
<1> DEFINE U == {i \in 0..n : i \notin T}
<1>1. ASSUME U # {} PROVE FALSE
  <2>1. PICK x \in U : \A y \in U : x <= y
    <3>1. U \subseteq Nat
      OBVIOUS
    <3> HIDE DEF U
    <3> QED
      BY <1>1, <3>1, LeastOf
  <2>2. x \in 1..n /\ x - 1 \in 0..n /\ x \notin T
    OBVIOUS
  <2>3. x - 1 \in T
    BY <2>1, <2>2
  <2> QED
    BY <2>2, <2>3
<1> QED
  BY <1>1

(***************************************************************************)
(* The order of bytes. Strings are told by the places where they begin in  *)
(* v, and compared as far as n bytes.                                      *)
(***************************************************************************)
Sides == {0, 1}

Same(v, x, y, n) == \A i \in 0..(n - 1) : v[x + 1 + i] = v[y + 1 + i]

\* What begins at x is not greater: where the two differ first it is less.
NotAfter(v, x, y, n) ==
  \A k \in 0..(n - 1) : Same(v, x, y, k) => v[x + 1 + k] <= v[y + 1 + k]

\* On the side of y that son[2y + s] leads to.
OnSide(s, v, x, y, n) == IF s = 0 THEN NotAfter(v, x, y, n) ELSE NotAfter(v, y, x, n)

\* The bytes that n bytes from x on are made of are numbers.
Bytes(v, x, n) == \A i \in 0..(n - 1) : v[x + 1 + i] \in Int

LEMMA FirstDifference ==
  ASSUME NEW v, NEW x \in Nat, NEW y \in Nat, NEW n \in Nat, ~Same(v, x, y, n)
  PROVE  \E k \in 0..(n - 1) : Same(v, x, y, k) /\ v[x + 1 + k] # v[y + 1 + k]
<1> SUFFICES ASSUME \A k \in 0..(n - 1) : Same(v, x, y, k) => v[x + 1 + k] = v[y + 1 + k]
             PROVE  FALSE
  OBVIOUS
<1> DEFINE T == {i \in 0..n : Same(v, x, y, i)}
<1>1. 0 \in T
  BY DEF Same
<1>2. ASSUME NEW i \in 1..n, i - 1 \in T PROVE i \in T
  <2>1. i - 1 \in 0..(n - 1) /\ Same(v, x, y, i - 1)
    BY <1>2
  <2>2. v[x + 1 + (i - 1)] = v[y + 1 + (i - 1)]
    BY <2>1
  <2>3. \A j \in 0..(i - 1) : j \in 0..((i - 1) - 1) \/ j = i - 1
    OBVIOUS
  <2>4. Same(v, x, y, i)
    BY <2>1, <2>2, <2>3 DEF Same
  <2> QED
    BY <2>4
<1>3. n \in T
  <2>1. 0..n \subseteq T
    <3> HIDE DEF T
    <3> QED
      BY <1>1, <1>2, UpTo
  <2>2. n \in 0..n
    OBVIOUS
  <2> HIDE DEF T
  <2> QED
    BY <2>1, <2>2
<1> QED
  BY <1>3

LEMMA SameLess ==
  ASSUME NEW v, NEW x, NEW y, NEW n \in Nat, NEW m \in 0..n, Same(v, x, y, n)
  PROVE  Same(v, x, y, m) /\ Same(v, y, x, n)
BY DEF Same

LEMMA SideLess ==
  ASSUME NEW v, NEW x, NEW y, NEW n \in Nat, NEW m \in 0..n, NEW s, OnSide(s, v, x, y, n)
  PROVE  OnSide(s, v, x, y, m)
BY DEF OnSide, NotAfter

\* Not after and not before is the same.
LEMMA BothSides ==
  ASSUME NEW v, NEW x \in Nat, NEW y \in Nat, NEW n \in Nat, NEW m \in Nat, NEW k \in Nat,
         k <= n, k <= m, Bytes(v, x, k), Bytes(v, y, k),
         NotAfter(v, x, y, n), NotAfter(v, y, x, m)
  PROVE  Same(v, x, y, k)
<1> SUFFICES ASSUME ~Same(v, x, y, k) PROVE FALSE
  OBVIOUS
<1>1. PICK j \in 0..(k - 1) : Same(v, x, y, j) /\ v[x + 1 + j] # v[y + 1 + j]
  BY FirstDifference
<1>2. Same(v, y, x, j)
  BY <1>1 DEF Same
<1>3. j \in 0..(n - 1) /\ j \in 0..(m - 1)
  OBVIOUS
<1>4. v[x + 1 + j] <= v[y + 1 + j] /\ v[y + 1 + j] <= v[x + 1 + j]
  BY <1>1, <1>2, <1>3 DEF NotAfter
<1>5. v[x + 1 + j] \in Int /\ v[y + 1 + j] \in Int
  BY DEF Bytes
<1> QED
  BY <1>1, <1>4, <1>5

LEMMA Transitive ==
  ASSUME NEW v, NEW x \in Nat, NEW y \in Nat, NEW z \in Nat, NEW n \in Nat,
         Bytes(v, x, n), Bytes(v, y, n), Bytes(v, z, n),
         NotAfter(v, x, y, n), NotAfter(v, y, z, n)
  PROVE  NotAfter(v, x, z, n)
<1> SUFFICES ASSUME NEW k \in 0..(n - 1), Same(v, x, z, k)
             PROVE  v[x + 1 + k] <= v[z + 1 + k]
  BY DEF NotAfter
<1>0. \A i \in 0..(n - 1) : v[x + 1 + i] \in Int /\ v[y + 1 + i] \in Int /\ v[z + 1 + i] \in Int
  BY DEF Bytes
<1>1. CASE Same(v, x, y, k)
  <2>1. Same(v, y, z, k)
    BY <1>1 DEF Same
  <2>2. v[x + 1 + k] <= v[y + 1 + k] /\ v[y + 1 + k] <= v[z + 1 + k]
    BY <1>1, <2>1 DEF NotAfter
  <2> QED
    BY <1>0, <2>2
<1>2. CASE ~Same(v, x, y, k)
  <2>0. k \in Nat
    OBVIOUS
  <2>1. PICK j \in 0..(k - 1) : Same(v, x, y, j) /\ v[x + 1 + j] # v[y + 1 + j]
    BY <1>2, <2>0, FirstDifference
  <2>2. j \in 0..(n - 1) /\ v[x + 1 + j] = v[z + 1 + j] /\ \A i \in 0..(j - 1) : i \in 0..(k - 1)
    BY DEF Same
  <2>3. Same(v, y, z, j)
    BY <2>1, <2>2 DEF Same
  <2>4. v[x + 1 + j] <= v[y + 1 + j] /\ v[y + 1 + j] <= v[z + 1 + j]
    BY <2>1, <2>2, <2>3 DEF NotAfter
  <2>5. v[x + 1 + j] \in Int /\ v[y + 1 + j] \in Int
    BY <1>0, <2>2
  <2> QED
    BY <2>1, <2>2, <2>4, <2>5
<1> QED
  BY <1>1, <1>2

LEMMA SideTransitive ==
  ASSUME NEW v, NEW x \in Nat, NEW y \in Nat, NEW z \in Nat, NEW n \in Nat, NEW s,
         Bytes(v, x, n), Bytes(v, y, n), Bytes(v, z, n),
         OnSide(s, v, x, y, n), OnSide(s, v, y, z, n)
  PROVE  OnSide(s, v, x, z, n)
<1>1. CASE s = 0
  BY <1>1, Transitive DEF OnSide
<1>2. CASE s # 0
  BY <1>2, Transitive DEF OnSide
<1> QED
  BY <1>1, <1>2

\* c differs from a after l bytes: less on side 0, greater on side 1.
Differs(s, v, c, a, l) ==
  /\ Same(v, c, a, l)
  /\ IF s = 0 THEN v[c + 1 + l] < v[a + 1 + l] ELSE v[a + 1 + l] < v[c + 1 + l]

LEMMA DiffersOnSide ==
  ASSUME NEW v, NEW c \in Nat, NEW a \in Nat, NEW n \in Nat, NEW l \in 0..(n - 1), NEW s \in Sides,
         Bytes(v, c, n), Bytes(v, a, n), Differs(s, v, c, a, l)
  PROVE  OnSide(s, v, c, a, n) /\ ~OnSide(1 - s, v, c, a, n)
<1>1. Same(v, c, a, l) /\ Same(v, a, c, l)
  BY DEF Differs, Same
<1>2. \A k \in 0..(n - 1) : k < l \/ k = l \/ l \in 0..(k - 1)
  OBVIOUS
<1>3. ASSUME NEW x, NEW y, Bytes(v, x, n), Bytes(v, y, n),
             Same(v, x, y, l), v[x + 1 + l] < v[y + 1 + l]
      PROVE  NotAfter(v, x, y, n) /\ ~NotAfter(v, y, x, n)
  <2>0. /\ \A i \in 0..(n - 1) : v[x + 1 + i] \in Int /\ v[y + 1 + i] \in Int
        /\ Same(v, y, x, l) /\ l \in Nat
    BY <1>3 DEF Same, Bytes
  <2>1. ASSUME NEW k \in 0..(n - 1), Same(v, x, y, k) PROVE v[x + 1 + k] <= v[y + 1 + k]
    <3>1. CASE k < l
      <4>1. k \in 0..(l - 1)
        BY <3>1
      <4>2. v[x + 1 + k] = v[y + 1 + k]
        BY <1>3, <4>1 DEF Same
      <4> QED
        BY <2>0, <4>2
    <3>2. CASE k = l
      BY <1>3, <2>0, <3>2
    <3>3. CASE l \in 0..(k - 1)
      <4>1. v[x + 1 + l] = v[y + 1 + l]
        BY <2>1, <3>3 DEF Same
      <4> QED
        BY <1>3, <2>0, <4>1
    <3> QED
      BY <1>2, <3>1, <3>2, <3>3
  <2>2. ~(v[y + 1 + l] <= v[x + 1 + l])
    BY <1>3, <2>0
  <2> QED
    BY <2>0, <2>1, <2>2 DEF NotAfter
<1>4. CASE s = 0
  <2>1. v[c + 1 + l] < v[a + 1 + l]
    BY <1>4 DEF Differs
  <2> QED
    BY <1>1, <1>3, <1>4, <2>1 DEF OnSide
<1>5. CASE s = 1
  <2>1. v[a + 1 + l] < v[c + 1 + l]
    BY <1>5 DEF Differs
  <2> QED
    BY <1>1, <1>3, <1>5, <2>1 DEF OnSide
<1> QED
  BY <1>4, <1>5 DEF Sides

\* What is beyond c is, as far as c and a are the same, not on c's side of a.
LEMMA Beyond ==
  ASSUME NEW v, NEW c \in Nat, NEW a \in Nat, NEW y \in Nat, NEW n \in Nat, NEW l \in 0..n,
         NEW s \in Sides, Same(v, c, a, l), OnSide(1 - s, v, y, c, n)
  PROVE  OnSide(1 - s, v, y, a, l)
<1>1. \A i \in 0..(l - 1) : i \in 0..(n - 1) /\ v[c + 1 + i] = v[a + 1 + i]
  BY DEF Same
<1>2. \A k \in 0..(l - 1) : \A i \in 0..(k - 1) : i \in 0..(l - 1)
  OBVIOUS
<1>3. CASE s = 0
  <2>1. NotAfter(v, c, y, n)
    BY <1>3 DEF OnSide
  <2>2. NotAfter(v, a, y, l)
    BY <1>1, <1>2, <2>1 DEF NotAfter, Same
  <2> QED
    BY <1>3, <2>2 DEF OnSide
<1>4. CASE s = 1
  <2>1. NotAfter(v, y, c, n)
    BY <1>4 DEF OnSide
  <2>2. NotAfter(v, y, a, l)
    BY <1>1, <1>2, <2>1 DEF NotAfter, Same
  <2> QED
    BY <1>4, <2>2 DEF OnSide
<1> QED
  BY <1>3, <1>4 DEF Sides

\* What is the same as a as far as n bytes is on neither side of it, or on both.
LEMMA SameOnSide ==
  ASSUME NEW v, NEW c \in Nat, NEW a \in Nat, NEW n \in Nat, NEW s \in Sides,
         Bytes(v, c, n), Bytes(v, a, n), Same(v, c, a, n)
  PROVE  OnSide(s, v, c, a, n)
<1>1. \A k \in 0..(n - 1) : v[c + 1 + k] = v[a + 1 + k] /\ v[c + 1 + k] \in Int
  BY DEF Same, Bytes
<1> QED
  BY SMTT(30), <1>1 DEF OnSide, NotAfter

-----------------------------------------------------------------------------
(***************************************************************************)
(* Positions, places and slots. A position is renumbered from time to time *)
(* and its slot used again; the place in the input that it stands for      *)
(* stays what it is.                                                       *)
(***************************************************************************)
InRange ==
  /\ input \in Seq(Byte) /\ at \in 0..Len(input)
  /\ pos \in 1..(MaxVal - 1) /\ pos <= at + 1
  /\ cyclicBufPos \in 0..DictSize
  /\ son \in [0..(2 * CyclicSize - 1) -> 0..(pos - 1)]
  /\ hash \in [0..(HashSizeSum - 1) -> 0..(pos - 1)]
  /\ cutValue \in Nat

PlaceOf(p) == at + p - pos

\* A link that leads to such a position is followed.
Near(p) == p > MatchMinPos

\* The links of a place, while it is in the dictionary.
Slot(c) == 2 * (IF at - c <= cyclicBufPos THEN cyclicBufPos - (at - c)
                ELSE cyclicBufPos - (at - c) + CyclicSize)

\* The places in the dictionary, and these with the one that is being inserted.
Window == {c \in Nat : c < at /\ at - c <= DictSize}
Nodes  == {c \in Nat : c <= at /\ at - c <= DictSize}

LEMMA Sizes ==
  /\ DictSize \in Nat /\ DictSize > 0 /\ CyclicSize = DictSize + 1
  /\ MaxVal \in Nat /\ MaxVal > CyclicSize
  /\ MaxMatch \in Nat /\ MaxMatch >= 4 /\ MinCheck = 4
  /\ Byte \subseteq Nat
BY BinTreeAssumption DEF CyclicSize, MinCheck

LEMMA NearPlace ==
  ASSUME InRange, NEW p \in 0..(pos - 1), Near(p)
  PROVE  /\ PlaceOf(p) \in Window /\ PlaceOf(p) \in Nodes /\ PlaceOf(p) # at
         /\ Node(p) = Slot(PlaceOf(p)) /\ p # Empty
<1>1. pos - p \in 1..DictSize /\ p > 0
  BY Sizes DEF InRange, Near, MatchMinPos
<1>2. at - PlaceOf(p) = pos - p /\ PlaceOf(p) \in Nat /\ PlaceOf(p) < at
  BY <1>1 DEF InRange, PlaceOf
<1>3. PlaceOf(p) \in Window /\ PlaceOf(p) \in Nodes /\ PlaceOf(p) # at
  BY <1>1, <1>2 DEF InRange, Window, Nodes
<1>4. Node(p) = Slot(PlaceOf(p))
  BY <1>2 DEF Node, Slot
<1> QED
  BY <1>1, <1>3, <1>4 DEF Empty

LEMMA SlotIs ==
  ASSUME InRange, NEW c \in Nodes, NEW s \in Sides
  PROVE  /\ Slot(c) \in Int /\ Slot(c) + s \in 0..(2 * CyclicSize - 1)
         /\ Slot(at) = 2 * cyclicBufPos
BY Sizes DEF InRange, Nodes, Slot, Sides

LEMMA SlotsDiffer ==
  ASSUME InRange, NEW c \in Nodes, NEW d \in Nodes, NEW s \in Sides, NEW r \in Sides,
         Slot(c) + s = Slot(d) + r
  PROVE  c = d /\ s = r
<1> DEFINE h(e) == IF at - e <= cyclicBufPos THEN cyclicBufPos - (at - e)
                   ELSE cyclicBufPos - (at - e) + CyclicSize
<1>1. h(c) \in Int /\ h(d) \in Int /\ (h(c) = h(d) => c = d)
  BY Sizes DEF InRange, Nodes
<1>2. 2 * h(c) + s = 2 * h(d) + r
  BY DEF Slot
<1> HIDE DEF h
<1>3. ASSUME NEW m \in Int, NEW n \in Int, 2 * m + s = 2 * n + r PROVE m = n /\ s = r
  <2>1. s - r \in {-1, 0, 1} /\ s - r = 2 * (n - m)
    BY <1>3 DEF Sides
  <2>2. n - m = 0
    BY <2>1
  <2> QED
    BY <2>1, <2>2 DEF Sides
<1> QED
  BY <1>1, <1>2, <1>3

LEMMA ByteIs ==
  ASSUME InRange, NEW p \in Int, NEW i \in Int
  PROVE  /\ ByteAt(p, i) = input[PlaceOf(p) + 1 + i]
         /\ ByteAt(pos, i) = input[at + 1 + i] /\ PlaceOf(pos) = at
<1>1. at + 1 + p - pos + i = PlaceOf(p) + 1 + i /\ at + 1 + pos - pos + i = at + 1 + i
  BY DEF InRange, PlaceOf
<1> QED
  BY <1>1 DEF ByteAt, PlaceOf, InRange

LEMMA LimitIs ==
  ASSUME InRange, Rest >= MinCheck
  PROVE  /\ LenLimit \in Nat /\ LenLimit >= 4 /\ LenLimit <= MaxMatch
         /\ LenLimit <= Len(input) - at /\ Len(input) \in Nat
BY Sizes DEF InRange, Rest, LenLimit

LEMMA BytesHere ==
  ASSUME InRange, NEW x \in Nat, NEW n \in Nat, x <= at, n <= Len(input) - at
  PROVE  Bytes(input, x, n)
<1>1. \A i \in 0..(n - 1) : x + 1 + i \in 1..Len(input)
  BY DEF InRange
<1>2. \A i \in 1..Len(input) : input[i] \in Byte
  BY DEF InRange
<1>3. \A b \in Byte : b \in Int
  BY Sizes
<1> QED
  BY <1>1, <1>2, <1>3 DEF Bytes

LEMMA AgreeIs ==
  ASSUME InRange, Rest >= MinCheck, NEW p \in 0..(pos - 1), Near(p), NEW n \in 0..LenLimit,
         Same(input, PlaceOf(p), at, n)
  PROVE  /\ Agree(p, n) \in n..LenLimit
         /\ Same(input, PlaceOf(p), at, Agree(p, n))
         /\ \/ Agree(p, n) = LenLimit
            \/ input[PlaceOf(p) + 1 + Agree(p, n)] # input[at + 1 + Agree(p, n)]
<1> DEFINE c == PlaceOf(p)
           Ends(m) == m = LenLimit \/ ByteAt(p, m) # ByteAt(pos, m)
           Good(m) == /\ \A i \in n..(m - 1) : ByteAt(p, i) = ByteAt(pos, i)
                      /\ Ends(m)
<1>0. c \in Nat /\ LenLimit \in Nat /\ n \in Nat /\ p \in Int /\ at \in Nat
  BY NearPlace, LimitIs DEF InRange, Window
<1>1. \E m \in n..LenLimit : Good(m)
  <2>1. CASE Same(input, c, at, LenLimit)
    <3>1. \A i \in n..(LenLimit - 1) : ByteAt(p, i) = ByteAt(pos, i)
      BY SMTT(30), <1>0, <2>1, ByteIs DEF Same
    <3> QED
      BY <1>0, <3>1
  <2>2. CASE ~Same(input, c, at, LenLimit)
    <3>1. PICK k \in 0..(LenLimit - 1) : Same(input, c, at, k) /\ input[c + 1 + k] # input[at + 1 + k]
      BY <1>0, <2>2, FirstDifference
    <3>2. ~(k \in 0..(n - 1))
      BY <3>1 DEF Same
    <3>3. k \in n..LenLimit /\ k \in Int
      BY <1>0, <3>2
    <3>4. \A i \in n..(k - 1) : i \in Int /\ i \in 0..(k - 1)
      BY <1>0
    <3>5. \A i \in n..(k - 1) : ByteAt(p, i) = ByteAt(pos, i)
      BY <1>0, <3>1, <3>4, ByteIs DEF Same
    <3>6. ByteAt(p, k) # ByteAt(pos, k)
      BY SMTT(30), <1>0, <3>1, <3>3, ByteIs
    <3> QED
      BY <3>3, <3>5, <3>6
  <2> QED
    BY <2>1, <2>2
<1>2. Agree(p, n) = CHOOSE m \in n..LenLimit : Good(m)
  BY DEF Agree
<1>3. Agree(p, n) \in n..LenLimit /\ Good(Agree(p, n))
  BY <1>1, <1>2
<1> DEFINE m == Agree(p, n)
<1> HIDE DEF m
<1>4. m \in n..LenLimit /\ Good(m)
  BY <1>3 DEF m
<1>5. m \in Int /\ \A i \in 0..(m - 1) : i \in Int /\ (i \in 0..(n - 1) \/ i \in n..(m - 1))
  BY <1>0, <1>4
<1>6. Same(input, c, at, m)
  BY SMTT(30), <1>0, <1>4, <1>5, ByteIs DEF Same
<1>7. m = LenLimit \/ input[c + 1 + m] # input[at + 1 + m]
  BY <1>0, <1>4, <1>5, ByteIs
<1> QED
  BY <1>4, <1>6, <1>7 DEF m

-----------------------------------------------------------------------------
(***************************************************************************)
(* Trees in order. Sub[c][s] holds every place below c on side s: it is on *)
(* that side of c, older than c, and what is below it is below c. Nothing  *)
(* is said of what the walk has not linked.                                *)
(***************************************************************************)
Subs == [Nat -> [Sides -> SUBSET Nat]]

Ordered(Sub, m) ==
  \A c \in Nat, s \in Sides : c < m =>
    \A y \in Sub[c][s] : y < c /\ OnSide(s, input, y, c, LenLimit)

\* A link that is followed leads to a place in S with everything below it.
Leads(Sub, p, S) ==
  Near(p) => PlaceOf(p) \in S /\ \A r \in Sides : Sub[PlaceOf(p)][r] \subseteq S

Linked(links, Sub, c, s) == Leads(Sub, links[Slot(c) + s], Sub[c][s])

\* The places of the dictionary are so linked; or with the one being inserted.
InOrder(links, places, m) ==
  \E Sub \in Subs : /\ Ordered(Sub, m)
                    /\ \A c \in places, s \in Sides : Linked(links, Sub, c, s)

(***************************************************************************)
(* The walk. Two links are open: the one for what is less than the new     *)
(* string, ptr1, and the one for what is greater, ptr0. They belong to     *)
(* the places h[0] and h[1]. Cand is where cur leads: older than these, no *)
(* less than the new string in len1 bytes, no greater in len0 bytes.       *)
(***************************************************************************)
Ptr(w, s) == IF s = 0 THEN w.ptr1 ELSE w.ptr0
LenAt(w, s) == IF s = 0 THEN w.len1 ELSE w.len0

Walks == [cur : 0..(pos - 1), ptr0 : Int, ptr1 : Int, len0 : Int, len1 : Int,
          son : [0..(2 * CyclicSize - 1) -> 0..(pos - 1)], done : BOOLEAN,
          maxLen : Nat, found : Seq([len : Nat, dist : Int])]

Open(w, h, t) ==
  /\ \A s \in Sides : /\ h[s] \in Nodes /\ t[s] \in Sides
                      /\ Ptr(w, s) = Slot(h[s]) + t[s]
                      /\ LenAt(w, s) \in 0..(LenLimit - 1)
  /\ Ptr(w, 0) # Ptr(w, 1)

Linking(w, Sub) == \A c \in Nodes, s \in Sides :
                     Slot(c) + s # Ptr(w, 0) /\ Slot(c) + s # Ptr(w, 1) => Linked(w.son, Sub, c, s)

Fitting(w, Sub, h, t, Cand) ==
  \A y \in Cand, s \in Sides :
    /\ y \in Nat /\ y < h[s]
    /\ OnSide(1 - s, input, y, at, LenAt(w, s))
    /\ OnSide(s, input, y, at, LenLimit) => y \in Sub[h[s]][t[s]]

Descends(w, Sub, h, t, Cand) ==
  /\ Ordered(Sub, at + 1) /\ Open(w, h, t) /\ Linking(w, Sub)
  /\ Leads(Sub, w.cur, Cand) /\ Fitting(w, Sub, h, t, Cand)

Descending(w) ==
  \E Sub \in Subs : \E h \in [Sides -> Nat] : \E t \in [Sides -> Sides] : \E Cand \in SUBSET Nat :
    Descends(w, Sub, h, t, Cand)

LEMMA OtherSide == \A s \in Sides : 1 - s \in Sides /\ 1 - (1 - s) = s /\ 1 - s # s
                                    /\ \A r \in Sides : r = s \/ r = 1 - s
BY DEF Sides

\* Where the walk is.
LEMMA Visited ==
  ASSUME InRange, Rest >= MinCheck, NEW w \in Walks, Near(w.cur),
         NEW Sub \in Subs, NEW h, NEW t, NEW Cand \in SUBSET Nat, Descends(w, Sub, h, t, Cand)
  PROVE  /\ PlaceOf(w.cur) \in Nat /\ PlaceOf(w.cur) \in Nodes /\ PlaceOf(w.cur) \in Cand
         /\ PlaceOf(w.cur) < at /\ Node(w.cur) = Slot(PlaceOf(w.cur))
         /\ \A s \in Sides : /\ PlaceOf(w.cur) < h[s] /\ h[s] \in Nat /\ Sub[PlaceOf(w.cur)][s] \subseteq Cand
                             /\ \A r \in Sides : Slot(PlaceOf(w.cur)) + s # Ptr(w, r)
<1> DEFINE c == PlaceOf(w.cur)
<1>1. w.cur \in 0..(pos - 1)
  BY DEF Walks
<1>2. c \in Window /\ c \in Nodes /\ Node(w.cur) = Slot(c)
  BY <1>1, NearPlace
<1>3. c \in Cand /\ \A s \in Sides : Sub[c][s] \subseteq Cand
  BY DEF Descends, Leads
<1>4. \A s \in Sides : c < h[s]
  BY <1>3 DEF Descends, Fitting
<1>5. \A s \in Sides : h[s] \in Nodes /\ t[s] \in Sides /\ Ptr(w, s) = Slot(h[s]) + t[s]
  BY DEF Descends, Open
<1>6. \A s \in Sides : h[s] \in Nat
  BY <1>5 DEF Nodes
<1>7. c \in Nat /\ c < at
  BY <1>2 DEF Window
<1> HIDE DEF c
<1>8. ASSUME NEW s \in Sides, NEW r \in Sides PROVE Slot(c) + s # Ptr(w, r)
  <2>1. c # h[r]
    BY <1>4, <1>6, <1>7
  <2> QED
    BY <1>2, <1>5, <2>1, SlotsDiffer
<1> QED
  BY <1>2, <1>3, <1>4, <1>6, <1>7, <1>8 DEF c

\* One turn that goes on: cur is on side s of the new string, is linked where
\* that side is open, and opens its other side.
LEMMA TurnDescends ==
  ASSUME InRange, Rest >= MinCheck, NEW w \in Walks, Near(w.cur), Descending(w),
         NEW s \in Sides, NEW l \in 0..(LenLimit - 1),
         Differs(s, input, PlaceOf(w.cur), at, l),
         NEW u \in Walks,
         u.son = [w.son EXCEPT ![Ptr(w, s)] = w.cur],
         Ptr(u, s) = Node(w.cur) + (1 - s), Ptr(u, 1 - s) = Ptr(w, 1 - s),
         LenAt(u, s) = l, LenAt(u, 1 - s) = LenAt(w, 1 - s),
         u.cur = w.son[Node(w.cur) + (1 - s)]
  PROVE  Descending(u)
<1>1. PICK Sub \in Subs, h \in [Sides -> Nat], t \in [Sides -> Sides], Cand \in SUBSET Nat :
        Descends(w, Sub, h, t, Cand)
  BY DEF Descending
<1> DEFINE c == PlaceOf(w.cur)
           o == 1 - s
           Before(y) == OnSide(s, input, y, at, LenLimit)
           Cut == [r \in Sides |-> IF r = s THEN Sub[c][s] ELSE {y \in Sub[c][o] : Before(y)}]
           Sub2 == [d \in Nat |-> IF d = c THEN Cut ELSE Sub[d]]
           h2 == [r \in Sides |-> IF r = s THEN c ELSE h[r]]
           t2 == [r \in Sides |-> IF r = s THEN o ELSE t[r]]
           Cand2 == Sub[c][o]
<1>2. o \in Sides /\ 1 - o = s /\ o # s /\ \A r \in Sides : r = s \/ r = o
  BY OtherSide
<1>3. /\ c \in Nat /\ c \in Nodes /\ c \in Cand /\ c < at /\ Node(w.cur) = Slot(c)
      /\ \A r \in Sides : c < h[r] /\ h[r] \in Nat /\ Sub[c][r] \subseteq Cand
      /\ \A r \in Sides : \A q \in Sides : Slot(c) + r # Ptr(w, q)
  BY <1>1, Visited
<1>4. /\ \A r \in Sides : Sub[c][r] \in SUBSET Nat
      /\ \A d \in Nat, r \in Sides : Sub[d][r] \in SUBSET Nat
  BY <1>3 DEF Subs
<1>5. LenLimit \in Nat /\ LenLimit <= Len(input) - at /\ at \in Nat /\ Len(input) \in Nat
  BY LimitIs DEF InRange
<1>6. Bytes(input, c, LenLimit) /\ Bytes(input, at, LenLimit)
  BY <1>3, <1>5, BytesHere
<1>7. Before(c) /\ ~OnSide(o, input, c, at, LenLimit)
  BY <1>3, <1>5, <1>6, DiffersOnSide
<1> HIDE DEF c, o
<1>8. /\ Sub2 \in Subs /\ Sub2[c] = Cut /\ \A d \in Nat : d # c => Sub2[d] = Sub[d]
      /\ Cut[s] = Sub[c][s] /\ Cut[o] = {y \in Sub[c][o] : Before(y)}
  <2>1. Cut \in [Sides -> SUBSET Nat]
    BY <1>2, <1>4
  <2>2. Cut[s] = Sub[c][s] /\ Cut[o] = {y \in Sub[c][o] : Before(y)}
    BY <1>2
  <2> HIDE DEF Cut
  <2>3. \A d \in Nat : Sub[d] \in [Sides -> SUBSET Nat]
    BY DEF Subs
  <2> QED
    BY <1>3, <2>1, <2>2, <2>3 DEF Subs
<1> HIDE DEF Sub2, Cut, Before
<1>9. \A d \in Nat, r \in Sides : Sub2[d][r] \subseteq Sub[d][r]
  BY <1>2, <1>8
<1>10. /\ h2 \in [Sides -> Nat] /\ t2 \in [Sides -> Sides] /\ Cand2 \in SUBSET Nat
       /\ h2[s] = c /\ t2[s] = o /\ h2[o] = h[o] /\ t2[o] = t[o]
  BY <1>2, <1>3, <1>4
<1> HIDE DEF h2, t2, Cand2
<1>11. Ordered(Sub2, at + 1)
  BY <1>1, <1>9 DEF Descends, Ordered
<1>12. \A r \in Sides : /\ h[r] \in Nodes /\ t[r] \in Sides
                        /\ Ptr(w, r) = Slot(h[r]) + t[r] /\ LenAt(w, r) \in 0..(LenLimit - 1)
  BY <1>1 DEF Descends, Open
<1>13. Ptr(u, s) = Slot(c) + o /\ Ptr(u, o) = Ptr(w, o) /\ LenAt(u, s) = l /\ LenAt(u, o) = LenAt(w, o)
  BY <1>3 DEF o
<1>14. Open(u, h2, t2)
  <2>1. ASSUME NEW r \in Sides
        PROVE  /\ h2[r] \in Nodes /\ t2[r] \in Sides
               /\ Ptr(u, r) = Slot(h2[r]) + t2[r] /\ LenAt(u, r) \in 0..(LenLimit - 1)
    <3>1. CASE r = s
      BY <1>2, <1>3, <1>10, <1>13, <3>1
    <3>2. CASE r = o
      BY <1>2, <1>10, <1>12, <1>13, <3>2
    <3> QED
      BY <1>2, <3>1, <3>2
  <2>2. Ptr(u, s) # Ptr(u, o)
    BY <1>2, <1>3, <1>13
  <2>3. 0 \in Sides /\ 1 \in Sides
    BY DEF Sides
  <2>4. Ptr(u, 0) # Ptr(u, 1)
    BY <1>2, <2>2, <2>3
  <2> QED
    BY <2>1, <2>4 DEF Open
<1>15. Leads(Sub2, w.cur, Sub[h[s]][t[s]])
  <2>1. \A y \in Cand : Before(y) => y \in Sub[h[s]][t[s]]
    BY <1>1 DEF Descends, Fitting, Before
  <2>2. c \in Sub[h[s]][t[s]]
    BY <1>3, <1>7, <2>1
  <2>3. ASSUME NEW y \in Sub2[c][s] PROVE y \in Sub[h[s]][t[s]]
    <3>1. y \in Sub[c][s] /\ y \in Cand /\ y \in Nat
      BY <1>3, <1>4, <1>8
    <3>2. y < c /\ OnSide(s, input, y, c, LenLimit)
      BY <1>1, <1>3, <1>5, <3>1 DEF Descends, Ordered
    <3>3. Bytes(input, y, LenLimit)
      BY <1>3, <1>5, <3>1, <3>2, BytesHere
    <3>4. Before(y)
      BY <1>3, <1>5, <1>6, <1>7, <3>1, <3>2, <3>3, SideTransitive DEF Before
    <3> QED
      BY <2>1, <3>1, <3>4
  <2>4. \A y \in Sub2[c][o] : y \in Sub[h[s]][t[s]]
    BY <1>2, <1>3, <1>8, <2>1
  <2>5. \A r \in Sides : Sub2[c][r] \subseteq Sub[h[s]][t[s]]
    BY <1>2, <2>3, <2>4
  <2> QED
    BY <2>2, <2>5 DEF Leads, c
<1>16. ASSUME NEW p, NEW S, Leads(Sub, p, S), p \in 0..(pos - 1) PROVE Leads(Sub2, p, S)
  <2>1. Near(p) => PlaceOf(p) \in Nat
    BY <1>16, NearPlace DEF Window
  <2> QED
    BY <1>9, <1>16, <2>1 DEF Leads
<1>17. \A i \in 0..(2 * CyclicSize - 1) :
         /\ w.son[i] \in 0..(pos - 1)
         /\ u.son[i] = IF i = Ptr(w, s) THEN w.cur ELSE w.son[i]
  BY DEF Walks
<1>18. Linking(u, Sub2)
  <2> SUFFICES ASSUME NEW d \in Nodes, NEW r \in Sides,
                      Slot(d) + r # Ptr(u, s), Slot(d) + r # Ptr(u, o)
               PROVE  Linked(u.son, Sub2, d, r)
    <3>1. {s, o} = {0, 1}
      BY <1>2 DEF Sides
    <3> QED
      BY <3>1 DEF Linking
  <2>1. Slot(d) + r \in 0..(2 * CyclicSize - 1)
    BY SlotIs
  <2>2. CASE Slot(d) + r = Ptr(w, s)
    <3>1. d = h[s] /\ r = t[s]
      BY <1>12, <2>2, SlotsDiffer
    <3>2. Sub2[d][r] = Sub[h[s]][t[s]]
      BY <1>3, <1>8, <3>1
    <3>3. u.son[Slot(d) + r] = w.cur
      BY <1>17, <2>1, <2>2
    <3> QED
      BY <1>15, <3>2, <3>3 DEF Linked
  <2>3. CASE Slot(d) + r # Ptr(w, s)
    <3>1. Slot(d) + r # Ptr(w, 0) /\ Slot(d) + r # Ptr(w, 1)
      <4>1. {s, o} = {0, 1}
        BY <1>2 DEF Sides
      <4> QED
        BY <1>13, <2>3, <4>1
    <3>2. Linked(w.son, Sub, d, r)
      BY <1>1, <3>1 DEF Descends, Linking
    <3>3. u.son[Slot(d) + r] = w.son[Slot(d) + r] /\ w.son[Slot(d) + r] \in 0..(pos - 1)
      BY <1>17, <2>1, <2>3
    <3>4. Sub2[d][r] = Sub[d][r]
      <4>1. CASE d = c
        <5>1. r = s
          BY <1>2, <1>13, <4>1
        <5> QED
          BY <1>8, <4>1, <5>1
      <4>2. CASE d # c
        BY <1>8, <4>2 DEF Nodes
      <4> QED
        BY <4>1, <4>2
    <3>5. Leads(Sub2, w.son[Slot(d) + r], Sub[d][r])
      BY <1>16, <3>2, <3>3 DEF Linked
    <3> QED
      BY <3>3, <3>4, <3>5 DEF Linked
  <2> QED
    BY <2>2, <2>3
<1>19. Leads(Sub2, u.cur, Cand2)
  <2>1. Linked(w.son, Sub, c, o)
    <3>1. 0 \in Sides /\ 1 \in Sides
      BY DEF Sides
    <3>2. Slot(c) + o # Ptr(w, 0) /\ Slot(c) + o # Ptr(w, 1)
      BY <1>2, <1>3, <3>1
    <3> QED
      BY <1>1, <1>2, <1>3, <3>2 DEF Descends, Linking
  <2>2. u.cur = w.son[Slot(c) + o]
    BY <1>3 DEF o
  <2>3. u.cur \in 0..(pos - 1)
    BY DEF Walks
  <2> QED
    BY <1>16, <2>1, <2>2, <2>3 DEF Linked, Cand2
<1>20. Fitting(u, Sub2, h2, t2, Cand2)
  <2> SUFFICES ASSUME NEW y \in Cand2, NEW r \in Sides
               PROVE  /\ y \in Nat /\ y < h2[r]
                      /\ OnSide(1 - r, input, y, at, LenAt(u, r))
                      /\ OnSide(r, input, y, at, LenLimit) => y \in Sub2[h2[r]][t2[r]]
    BY DEF Fitting
  <2>1. y \in Sub[c][o] /\ y \in Cand /\ y \in Nat
    BY <1>2, <1>3, <1>10 DEF Cand2
  <2>2. y < c /\ OnSide(o, input, y, c, LenLimit)
    BY <1>1, <1>2, <1>3, <1>5, <2>1 DEF Descends, Ordered
  <2>3. CASE r = s
    <3>1. OnSide(1 - s, input, y, c, LenLimit) /\ Same(input, c, at, l) /\ l \in 0..LenLimit
      BY <1>5, <2>2 DEF o, Differs, c
    <3>2. OnSide(1 - s, input, y, at, l)
      BY <1>3, <1>5, <2>1, <3>1, Beyond
    <3>3. Before(y) => y \in Sub2[c][o]
      BY <1>8, <2>1
    <3> QED
      BY <1>10, <1>13, <2>1, <2>2, <2>3, <3>2, <3>3 DEF Before
  <2>4. CASE r = o
    <3>1. /\ y < h[o] /\ OnSide(1 - o, input, y, at, LenAt(w, o))
          /\ OnSide(o, input, y, at, LenLimit) => y \in Sub[h[o]][t[o]]
      BY <1>1, <1>2, <2>1 DEF Descends, Fitting
    <3>2. h[o] # c /\ h[o] \in Nat
      BY <1>2, <1>3
    <3>3. Sub2[h[o]] = Sub[h[o]]
      BY <1>8, <3>2
    <3> QED
      BY <1>10, <1>13, <2>1, <2>4, <3>1, <3>3
  <2> QED
    BY <1>2, <2>3, <2>4
<1>21. Descends(u, Sub2, h2, t2, Cand2)
  BY <1>11, <1>14, <1>18, <1>19, <1>20 DEF Descends
<1> QED
  BY <1>8, <1>10, <1>21 DEF Descending

-----------------------------------------------------------------------------
(***************************************************************************)
(* How a walk ends: what is linked where it was open is on that side.      *)
(***************************************************************************)
LEMMA Closing ==
  ASSUME InRange, NEW w \in Walks,
         NEW Sub \in Subs, NEW h, NEW t, NEW Cand \in SUBSET Nat, Descends(w, Sub, h, t, Cand),
         NEW links,
         \A i \in 0..(2 * CyclicSize - 1) :
           i # Ptr(w, 0) /\ i # Ptr(w, 1) => links[i] = w.son[i],
         \A s \in Sides : Leads(Sub, links[Ptr(w, s)], Sub[h[s]][t[s]])
  PROVE  InOrder(links, Nodes, at + 1)
<1>1. ASSUME NEW c \in Nodes, NEW r \in Sides PROVE Linked(links, Sub, c, r)
  <2>1. Slot(c) + r \in 0..(2 * CyclicSize - 1)
    BY SlotIs
  <2>2. ASSUME NEW s \in Sides, Slot(c) + r = Ptr(w, s) PROVE Linked(links, Sub, c, r)
    <3>1. h[s] \in Nodes /\ t[s] \in Sides /\ Ptr(w, s) = Slot(h[s]) + t[s]
      BY DEF Descends, Open
    <3>2. c = h[s] /\ r = t[s]
      BY <2>2, <3>1, SlotsDiffer
    <3> QED
      BY <2>2, <3>2 DEF Linked
  <2>3. CASE Slot(c) + r # Ptr(w, 0) /\ Slot(c) + r # Ptr(w, 1)
    <3>1. Linked(w.son, Sub, c, r)
      BY <2>3 DEF Descends, Linking
    <3> QED
      BY <2>1, <2>3, <3>1 DEF Linked
  <2>4. 0 \in Sides /\ 1 \in Sides
    BY DEF Sides
  <2> QED
    BY <2>2, <2>3, <2>4
<1> QED
  BY <1>1 DEF InOrder, Descends

LEMMA CutShort ==
  ASSUME InRange, NEW w \in Walks, Descending(w), NEW links,
         \A i \in 0..(2 * CyclicSize - 1) :
           links[i] = IF i = w.ptr0 \/ i = w.ptr1 THEN Empty ELSE w.son[i]
  PROVE  InOrder(links, Nodes, at + 1)
<1>1. PICK Sub \in Subs, h \in [Sides -> Nat], t \in [Sides -> Sides], Cand \in SUBSET Nat :
        Descends(w, Sub, h, t, Cand)
  BY DEF Descending
<1>2. ASSUME NEW s \in Sides PROVE Leads(Sub, links[Ptr(w, s)], Sub[h[s]][t[s]])
  <2>1. Ptr(w, s) \in 0..(2 * CyclicSize - 1)
    BY <1>1, SlotIs DEF Descends, Open
  <2>2. links[Ptr(w, s)] = Empty
    BY <2>1 DEF Ptr
  <2>3. ~Near(Empty)
    BY Sizes DEF Near, Empty, MatchMinPos, InRange
  <2> QED
    BY <2>2, <2>3 DEF Leads
<1>3. \A i \in 0..(2 * CyclicSize - 1) : i # Ptr(w, 0) /\ i # Ptr(w, 1) => links[i] = w.son[i]
  BY DEF Ptr
<1> QED
  BY <1>1, <1>2, <1>3, Closing

LEMMA Replaces ==
  ASSUME InRange, Rest >= MinCheck, NEW w \in Walks, Descending(w), Near(w.cur),
         Same(input, PlaceOf(w.cur), at, LenLimit), NEW links,
         \A i \in 0..(2 * CyclicSize - 1) :
           links[i] = IF i = w.ptr0 THEN w.son[Node(w.cur) + 1]
                      ELSE IF i = w.ptr1 THEN w.son[Node(w.cur)] ELSE w.son[i]
  PROVE  InOrder(links, Nodes, at + 1)
<1>1. PICK Sub \in Subs, h \in [Sides -> Nat], t \in [Sides -> Sides], Cand \in SUBSET Nat :
        Descends(w, Sub, h, t, Cand)
  BY DEF Descending
<1> DEFINE c == PlaceOf(w.cur)
<1>2. /\ c \in Nat /\ c \in Nodes /\ c \in Cand /\ c < at /\ Node(w.cur) = Slot(c)
      /\ \A s \in Sides : /\ Sub[c][s] \subseteq Cand
                          /\ \A r \in Sides : Slot(c) + s # Ptr(w, r)
  BY <1>1, Visited
<1>3. LenLimit \in Nat /\ LenLimit <= Len(input) - at /\ at \in Nat
  BY LimitIs DEF InRange
<1>4. Bytes(input, c, LenLimit) /\ Bytes(input, at, LenLimit)
  BY <1>2, <1>3, BytesHere
<1>5. 0 \in Sides /\ 1 \in Sides
  BY DEF Sides
<1> HIDE DEF c
<1>6. ASSUME NEW s \in Sides PROVE Leads(Sub, links[Ptr(w, s)], Sub[h[s]][t[s]])
  <2>1. Ptr(w, s) \in 0..(2 * CyclicSize - 1)
    BY <1>1, SlotIs DEF Descends, Open
  <2>2. Ptr(w, 0) # Ptr(w, 1)
    BY <1>1 DEF Descends, Open
  <2>3. links[Ptr(w, s)] = w.son[Slot(c) + s]
    <3>0. Slot(c) + 0 = Slot(c)
      BY <1>2, SlotIs
    <3>1. CASE s = 0
      BY <1>2, <2>1, <2>2, <3>0, <3>1 DEF Ptr
    <3>2. CASE s = 1
      BY <1>2, <2>1, <3>2 DEF Ptr
    <3> QED
      BY <3>1, <3>2 DEF Sides
  <2>4. Linked(w.son, Sub, c, s)
    BY <1>1, <1>2, <1>5 DEF Descends, Linking
  <2>5. OnSide(s, input, c, at, LenLimit)
    BY <1>2, <1>3, <1>4, SameOnSide DEF c
  <2>6. Sub[c][s] \subseteq Sub[h[s]][t[s]]
    <3> SUFFICES ASSUME NEW y \in Sub[c][s] PROVE y \in Sub[h[s]][t[s]]
      OBVIOUS
    <3>1. y \in Cand /\ y \in Nat
      BY <1>2
    <3>2. y < c /\ OnSide(s, input, y, c, LenLimit)
      BY <1>1, <1>2, <1>3 DEF Descends, Ordered
    <3>3. Bytes(input, y, LenLimit)
      BY <1>2, <1>3, <3>1, <3>2, BytesHere
    <3>4. OnSide(s, input, y, at, LenLimit)
      BY <1>2, <1>3, <1>4, <2>5, <3>1, <3>2, <3>3, SideTransitive
    <3> QED
      BY <1>1, <3>1, <3>4 DEF Descends, Fitting
  <2> QED
    BY <2>3, <2>4, <2>6 DEF Linked, Leads
<1>7. \A i \in 0..(2 * CyclicSize - 1) : i # Ptr(w, 0) /\ i # Ptr(w, 1) => links[i] = w.son[i]
  BY DEF Ptr
<1> QED
  BY <1>1, <1>6, <1>7, Closing

(***************************************************************************)
(* Reports.                                                                *)
(***************************************************************************)
Reports == [len : Nat, dist : Int]

Real(r) == /\ r \in Reports /\ r.len \in 2..MaxMatch /\ r.dist \in 0..(DictSize - 1)
           /\ Finder!RepeatsAt(at, r.dist, r.len)

LEMMA ReportIsReal ==
  ASSUME InRange, Rest >= MinCheck, NEW p \in 0..(pos - 1), Near(p), NEW n \in 2..LenLimit,
         Same(input, PlaceOf(p), at, n)
  PROVE  Real(Report(n, p)) /\ Report(n, p).len = n
<1> DEFINE d == pos - p - 1
<1>1. PlaceOf(p) \in Nat /\ PlaceOf(p) < at /\ at - PlaceOf(p) <= DictSize
  BY NearPlace DEF Window
<1>2. d = at - PlaceOf(p) - 1 /\ d \in 0..(DictSize - 1) /\ d < at
  BY <1>1, Sizes DEF PlaceOf, InRange
<1>3. n \in Nat /\ n \in 2..MaxMatch /\ at + n <= Len(input)
  <2>1. /\ LenLimit \in Nat /\ LenLimit <= MaxMatch /\ LenLimit <= Len(input) - at
        /\ MaxMatch \in Nat /\ Len(input) \in Nat /\ at \in Nat
    BY LimitIs, Sizes DEF InRange
  <2> QED
    BY <2>1
<1>4. ASSUME NEW i \in 1..n PROVE input[at + i] = input[at + i - d - 1]
  <2>0. at \in Nat /\ d \in Int /\ PlaceOf(p) = at - d - 1
    BY <1>1, <1>2, Sizes DEF InRange, PlaceOf
  <2>1. i - 1 \in 0..(n - 1) /\ at + i = at + 1 + (i - 1) /\ at + i - d - 1 = PlaceOf(p) + 1 + (i - 1)
    BY <1>3, <2>0
  <2>2. input[PlaceOf(p) + 1 + (i - 1)] = input[at + 1 + (i - 1)]
    BY <2>1 DEF Same
  <2> QED
    BY <2>1, <2>2
<1>5. Finder!RepeatsAt(at, d, n)
  BY <1>2, <1>3, <1>4 DEF Finder!RepeatsAt
<1>6. Report(n, p) = [len |-> n, dist |-> d]
  BY DEF Report
<1> HIDE DEF d
<1> QED
  BY <1>2, <1>3, <1>5, <1>6 DEF Real, Reports

Legal(f) == f \in Seq(Reports) /\ Finder!Legal(f)

LEMMA LegalAppend ==
  ASSUME NEW f, Legal(f), NEW r, Real(r), f = << >> \/ f[Len(f)].len < r.len
  PROVE  /\ Legal(Append(f, r)) /\ Append(f, r) # << >>
         /\ Append(f, r)[Len(Append(f, r))] = r
<1> DEFINE g == Append(f, r)
<1>1. f \in Seq(Reports) /\ Len(f) \in Nat /\ r \in Reports
  BY DEF Legal, Real
<1>2. /\ g \in Seq(Reports) /\ Len(g) = Len(f) + 1 /\ g[Len(f) + 1] = r
      /\ \A i \in 1..Len(f) : g[i] = f[i]
  BY <1>1
<1>3. g # << >>
  BY <1>1, <1>2
<1> HIDE DEF g
<1>4. \A i \in 1..Len(g) : i \in 1..Len(f) \/ i = Len(f) + 1
  BY <1>1, <1>2
<1>5. \A i \in 1..Len(f) : f[i] \in Reports /\ f[i].len \in Nat
  <2>1. \A i \in 1..Len(f) : f[i] \in Reports
    BY <1>1
  <2> QED
    BY <2>1 DEF Reports
<1>6. \A i \in 1..Len(f) : f[i].len < r.len
  <2> TAKE i \in 1..Len(f)
  <2>1. Len(f) \in 1..Len(f) /\ f[Len(f)].len < r.len
    BY <1>1
  <2>2. i < Len(f) => f[i].len < f[Len(f)].len
    BY <2>1 DEF Legal, Finder!Legal
  <2>3. i = Len(f) \/ i < Len(f)
    BY <1>1
  <2>4. r.len \in Nat
    BY <1>1 DEF Reports
  <2> QED
    BY <1>5, <2>1, <2>2, <2>3, <2>4
<1>7. \A i \in 1..Len(g) : /\ g[i].len \in 2..MaxMatch /\ g[i].dist \in 0..(DictSize - 1)
                           /\ Finder!RepeatsAt(at, g[i].dist, g[i].len)
  BY <1>2, <1>4 DEF Legal, Finder!Legal, Real
<1>8. ASSUME NEW i \in 1..Len(g), NEW j \in 1..Len(g), i < j PROVE g[i].len < g[j].len
  <2>1. i \in 1..Len(f)
    BY <1>1, <1>2, <1>8
  <2>2. CASE j \in 1..Len(f)
    BY <1>2, <1>8, <2>1, <2>2 DEF Legal, Finder!Legal
  <2>3. CASE j = Len(f) + 1
    BY <1>2, <1>6, <2>1, <2>3
  <2> QED
    BY <1>4, <2>2, <2>3
<1>9. Finder!Legal(g)
  BY <1>7, <1>8 DEF Finder!Legal
<1> QED
  BY <1>2, <1>3, <1>9 DEF Legal, g

LEMMA LegalEmpty == Legal(<< >>)
BY DEF Legal, Finder!Legal

-----------------------------------------------------------------------------
(***************************************************************************)
(* What holds of a walk under way, and of one that has ended. No match so  *)
(* far is longer than maxLen, but where the last one was taken back: then  *)
(* the root, still to be visited, gives it again, or a longer one.         *)
(***************************************************************************)
RootAhead(w) == /\ w.maxLen = 1 /\ w.found[Len(w.found)].len = 2
                /\ Near(w.cur) /\ w.len0 = 0 /\ w.len1 = 0
                /\ Same(input, PlaceOf(w.cur), at, 3)

Growing(w) == w.found = << >> \/ w.found[Len(w.found)].len <= w.maxLen \/ RootAhead(w)

GoesOn(w) == Descending(w) /\ w.maxLen \in 1..(LenLimit - 1) /\ Growing(w)

WalkOk(w) == /\ w \in Walks /\ Legal(w.found)
             /\ IF w.done THEN InOrder(w.son, Nodes, at + 1) ELSE GoesOn(w)

\* As far as the lesser of len0 and len1, the node visited need not be compared.
LEMMA NeedNotCompare ==
  ASSUME InRange, Rest >= MinCheck, NEW w \in Walks, Near(w.cur), Descending(w)
  PROVE  /\ Least(w.len0, w.len1) \in 0..(LenLimit - 1)
         /\ Same(input, PlaceOf(w.cur), at, Least(w.len0, w.len1))
<1>1. PICK Sub \in Subs, h \in [Sides -> Nat], t \in [Sides -> Sides], Cand \in SUBSET Nat :
        Descends(w, Sub, h, t, Cand)
  BY DEF Descending
<1> DEFINE c == PlaceOf(w.cur)
           m == Least(w.len0, w.len1)
<1>2. c \in Nat /\ c \in Cand /\ c < at /\ at \in Nat
  BY <1>1, Visited DEF InRange
<1>3. LenLimit \in Nat /\ LenLimit <= Len(input) - at /\ Len(input) \in Nat
  BY LimitIs
<1>4. w.len1 \in 0..(LenLimit - 1) /\ w.len0 \in 0..(LenLimit - 1)
  BY <1>1 DEF Descends, Open, LenAt, Sides
<1>5. m \in 0..(LenLimit - 1) /\ m <= w.len0 /\ m <= w.len1
  BY <1>3, <1>4 DEF Least
<1>6. NotAfter(input, at, c, w.len1) /\ NotAfter(input, c, at, w.len0)
  <2>1. OnSide(1 - 0, input, c, at, LenAt(w, 0)) /\ OnSide(1 - 1, input, c, at, LenAt(w, 1))
    BY <1>1, <1>2 DEF Descends, Fitting, Sides
  <2> QED
    BY <2>1 DEF OnSide, LenAt
<1> HIDE DEF m, c
<1>7. Bytes(input, c, m) /\ Bytes(input, at, m)
  BY <1>2, <1>3, <1>5, BytesHere
<1>8. Same(input, c, at, m)
  <2>1. m \in Nat /\ w.len0 \in Nat /\ w.len1 \in Nat
    BY <1>3, <1>4, <1>5
  <2> QED
    BY <1>2, <1>5, <1>6, <1>7, <2>1, BothSides
<1> QED
  BY <1>5, <1>8 DEF c, m

LEMMA TurnOk ==
  ASSUME InRange, Rest >= MinCheck, NEW w, WalkOk(w), ~w.done, Near(w.cur)
  PROVE  WalkOk(Turn(w))
<1> DEFINE c      == PlaceOf(w.cur)
           node   == Node(w.cur)
           start  == Least(w.len0, w.len1)
           length == Agree(w.cur, start)
           longer == length > start /\ w.maxLen < length
           v      == IF longer THEN [w EXCEPT !.maxLen = length,
                                              !.found = Append(@, Report(length, w.cur))]
                     ELSE w
           ends   == longer /\ length = LenLimit
           less   == ByteAt(w.cur, length) < ByteAt(pos, length)
           right  == [v EXCEPT !.son[w.ptr1] = w.cur, !.ptr1 = node + 1,
                               !.cur = w.son[node + 1], !.len1 = length]
           left   == [v EXCEPT !.son[w.ptr0] = w.cur, !.ptr0 = node,
                               !.cur = w.son[node], !.len0 = length]
<1>1. /\ w \in Walks /\ Legal(w.found) /\ Descending(w) /\ w.maxLen \in 1..(LenLimit - 1)
      /\ Growing(w) /\ w.done = FALSE
  BY DEF WalkOk, GoesOn, Walks
<1>2. /\ w.cur \in 0..(pos - 1) /\ w.ptr0 \in Int /\ w.ptr1 \in Int /\ w.len0 \in Int /\ w.len1 \in Int
      /\ w.son \in [0..(2 * CyclicSize - 1) -> 0..(pos - 1)]
      /\ w.maxLen \in Nat /\ w.found \in Seq(Reports)
  BY <1>1 DEF Walks, Reports
<1>3. LenLimit \in Nat /\ LenLimit >= 4 /\ LenLimit <= Len(input) - at /\ Len(input) \in Nat /\ at \in Nat
  BY LimitIs DEF InRange
<1>4. c \in Nat /\ c \in Nodes /\ c < at /\ node = Slot(c)
  BY <1>2, NearPlace DEF Window
<1>5. start \in 0..(LenLimit - 1) /\ Same(input, c, at, start)
  BY <1>1, NeedNotCompare
<1>6. /\ length \in start..LenLimit /\ Same(input, c, at, length)
      /\ length = LenLimit \/ input[c + 1 + length] # input[at + 1 + length]
  <2>1. start \in 0..LenLimit
    BY <1>3, <1>5
  <2> QED
    BY <1>2, <1>5, <2>1, AgreeIs
<1>7. node \in Int /\ node \in 0..(2 * CyclicSize - 1) /\ node + 1 \in 0..(2 * CyclicSize - 1)
  <2>1. Slot(c) \in Int /\ Slot(c) + 0 \in 0..(2 * CyclicSize - 1) /\ Slot(c) + 1 \in 0..(2 * CyclicSize - 1)
    BY <1>4, SlotIs DEF Sides
  <2> QED
    BY <1>4, <2>1
<1>8. /\ ByteAt(w.cur, length) = input[c + 1 + length]
      /\ ByteAt(pos, length) = input[at + 1 + length]
  <2>1. w.cur \in Int /\ length \in Int
    BY SMTT(30), <1>2, <1>3, <1>5, <1>6
  <2> QED
    BY <2>1, ByteIs
<1>9. Turn(w) = IF ends THEN Replace(v, node) ELSE IF less THEN right ELSE left
  BY DEF Turn
<1> HIDE DEF c, node, start, length
<1>10. length \in Nat /\ length <= LenLimit /\ start \in Nat /\ start <= length
  BY <1>3, <1>5, <1>6
<1>11. v \in Walks /\ Legal(v.found) /\ (v.found = << >> \/ v.found[Len(v.found)].len <= v.maxLen)
       /\ v.maxLen \in 1..LenLimit /\ (~ends => v.maxLen < LenLimit)
       /\ v.son = w.son /\ v.cur = w.cur /\ v.done = FALSE
       /\ v.ptr0 = w.ptr0 /\ v.ptr1 = w.ptr1 /\ v.len0 = w.len0 /\ v.len1 = w.len1
  <2>1. CASE longer
    <3> DEFINE r == Report(length, w.cur)
    <3>1. length \in 2..LenLimit
      BY <1>1, <1>3, <1>10, <2>1
    <3>2. Real(r) /\ r.len = length /\ r \in Reports
      BY <1>2, <1>6, <3>1, ReportIsReal DEF c, Real
    <3>3. w.found = << >> \/ w.found[Len(w.found)].len < r.len
      <4>1. CASE w.found # << >> /\ w.found[Len(w.found)].len <= w.maxLen
        <5>1. w.found[Len(w.found)] \in Reports
          BY <1>2, <4>1
        <5>2. w.found[Len(w.found)].len \in Nat
          BY <5>1 DEF Reports
        <5> QED
          BY <1>2, <1>10, <2>1, <3>2, <4>1, <5>2
      <4>2. CASE RootAhead(w)
        <5>1. Same(input, c, at, 3) /\ w.found[Len(w.found)].len = 2
          BY <4>2 DEF RootAhead, c
        <5>2. length >= 3
          <6> SUFFICES ASSUME length < 3 PROVE FALSE
            BY <1>10
          <6>1. length \in 0..(3 - 1) /\ length # LenLimit
            BY <1>3, <1>10
          <6> QED
            BY <1>6, <5>1, <6>1 DEF Same
        <5> QED
          BY <1>10, <3>2, <5>1, <5>2
      <4> QED
        BY <1>1, <4>1, <4>2 DEF Growing
    <3> HIDE DEF r
    <3>4. /\ Legal(Append(w.found, r)) /\ Append(w.found, r) \in Seq(Reports)
          /\ Append(w.found, r)[Len(Append(w.found, r))] = r
      BY <1>1, <3>2, <3>3, LegalAppend DEF Legal
    <3>5. v = [w EXCEPT !.maxLen = length, !.found = Append(w.found, r)]
      BY <2>1 DEF r
    <3>6. v \in Walks
      BY <1>1, <1>10, <3>4, <3>5 DEF Walks, Reports
    <3>7. /\ v.found = Append(w.found, r) /\ v.maxLen = length
          /\ v.son = w.son /\ v.cur = w.cur /\ v.done = w.done
          /\ v.ptr0 = w.ptr0 /\ v.ptr1 = w.ptr1 /\ v.len0 = w.len0 /\ v.len1 = w.len1
      BY <1>1, <3>5 DEF Walks
    <3> HIDE DEF v
    <3>8. ~ends => v.maxLen < LenLimit
      BY <1>3, <1>10, <2>1, <3>7
    <3> QED
      BY <1>1, <1>10, <3>1, <3>2, <3>4, <3>6, <3>7, <3>8
  <2>2. CASE ~longer
    <3>1. v = w
      BY <2>2
    <3>2. ~RootAhead(w)
      <4> SUFFICES ASSUME RootAhead(w) PROVE FALSE
        OBVIOUS
      <4>1. Same(input, c, at, 3) /\ start = 0 /\ w.maxLen = 1
        BY DEF RootAhead, c, start, Least
      <4>2. length >= 3
        <5> SUFFICES ASSUME length < 3 PROVE FALSE
          BY <1>10
        <5>1. length \in 0..(3 - 1) /\ length # LenLimit
          BY <1>3, <1>10
        <5> QED
          BY <1>6, <4>1, <5>1 DEF Same
      <4> QED
        BY <1>10, <2>2, <4>1, <4>2
    <3>3. w.found = << >> \/ w.found[Len(w.found)].len <= w.maxLen
      BY <1>1, <3>2 DEF Growing
    <3>4. w.maxLen \in 1..LenLimit /\ w.maxLen < LenLimit
      BY <1>1, <1>3
    <3> HIDE DEF v
    <3> QED
      BY <1>1, <3>1, <3>3, <3>4
  <2> QED
    BY <2>1, <2>2
<1>12. v.found \in Seq(Reports)
  BY <1>11 DEF Legal
<1> HIDE DEF v
<1>13. CASE ends
  <2>1. Turn(w) = Replace(v, node)
    BY <1>9, <1>13
  <2> DEFINE links == [[v.son EXCEPT ![v.ptr1] = v.son[node]] EXCEPT ![v.ptr0] = v.son[node + 1]]
             u == [v EXCEPT !.son = links, !.done = TRUE]
  <2>2. Replace(v, node) = u
    BY DEF Replace
  <2>3. links \in [0..(2 * CyclicSize - 1) -> 0..(pos - 1)]
    BY <1>2, <1>7, <1>11
  <2>4. \A i \in 0..(2 * CyclicSize - 1) :
          links[i] = IF i = w.ptr0 THEN w.son[node + 1]
                     ELSE IF i = w.ptr1 THEN w.son[node] ELSE w.son[i]
    BY <1>2, <1>11
  <2> HIDE DEF links
  <2>5. u \in Walks /\ u.son = links /\ u.done = TRUE /\ u.found = v.found
    BY <1>11, <2>3 DEF Walks
  <2>6. InOrder(links, Nodes, at + 1)
    <3>1. Same(input, PlaceOf(w.cur), at, LenLimit)
      BY <1>6, <1>13 DEF c
    <3> QED
      BY <1>1, <2>4, <3>1, Replaces DEF node
  <2> HIDE DEF u
  <2> QED
    BY <1>11, <2>1, <2>2, <2>5, <2>6 DEF WalkOk
<1>14. CASE ~ends
  <2>1. length < LenLimit
    <3> SUFFICES ASSUME length = LenLimit PROVE FALSE
      BY <1>3, <1>10
    <3> QED
      BY <1>1, <1>3, <1>5, <1>14
  <2>2. length \in 0..(LenLimit - 1) /\ input[c + 1 + length] # input[at + 1 + length]
    BY <1>3, <1>6, <1>10, <2>1
  <2>3. input[c + 1 + length] \in Int /\ input[at + 1 + length] \in Int
    <3>1. Bytes(input, c, LenLimit) /\ Bytes(input, at, LenLimit)
      BY <1>3, <1>4, BytesHere
    <3> QED
      BY <2>2, <3>1 DEF Bytes
  <2>4. ASSUME NEW s \in Sides, NEW u \in Walks, Differs(s, input, c, at, length),
               u.son = [w.son EXCEPT ![Ptr(w, s)] = w.cur],
               Ptr(u, s) = node + (1 - s), Ptr(u, 1 - s) = Ptr(w, 1 - s),
               LenAt(u, s) = length, LenAt(u, 1 - s) = LenAt(w, 1 - s),
               u.cur = w.son[node + (1 - s)], u.maxLen = v.maxLen, u.found = v.found, ~u.done
        PROVE  WalkOk(u)
    <3>1. Descending(u)
      BY <1>1, <2>2, <2>4, TurnDescends DEF c, node
    <3>2. u.maxLen \in 1..(LenLimit - 1)
      BY <1>3, <1>11, <1>14, <2>4
    <3>3. Growing(u)
      BY <1>11, <2>4 DEF Growing
    <3> QED
      BY <1>11, <2>4, <3>1, <3>2, <3>3 DEF WalkOk, GoesOn
  <2>5. CASE less
    <3>1. Turn(w) = right
      BY <1>9, <1>14, <2>5
    <3>2. Differs(0, input, c, at, length)
      BY <1>6, <1>8, <2>5 DEF Differs
    <3> DEFINE links == [w.son EXCEPT ![w.ptr1] = w.cur]
               next == w.son[node + 1]
    <3>3. links \in [0..(2 * CyclicSize - 1) -> 0..(pos - 1)] /\ next \in 0..(pos - 1)
      BY <1>2, <1>7
    <3>4. right = [v EXCEPT !.son = links, !.ptr1 = node + 1, !.cur = next, !.len1 = length]
      BY <1>11
    <3> HIDE DEF links, next
    <3> DEFINE p == node + 1
    <3>a. p \in Int /\ length \in Int /\ v \in Walks
      BY <1>7, <1>10, <1>11
    <3>b. right = [v EXCEPT !.son = links, !.ptr1 = p, !.cur = next, !.len1 = length]
      BY <3>4
    <3> HIDE DEF right, p
    <3>c. right \in Walks
      BY <3>a, <3>b, <3>3 DEF Walks
    <3>d. /\ right.son = links /\ right.ptr1 = p /\ right.ptr0 = v.ptr0
          /\ right.len1 = length /\ right.len0 = v.len0 /\ right.cur = next
          /\ right.maxLen = v.maxLen /\ right.found = v.found /\ right.done = v.done
      BY <3>a, <3>b DEF Walks
    <3>5. /\ right \in Walks /\ right.son = links /\ right.ptr1 = node + 1 /\ right.ptr0 = v.ptr0
          /\ right.len1 = length /\ right.len0 = v.len0 /\ right.cur = next
          /\ right.maxLen = v.maxLen /\ right.found = v.found /\ right.done = v.done
      BY <3>c, <3>d DEF p
    <3>6. /\ 0 \in Sides /\ Ptr(right, 0) = node + (1 - 0) /\ Ptr(right, 1 - 0) = Ptr(w, 1 - 0)
          /\ LenAt(right, 0) = length /\ LenAt(right, 1 - 0) = LenAt(w, 1 - 0)
          /\ right.cur = w.son[node + (1 - 0)] /\ right.son = [w.son EXCEPT ![Ptr(w, 0)] = w.cur]
      BY <1>7, <1>11, <3>5 DEF Ptr, LenAt, Sides, links, next
    <3> QED
      BY <1>11, <2>4, <3>1, <3>2, <3>5, <3>6
  <2>6. CASE ~less
    <3>1. Turn(w) = left
      BY <1>9, <1>14, <2>6
    <3>2. Differs(1, input, c, at, length)
      BY <1>6, <1>8, <2>2, <2>3, <2>6 DEF Differs
    <3> DEFINE links == [w.son EXCEPT ![w.ptr0] = w.cur]
               next == w.son[node]
    <3>3. links \in [0..(2 * CyclicSize - 1) -> 0..(pos - 1)] /\ next \in 0..(pos - 1)
      BY <1>2, <1>7
    <3>4. left = [v EXCEPT !.son = links, !.ptr0 = node, !.cur = next, !.len0 = length]
      BY <1>11
    <3> HIDE DEF links, next
    <3> DEFINE p == node
    <3>a. p \in Int /\ length \in Int /\ v \in Walks
      BY <1>7, <1>10, <1>11
    <3>b. left = [v EXCEPT !.son = links, !.ptr0 = p, !.cur = next, !.len0 = length]
      BY <3>4
    <3> HIDE DEF left, p
    <3>c. left \in Walks
      BY <3>a, <3>b, <3>3 DEF Walks
    <3>d. /\ left.son = links /\ left.ptr0 = p /\ left.ptr1 = v.ptr1
          /\ left.len0 = length /\ left.len1 = v.len1 /\ left.cur = next
          /\ left.maxLen = v.maxLen /\ left.found = v.found /\ left.done = v.done
      BY <3>a, <3>b DEF Walks
    <3>5. /\ left \in Walks /\ left.son = links /\ left.ptr0 = node /\ left.ptr1 = v.ptr1
          /\ left.len0 = length /\ left.len1 = v.len1 /\ left.cur = next
          /\ left.maxLen = v.maxLen /\ left.found = v.found /\ left.done = v.done
      BY <3>c, <3>d DEF p
    <3>6. /\ 1 \in Sides /\ Ptr(left, 1) = node + (1 - 1) /\ Ptr(left, 1 - 1) = Ptr(w, 1 - 1)
          /\ LenAt(left, 1) = length /\ LenAt(left, 1 - 1) = LenAt(w, 1 - 1)
          /\ left.cur = w.son[node + (1 - 1)] /\ left.son = [w.son EXCEPT ![Ptr(w, 1)] = w.cur]
      BY <1>7, <1>11, <3>5 DEF Ptr, LenAt, Sides, links, next
    <3> QED
      BY <1>11, <2>4, <3>1, <3>2, <3>5, <3>6
  <2> QED
    BY <2>5, <2>6
<1> QED
  BY <1>13, <1>14

LEMMA WalkEnds ==
  ASSUME InRange, Rest >= MinCheck, NEW first, WalkOk(first)
  PROVE  /\ Legal(Walk(first).found)
         /\ Walk(first).son \in [0..(2 * CyclicSize - 1) -> 0..(pos - 1)]
         /\ InOrder(Walk(first).son, Nodes, at + 1)
<1> DEFINE Rec(q) == [n \in 0..cutValue |-> IF n = 0 THEN first ELSE Visit(q[n - 1])]
           g == CHOOSE q : q = Rec(q)
           w == g[cutValue]
           links == [[w.son EXCEPT ![w.ptr1] = Empty] EXCEPT ![w.ptr0] = Empty]
           S == {x \in Walks : WalkOk(x)}
<1>0. cutValue \in Nat /\ cutValue \in 0..cutValue /\ 0 \in 0..cutValue
  BY DEF InRange
<1>1. \A x \in S : Visit(x) \in S
  <2> SUFFICES ASSUME NEW x \in S PROVE Visit(x) \in S
    OBVIOUS
  <2>1. WalkOk(x)
    OBVIOUS
  <2>2. CASE x.done \/ x.cur <= MatchMinPos
    BY <2>2 DEF Visit
  <2>3. CASE ~(x.done \/ x.cur <= MatchMinPos)
    <3>1. Near(x.cur)
      <4>1. x.cur \in 0..(pos - 1) /\ ~(x.cur <= MatchMinPos)
        BY <2>1, <2>3 DEF WalkOk, Walks
      <4>2. MatchMinPos \in Int /\ pos \in Int
        BY Sizes DEF MatchMinPos, InRange
      <4> QED
        BY <4>1, <4>2 DEF Near
    <3>2. WalkOk(Turn(x))
      BY <2>1, <2>3, <3>1, TurnOk
    <3>3. Visit(x) = Turn(x)
      BY <2>3 DEF Visit
    <3> QED
      BY <3>2, <3>3 DEF WalkOk
  <2> QED
    BY <2>2, <2>3
<1>2. first \in S
  BY DEF WalkOk
<1> HIDE DEF S
<1>3. \E q : q = Rec(q)
  <2> DEFINE Run(q, n) == q[0] = first /\ \A k \in 1..n : q[k] = Visit(q[k - 1])
             T == {i \in 0..cutValue : \E q \in [0..i -> S] : Run(q, i)}
  <2>1. 0 \in T
    <3>1. [k \in 0..0 |-> first] \in [0..0 -> S] /\ Run([k \in 0..0 |-> first], 0)
      BY <1>2
    <3> QED
      BY <1>0, <3>1
  <2>2. ASSUME NEW i \in 1..cutValue, i - 1 \in T PROVE i \in T
    <3>1. PICK q \in [0..(i - 1) -> S] : Run(q, i - 1)
      BY <2>2
    <3> DEFINE last == Visit(q[i - 1])
               r == [k \in 0..i |-> IF k = i THEN last ELSE q[k]]
    <3>2. i \in Nat /\ i \in 0..cutValue /\ i \in 0..i /\ 0 \in 0..(i - 1) /\ i - 1 \in 0..(i - 1)
      BY <1>0
    <3>3. last \in S
      BY <1>1, <3>1, <3>2
    <3>4. \A k \in 0..i : k = i \/ k \in 0..(i - 1)
      BY <3>2
    <3> HIDE DEF last
    <3>5. r \in [0..i -> S]
      BY <3>1, <3>3, <3>4
    <3>6. r[i] = last /\ \A k \in 0..(i - 1) : r[k] = q[k]
      BY <3>2
    <3> HIDE DEF r
    <3>7. \A k \in 1..i : r[k] = Visit(r[k - 1])
      <4> TAKE k \in 1..i
      <4>1. k - 1 \in 0..(i - 1) /\ r[k - 1] = q[k - 1]
        BY <3>2, <3>6
      <4>2. CASE k = i
        BY <3>6, <4>1, <4>2 DEF last
      <4>3. CASE k # i
        <5>1. k \in 1..(i - 1) /\ k \in 0..(i - 1)
          BY <3>2, <4>3
        <5> QED
          BY <3>1, <3>6, <4>1, <5>1
      <4> QED
        BY <4>2, <4>3
    <3>8. r[0] = first
      BY <3>1, <3>2, <3>6
    <3>9. Run(r, i)
      BY <3>7, <3>8
    <3> QED
      BY <3>2, <3>5, <3>9
  <2>3. cutValue \in T
    <3>1. 0..cutValue \subseteq T
      <4> HIDE DEF T
      <4> QED
        BY <1>0, <2>1, <2>2, UpTo
    <3> HIDE DEF T
    <3> QED
      BY <1>0, <3>1
  <2>4. PICK q \in [0..cutValue -> S] : Run(q, cutValue)
    BY <2>3
  <2>5. \A n \in 0..cutValue : q[n] = IF n = 0 THEN first ELSE Visit(q[n - 1])
    <3> TAKE n \in 0..cutValue
    <3>1. n = 0 \/ n \in 1..cutValue
      BY <1>0
    <3> QED
      BY <2>4, <3>1
  <2>6. q = Rec(q)
    BY <2>5
  <2> QED
    BY <2>6
<1>4. g = Rec(g)
  BY <1>3
<1> HIDE DEF g
<1>5. \A n \in 0..cutValue : g[n] = IF n = 0 THEN first ELSE Visit(g[n - 1])
  BY <1>4
<1>6. w \in S
  <2> DEFINE T == {i \in 0..cutValue : g[i] \in S}
  <2>1. 0 \in T
    BY <1>0, <1>2, <1>5
  <2>2. \A i \in 1..cutValue : i - 1 \in T => i \in T
    <3> SUFFICES ASSUME NEW i \in 1..cutValue, i - 1 \in T PROVE i \in T
      OBVIOUS
    <3>1. i \in 0..cutValue /\ i # 0 /\ g[i - 1] \in S
      BY <1>0
    <3> QED
      BY <1>1, <1>5, <3>1
  <2>3. 0..cutValue \subseteq T
    <3> HIDE DEF T
    <3> QED
      BY <1>0, <2>1, <2>2, UpTo
  <2> QED
    BY <1>0, <2>3
<1>7. Walk(first) = IF w.done THEN w ELSE [w EXCEPT !.son[w.ptr1] = Empty, !.son[w.ptr0] = Empty]
  BY DEF Walk, g
<1> HIDE DEF w
<1>8. w \in Walks /\ WalkOk(w) /\ w.done \in BOOLEAN
      /\ w.son \in [0..(2 * CyclicSize - 1) -> 0..(pos - 1)]
  BY <1>6 DEF S, Walks
<1>9. CASE w.done
  BY <1>7, <1>8, <1>9 DEF WalkOk
<1>10. CASE ~w.done
  <2>1. Walk(first) = [w EXCEPT !.son = links]
    BY <1>7, <1>10
  <2>2. links \in [0..(2 * CyclicSize - 1) -> 0..(pos - 1)]
    <3>1. Empty \in 0..(pos - 1)
      BY Sizes DEF Empty, InRange
    <3>2. \A A, B, f, i, e : f \in [A -> B] /\ e \in B => [f EXCEPT ![i] = e] \in [A -> B]
      OBVIOUS
    <3> QED
      BY ONLY <1>8, <3>1, <3>2 DEF links
  <2>3. \A i \in 0..(2 * CyclicSize - 1) :
          links[i] = IF i = w.ptr0 \/ i = w.ptr1 THEN Empty ELSE w.son[i]
    BY <1>8
  <2> HIDE DEF links
  <2>4. Descending(w)
    BY <1>8, <1>10 DEF WalkOk, GoesOn
  <2>5. InOrder(links, Nodes, at + 1)
    BY <1>8, <2>3, <2>4, CutShort
  <2>6. Walk(first).son = links /\ Walk(first).found = w.found
    BY <1>8, <2>1 DEF Walks
  <2> QED
    BY <1>8, <2>2, <2>5, <2>6 DEF WalkOk
<1> QED
  BY <1>9, <1>10
-----------------------------------------------------------------------------
(***************************************************************************)
(* Before the walk. What the tables remember has the hash it is kept under.*)
(***************************************************************************)
Hash2Of(c) == Mix2(input[c + 1], input[c + 2]) % Hash2Size
Hash3Of(c) == Mix3(input[c + 1], input[c + 2], input[c + 3]) % Hash3Size

Remembers(heads) ==
  /\ \A i \in 0..(Hash2Size - 1) : Near(heads[i]) => Hash2Of(PlaceOf(heads[i])) = i
  /\ \A i \in 0..(Hash3Size - 1) :
       Near(heads[Hash2Size + i]) => Hash3Of(PlaceOf(heads[Hash2Size + i])) = i

\* Once fewer than four bytes are left nothing is inserted, and nothing looked up.
TreesInOrder == Rest >= MinCheck => InOrder(son, Window, at)
HeadsKnown   == Rest >= MinCheck => Remembers(hash)

IInv == InRange /\ TreesInOrder /\ HeadsKnown

LEMMA HashSizes ==
  /\ Hash2Size \in Nat /\ Hash2Size > 0 /\ Hash3Size \in Nat /\ Hash3Size > 0
  /\ Hash4Size \in Nat /\ Hash4Size > 0
  /\ HashSizeSum = Hash2Size + Hash3Size + Hash4Size /\ FixHashSize = Hash2Size + Hash3Size
BY BinTreeAssumption DEF HashSizeSum, FixHashSize

LEMMA FourBytes ==
  ASSUME InRange, Rest >= MinCheck, NEW c \in Nat, c <= at
  PROVE  /\ input[c + 1] \in Byte /\ input[c + 2] \in Byte
         /\ input[c + 3] \in Byte /\ input[c + 4] \in Byte
<1>1. c + 1 \in 1..Len(input) /\ c + 2 \in 1..Len(input) /\ c + 3 \in 1..Len(input) /\ c + 4 \in 1..Len(input)
  BY Sizes DEF InRange, Rest
<1> QED
  BY <1>1 DEF InRange

LEMMA HashesAre ==
  ASSUME InRange, Rest >= MinCheck
  PROVE  /\ Hash2At \in 0..(Hash2Size - 1) /\ Hash2At = Hash2Of(at)
         /\ Hash3At - Hash2Size \in 0..(Hash3Size - 1) /\ Hash3At \in Int
         /\ Hash3At - Hash2Size = Hash3Of(at)
         /\ Hash4At \in FixHashSize..(HashSizeSum - 1)
         /\ Hash2At \in 0..(HashSizeSum - 1) /\ Hash3At \in 0..(HashSizeSum - 1)
         /\ Hash4At \in 0..(HashSizeSum - 1)
<1> DEFINE b1 == ByteAt(pos, 0)
           b2 == ByteAt(pos, 1)
           b3 == ByteAt(pos, 2)
           b4 == ByteAt(pos, 3)
<1>1. pos \in Int /\ at \in Nat /\ at + 1 + 0 = at + 1 /\ at + 1 + 1 = at + 2 /\ at + 1 + 2 = at + 3
      /\ at + 1 + 3 = at + 4
  BY Sizes DEF InRange
<1>2. b1 = input[at + 1] /\ b2 = input[at + 2] /\ b3 = input[at + 3] /\ b4 = input[at + 4]
  BY <1>1, ByteIs
<1>3. b1 \in Byte /\ b2 \in Byte /\ b3 \in Byte /\ b4 \in Byte
  BY <1>1, <1>2, FourBytes
<1> HIDE DEF b1, b2, b3, b4
<1>4. Mix2(b1, b2) \in Nat /\ Mix3(b1, b2, b3) \in Nat /\ Mix4(b1, b2, b3, b4) \in Nat
  BY <1>3, HashAssumption
<1>5. \A x \in Nat, n \in Nat : n > 0 => x % n \in 0..(n - 1)
  OBVIOUS
<1>6. /\ Hash2At = Mix2(b1, b2) % Hash2Size
      /\ Hash3At = Hash2Size + (Mix3(b1, b2, b3) % Hash3Size)
      /\ Hash4At = FixHashSize + (Mix4(b1, b2, b3, b4) % Hash4Size)
  BY DEF Hash2At, Hash3At, Hash4At, b1, b2, b3, b4
<1> DEFINE m2 == Mix2(b1, b2) % Hash2Size
           m3 == Mix3(b1, b2, b3) % Hash3Size
           m4 == Mix4(b1, b2, b3, b4) % Hash4Size
<1>7. m2 \in 0..(Hash2Size - 1) /\ m3 \in 0..(Hash3Size - 1) /\ m4 \in 0..(Hash4Size - 1)
  BY <1>4, <1>5, HashSizes
<1>8. m2 = Hash2Of(at) /\ m3 = Hash3Of(at)
  BY <1>2 DEF Hash2Of, Hash3Of
<1>9. Hash2At = m2 /\ Hash3At = Hash2Size + m3 /\ Hash4At = FixHashSize + m4
  BY <1>6
<1> HIDE DEF m2, m3, m4
<1>10. Hash3At - Hash2Size = m3
  BY <1>7, <1>9, HashSizes
<1> QED
  BY <1>7, <1>8, <1>9, <1>10, HashSizes

\* What a table of two or three bytes remembers and whose first byte is right is
\* right.
LEMMA Hits ==
  ASSUME InRange, Rest >= MinCheck, Remembers(hash)
  PROVE  /\ hash[Hash2At] \in 0..(pos - 1) /\ hash[Hash3At] \in 0..(pos - 1)
         /\ hash[Hash4At] \in 0..(pos - 1)
         /\ Hit(hash[Hash2At]) =>
              Near(hash[Hash2At]) /\ Same(input, PlaceOf(hash[Hash2At]), at, 2)
         /\ Hit(hash[Hash3At]) =>
              Near(hash[Hash3At]) /\ Same(input, PlaceOf(hash[Hash3At]), at, 3)
<1>1. hash[Hash2At] \in 0..(pos - 1) /\ hash[Hash3At] \in 0..(pos - 1) /\ hash[Hash4At] \in 0..(pos - 1)
  BY HashesAre DEF InRange
<1>2. ASSUME NEW p \in 0..(pos - 1), Hit(p)
      PROVE  /\ Near(p) /\ PlaceOf(p) \in Nat /\ PlaceOf(p) <= at /\ at \in Nat
             /\ input[PlaceOf(p) + 1] = input[at + 1]
  <2>1. Near(p)
    BY <1>2 DEF Hit, Near
  <2>2. PlaceOf(p) \in Nat /\ PlaceOf(p) < at /\ at \in Nat
    BY <2>1, NearPlace DEF Window, InRange
  <2>3. ByteAt(p, 0) = input[PlaceOf(p) + 1 + 0] /\ ByteAt(pos, 0) = input[at + 1 + 0] /\ p \in Int
    BY ByteIs
  <2>4. PlaceOf(p) + 1 + 0 = PlaceOf(p) + 1 /\ at + 1 + 0 = at + 1
    BY <2>2
  <2> QED
    BY <1>2, <2>1, <2>2, <2>3, <2>4 DEF Hit
<1>3. ASSUME Hit(hash[Hash2At])
      PROVE  Near(hash[Hash2At]) /\ Same(input, PlaceOf(hash[Hash2At]), at, 2)
  <2> DEFINE c == PlaceOf(hash[Hash2At])
  <2>1. Near(hash[Hash2At]) /\ c \in Nat /\ c <= at /\ at \in Nat /\ input[c + 1] = input[at + 1]
    BY <1>1, <1>2, <1>3
  <2>2. Hash2Of(c) = Hash2Of(at)
    BY <2>1, HashesAre DEF Remembers
  <2> HIDE DEF c
  <2>3. /\ input[c + 1] \in Byte /\ input[c + 2] \in Byte /\ input[c + 3] \in Byte
        /\ input[at + 1] \in Byte /\ input[at + 2] \in Byte /\ input[at + 3] \in Byte
    BY <2>1, FourBytes
  <2>4. input[c + 2] = input[at + 2]
    BY <2>1, <2>2, <2>3, HashAssumption DEF Hash2Of
  <2>5. \A i \in 0..(2 - 1) : c + 1 + i \in {c + 1, c + 2} /\ (i = 0 \/ i = 1)
    BY <2>1
  <2>6. c + 1 + 0 = c + 1 /\ c + 1 + 1 = c + 2 /\ at + 1 + 0 = at + 1 /\ at + 1 + 1 = at + 2
    BY <2>1
  <2>7. Same(input, c, at, 2)
    BY <2>1, <2>4, <2>5, <2>6 DEF Same
  <2> QED
    BY <2>1, <2>7 DEF c
<1>4. ASSUME Hit(hash[Hash3At])
      PROVE  Near(hash[Hash3At]) /\ Same(input, PlaceOf(hash[Hash3At]), at, 3)
  <2> DEFINE c == PlaceOf(hash[Hash3At])
  <2>1. Near(hash[Hash3At]) /\ c \in Nat /\ c <= at /\ at \in Nat /\ input[c + 1] = input[at + 1]
    BY <1>1, <1>2, <1>4
  <2>2. Hash3Of(c) = Hash3Of(at)
    <3>1. Hash3At - Hash2Size \in 0..(Hash3Size - 1) /\ Hash2Size + (Hash3At - Hash2Size) = Hash3At
      BY HashesAre, HashSizes
    <3> QED
      BY <2>1, <3>1, HashesAre DEF Remembers
  <2> HIDE DEF c
  <2>3. /\ input[c + 1] \in Byte /\ input[c + 2] \in Byte /\ input[c + 3] \in Byte
        /\ input[at + 1] \in Byte /\ input[at + 2] \in Byte /\ input[at + 3] \in Byte
    BY <2>1, FourBytes
  <2>4. input[c + 2] = input[at + 2] /\ input[c + 3] = input[at + 3]
    BY <2>1, <2>2, <2>3, HashAssumption DEF Hash3Of
  <2>5. \A i \in 0..(3 - 1) : i = 0 \/ i = 1 \/ i = 2
    OBVIOUS
  <2>6. /\ c + 1 + 0 = c + 1 /\ c + 1 + 1 = c + 2 /\ c + 1 + 2 = c + 3
        /\ at + 1 + 0 = at + 1 /\ at + 1 + 1 = at + 2 /\ at + 1 + 2 = at + 3
    BY <2>1
  <2>7. Same(input, c, at, 3)
    BY <2>1, <2>4, <2>5, <2>6 DEF Same
  <2> QED
    BY <2>1, <2>7 DEF c
<1> QED
  BY <1>1, <1>3, <1>4


\* One report more.
LEMMA OneMore ==
  ASSUME NEW f, Legal(f), NEW r, Real(r), f = << >> \/ f[Len(f)].len < r.len
  PROVE  /\ Legal(f \o <<r>>) /\ f \o <<r>> # << >>
         /\ Front(f \o <<r>>) = f /\ Last(f \o <<r>>) = r
         /\ (f \o <<r>>)[Len(f \o <<r>>)] = r
<1>1. f \in Seq(Reports) /\ r \in Reports /\ Len(f) \in Nat
  BY DEF Legal, Real
<1>2. f \o <<r>> = Append(f, r)
  BY <1>1
<1> DEFINE g == Append(f, r)
<1>3. Legal(g) /\ g # << >> /\ g[Len(g)] = r
  BY LegalAppend
<1>4. Front(g) = f
  <2>1. Len(g) = Len(f) + 1 /\ \A i \in 1..Len(f) : g[i] = f[i]
    BY <1>1
  <2>2. g \in Seq(Reports) /\ Len(g) - 1 = Len(f)
    BY <1>1, <2>1
  <2> HIDE DEF g
  <2>3. /\ SubSeq(g, 1, Len(f)) \in Seq(Reports) /\ Len(SubSeq(g, 1, Len(f))) = Len(f)
        /\ \A i \in 1..Len(f) : SubSeq(g, 1, Len(f))[i] = g[i]
    BY <1>1, <2>1, <2>2
  <2>4. SubSeq(g, 1, Len(f)) = f
    BY <1>1, <2>1, <2>3, SeqEqual
  <2> QED
    BY <2>2, <2>4 DEF Front
<1> QED
  BY <1>2, <1>3, <1>4 DEF Last

\* What the walk begins with.
Begins(short) ==
  /\ Legal(short.found) /\ short.maxLen \in 1..3
  /\ \/ short.found = << >>
     \/ short.found[Len(short.found)].len <= short.maxLen
     \/ /\ short.maxLen = 1 /\ short.found[Len(short.found)].len = 2
        /\ Near(hash[Hash4At]) /\ Same(input, PlaceOf(hash[Hash4At]), at, 3)

LEMMA ShortMatchesBegin ==
  ASSUME InRange, Rest >= MinCheck, Remembers(hash)
  PROVE  Begins(ShortMatches)
<1> DEFINE cur2 == hash[Hash2At]
           cur3 == hash[Hash3At]
           root == hash[Hash4At]
           r2   == Report(2, cur2)
           r3   == Report(3, cur3)
           two  == IF Hit(cur2) THEN <<r2>> ELSE << >>
           pre  == IF cur3 = cur2 THEN << >> ELSE two
           both == IF ~Hit(cur3) THEN two ELSE pre \o <<r3>>
           last == IF Hit(cur3) THEN cur3 ELSE cur2
<1>1. ShortMatches = IF both = << >> THEN [found |-> both, maxLen |-> StartMaxLen]
                     ELSE IF last = root THEN [found |-> Front(both), maxLen |-> StartMaxLen]
                     ELSE [found |-> both, maxLen |-> Last(both).len]
  BY DEF ShortMatches
<1>2. StartMaxLen = 1
  BY DEF StartMaxLen
<1>3. 2 \in 2..LenLimit /\ 3 \in 2..LenLimit
  BY LimitIs
<1>4. cur2 \in 0..(pos - 1) /\ cur3 \in 0..(pos - 1)
      /\ (Hit(cur2) => Near(cur2) /\ Same(input, PlaceOf(cur2), at, 2))
      /\ (Hit(cur3) => Near(cur3) /\ Same(input, PlaceOf(cur3), at, 3))
  BY Hits
<1> HIDE DEF cur2, cur3, root
<1>5. Hit(cur2) => Real(r2) /\ r2.len = 2
  BY <1>3, <1>4, ReportIsReal
<1>6. Hit(cur3) => Real(r3) /\ r3.len = 3
  BY <1>3, <1>4, ReportIsReal
<1> HIDE DEF r2, r3
<1>7. Legal(<< >>)
  BY LegalEmpty
<1>8. Hit(cur2) => /\ Legal(<<r2>>) /\ <<r2>> # << >> /\ Front(<<r2>>) = << >> /\ Last(<<r2>>) = r2
                   /\ <<r2>>[Len(<<r2>>)] = r2
  <2>1. << >> \o <<r2>> = <<r2>>
    OBVIOUS
  <2> QED
    BY ZenonT(40), <1>5, <1>7, <2>1, OneMore
<1>9. CASE Hit(cur3)
  <2>1. Legal(pre) /\ (pre = << >> \/ pre[Len(pre)].len = 2)
    BY <1>5, <1>7, <1>8
  <2> HIDE DEF pre
  <2>2. /\ Legal(pre \o <<r3>>) /\ pre \o <<r3>> # << >> /\ Front(pre \o <<r3>>) = pre
        /\ Last(pre \o <<r3>>) = r3 /\ (pre \o <<r3>>)[Len(pre \o <<r3>>)] = r3
    BY <1>6, <1>9, <2>1, OneMore
  <2>3. both = pre \o <<r3>> /\ last = cur3
    BY <1>9
  <2> HIDE DEF both, last
  <2>4. CASE last = root
    <3>1. ShortMatches.found = pre /\ ShortMatches.maxLen = 1
      BY <1>1, <1>2, <2>2, <2>3, <2>4
    <3>2. Near(root) /\ Same(input, PlaceOf(root), at, 3)
      BY <1>4, <1>9, <2>3, <2>4
    <3> QED
      BY <2>1, <3>1, <3>2 DEF Begins, root
  <2>5. CASE last # root
    <3>1. ShortMatches.found = both /\ ShortMatches.maxLen = 3
      BY <1>1, <1>6, <1>9, <2>2, <2>3, <2>5
    <3>2. both[Len(both)].len = 3
      BY <1>6, <1>9, <2>2, <2>3
    <3> QED
      BY <2>2, <2>3, <3>1, <3>2 DEF Begins
  <2> QED
    BY <2>4, <2>5
<1>10. CASE ~Hit(cur3) /\ Hit(cur2)
  <2>1. both = <<r2>> /\ last = cur2
    BY <1>10
  <2> HIDE DEF both, last
  <2>2. CASE last = root
    <3>1. ShortMatches.found = << >> /\ ShortMatches.maxLen = 1
      BY <1>1, <1>2, <1>8, <1>10, <2>1, <2>2
    <3> QED
      BY <1>7, <3>1 DEF Begins
  <2>3. CASE last # root
    <3>1. ShortMatches.found = both /\ ShortMatches.maxLen = 2
      BY <1>1, <1>5, <1>8, <1>10, <2>1, <2>3
    <3>2. both[Len(both)].len = 2
      BY <1>5, <1>8, <1>10, <2>1
    <3> QED
      BY <1>8, <1>10, <2>1, <3>1, <3>2 DEF Begins
  <2> QED
    BY <2>2, <2>3
<1>11. CASE ~Hit(cur3) /\ ~Hit(cur2)
  <2>1. both = << >>
    BY <1>11
  <2> HIDE DEF both, last
  <2>2. ShortMatches.found = << >> /\ ShortMatches.maxLen = 1
    BY <1>1, <1>2, <2>1
  <2> QED
    BY <1>7, <2>2 DEF Begins
<1> QED
  BY <1>9, <1>10, <1>11


\* At the start of a walk the new place is the root: both its links are open.
LEMMA RootOpens ==
  ASSUME InRange, Rest >= MinCheck, InOrder(son, Window, at), NEW first \in Walks,
         first.cur = hash[Hash4At], first.son = son,
         first.ptr1 = Slot(at) + 0, first.ptr0 = Slot(at) + 1, first.len0 = 0, first.len1 = 0
  PROVE  Descending(first)
<1>1. PICK Sub \in Subs : Ordered(Sub, at) /\ \A c \in Window, s \in Sides : Linked(son, Sub, c, s)
  BY DEF InOrder
<1> DEFINE Side(s) == {y \in Nat : y < at /\ OnSide(s, input, y, at, LenLimit)}
           Root == [s \in Sides |-> Side(s)]
           Sub2 == [d \in Nat |-> IF d = at THEN Root ELSE Sub[d]]
           h == [s \in Sides |-> at]
           t == [s \in Sides |-> s]
           Cand == {y \in Nat : y < at}
<1>2. at \in Nat /\ LenLimit \in Nat /\ LenLimit >= 4
  BY LimitIs DEF InRange
<1>3. at \in Nodes /\ Window \subseteq Nodes /\ \A c \in Nodes : c \in Nat /\ (c = at \/ c \in Window)
  BY <1>2, Sizes DEF Nodes, Window
<1>4. Root \in [Sides -> SUBSET Nat] /\ \A s \in Sides : Root[s] = Side(s)
  OBVIOUS
<1> HIDE DEF Root
<1>5. \A d \in Nat : Sub[d] \in [Sides -> SUBSET Nat]
  BY DEF Subs
<1>6. Sub2 \in Subs /\ Sub2[at] = Root /\ \A d \in Nat : d # at => Sub2[d] = Sub[d]
  BY <1>2, <1>4, <1>5 DEF Subs
<1>7. /\ h \in [Sides -> Nat] /\ t \in [Sides -> Sides] /\ Cand \in SUBSET Nat
      /\ \A s \in Sides : h[s] = at /\ t[s] = s
  BY <1>2
<1> HIDE DEF Sub2, h, t
<1>8. Ordered(Sub2, at + 1)
  <2> SUFFICES ASSUME NEW c \in Nat, NEW s \in Sides, c < at + 1, NEW y \in Sub2[c][s]
               PROVE  y < c /\ OnSide(s, input, y, c, LenLimit)
    BY DEF Ordered
  <2>1. CASE c = at
    BY <1>4, <1>6, <2>1
  <2>2. CASE c # at
    <3>1. c < at /\ y \in Sub[c][s]
      BY <1>2, <1>6, <2>2
    <3> QED
      BY <1>1, <3>1 DEF Ordered
  <2> QED
    BY <2>1, <2>2
<1>9. \A s \in Sides : Ptr(first, s) = Slot(at) + s /\ LenAt(first, s) = 0
  BY DEF Ptr, LenAt, Sides
<1>10. Open(first, h, t)
  <2>1. 0 \in Sides /\ 1 \in Sides /\ Slot(at) \in Int
    BY <1>3, SlotIs DEF Sides
  <2>2. Ptr(first, 0) # Ptr(first, 1)
    BY <1>9, <2>1
  <2>3. 0 \in 0..(LenLimit - 1)
    BY <1>2
  <2> QED
    BY <1>3, <1>7, <1>9, <2>2, <2>3 DEF Open
<1>11. ASSUME NEW p \in 0..(pos - 1), NEW S, Leads(Sub, p, S) PROVE Leads(Sub2, p, S)
  <2>1. Near(p) => PlaceOf(p) \in Nat /\ PlaceOf(p) # at
    BY NearPlace DEF Window
  <2>2. Near(p) => Sub2[PlaceOf(p)] = Sub[PlaceOf(p)]
    BY <1>6, <2>1
  <2> QED
    BY <1>11, <2>2 DEF Leads
<1>12. Linking(first, Sub2)
  <2> SUFFICES ASSUME NEW c \in Nodes, NEW s \in Sides,
                      Slot(c) + s # Ptr(first, 0), Slot(c) + s # Ptr(first, 1)
               PROVE  Linked(first.son, Sub2, c, s)
    BY DEF Linking
  <2>1. c # at
    BY <1>9 DEF Sides
  <2>2. c \in Window /\ Sub2[c] = Sub[c]
    BY <1>3, <1>6, <2>1
  <2>3. Leads(Sub, son[Slot(c) + s], Sub[c][s]) /\ son[Slot(c) + s] \in 0..(pos - 1)
    BY <1>1, <2>2, SlotIs DEF Linked, InRange
  <2> QED
    BY <1>11, <2>2, <2>3 DEF Linked
<1>13. Leads(Sub2, first.cur, Cand)
  <2> SUFFICES ASSUME Near(first.cur)
               PROVE  PlaceOf(first.cur) \in Cand /\ \A r \in Sides : Sub2[PlaceOf(first.cur)][r] \subseteq Cand
    BY DEF Leads
  <2> DEFINE c == PlaceOf(first.cur)
  <2>1. first.cur \in 0..(pos - 1)
    BY DEF Walks
  <2>2. c \in Nat /\ c < at
    BY <2>1, NearPlace DEF Window
  <2> HIDE DEF c
  <2>3. \A r \in Sides : Sub2[c][r] = Sub[c][r] /\ Sub[c][r] \in SUBSET Nat
    BY <1>2, <1>5, <1>6, <2>2
  <2>4. \A r \in Sides : \A y \in Sub[c][r] : y \in Nat /\ y < c
    BY <1>1, <2>2, <2>3 DEF Ordered
  <2>5. \A r \in Sides : \A y \in Sub[c][r] : y \in Cand
    BY <1>2, <2>2, <2>4
  <2> QED
    BY <2>2, <2>3, <2>5 DEF c
<1>14. Fitting(first, Sub2, h, t, Cand)
  <2> SUFFICES ASSUME NEW y \in Cand, NEW s \in Sides
               PROVE  /\ y \in Nat /\ y < h[s]
                      /\ OnSide(1 - s, input, y, at, LenAt(first, s))
                      /\ OnSide(s, input, y, at, LenLimit) => y \in Sub2[h[s]][t[s]]
    BY DEF Fitting
  <2>1. OnSide(1 - s, input, y, at, 0)
    BY DEF OnSide, NotAfter
  <2> QED
    BY <1>4, <1>6, <1>7, <1>9, <2>1
<1>15. Descends(first, Sub2, h, t, Cand)
  BY <1>8, <1>10, <1>12, <1>13, <1>14 DEF Descends
<1> QED
  BY <1>6, <1>7, <1>15 DEF Descending

LEMMA InsertedOk ==
  ASSUME IInv, Rest >= MinCheck, NEW short, Begins(short)
  PROVE  /\ Legal(Inserted(short).found)
         /\ Inserted(short).son \in [0..(2 * CyclicSize - 1) -> 0..(pos - 1)]
         /\ InOrder(Inserted(short).son, Nodes, at + 1)
<1> DEFINE first == [cur |-> hash[Hash4At], ptr0 |-> 2 * cyclicBufPos + 1, ptr1 |-> 2 * cyclicBufPos,
                     len0 |-> 0, len1 |-> 0, son |-> son, done |-> FALSE,
                     maxLen |-> short.maxLen, found |-> short.found]
<1>1. InRange /\ InOrder(son, Window, at) /\ Remembers(hash)
  BY DEF IInv, TreesInOrder, HeadsKnown
<1>2. Inserted(short) = Walk(first)
  BY DEF Inserted
<1>3. hash[Hash4At] \in 0..(pos - 1) /\ cyclicBufPos \in Int
      /\ son \in [0..(2 * CyclicSize - 1) -> 0..(pos - 1)]
  BY <1>1, Hits, Sizes DEF InRange
<1>4. Legal(short.found) /\ short.maxLen \in 1..3 /\ short.found \in Seq(Reports)
  BY DEF Begins, Legal
<1>5. first \in Walks
  BY <1>3, <1>4 DEF Walks, Reports
<1>6. /\ first.cur = hash[Hash4At] /\ first.son = son /\ first.len0 = 0 /\ first.len1 = 0
      /\ first.ptr1 = 2 * cyclicBufPos /\ first.ptr0 = 2 * cyclicBufPos + 1 /\ first.done = FALSE
      /\ first.maxLen = short.maxLen /\ first.found = short.found
  OBVIOUS
<1> HIDE DEF first
<1>7. Slot(at) = 2 * cyclicBufPos
  BY <1>1, Sizes DEF InRange, Slot
<1>8. Descending(first)
  <2>1. first.ptr1 = Slot(at) + 0 /\ first.ptr0 = Slot(at) + 1
    BY <1>3, <1>6, <1>7
  <2> QED
    BY <1>1, <1>5, <1>6, <2>1, RootOpens
<1>9. first.maxLen \in 1..(LenLimit - 1)
  BY <1>1, <1>4, <1>6, LimitIs
<1>10. Growing(first)
  BY <1>6 DEF Begins, Growing, RootAhead
<1>11. WalkOk(first)
  BY <1>4, <1>5, <1>6, <1>8, <1>9, <1>10 DEF WalkOk, GoesOn
<1> QED
  BY <1>1, <1>2, <1>11, WalkEnds

-----------------------------------------------------------------------------
(***************************************************************************)
(* movePos: positions and slots change, places do not.                     *)
(***************************************************************************)
Renumbered(p) == IF pos + 1 # MaxVal THEN p
                 ELSE IF p <= MaxVal - CyclicSize THEN Empty ELSE p - (MaxVal - CyclicSize)

LEMMA PositionsMove ==
  ASSUME InRange, NEW s, NEW h, MovePos(s, h), NEW p \in 0..pos, NEW q, q = Renumbered(p)
  PROVE  /\ q \in 0..(pos' - 1)
         /\ q > MatchMinPos' => p > MatchMinPos /\ at' + q - pos' = at + p - pos
<1>1. pos \in 1..(MaxVal - 1) /\ at \in Nat /\ at' = at + 1 /\ CyclicSize \in Nat /\ MaxVal \in Nat
      /\ MaxVal > CyclicSize /\ CyclicSize > 0
  BY Sizes DEF InRange, MovePos
<1>2. MatchMinPos' = IF pos' > CyclicSize THEN pos' - CyclicSize ELSE 0
  BY DEF MatchMinPos
<1>3. CASE pos + 1 # MaxVal
  BY <1>1, <1>2, <1>3 DEF MovePos, Renumbered, MatchMinPos
<1>4. CASE pos + 1 = MaxVal
  BY <1>1, <1>2, <1>4 DEF MovePos, Renumbered, MatchMinPos, Empty
<1> QED
  BY <1>3, <1>4

LEMMA SlotsMove ==
  ASSUME InRange, NEW s, NEW h, MovePos(s, h), NEW c \in Window'
  PROVE  c \in Nodes /\ Slot(c)' = Slot(c)
<1>1. c \in Nat /\ c < at + 1 /\ at + 1 - c <= DictSize /\ at' = at + 1 /\ at \in Nat
  BY DEF Window, MovePos, InRange
<1>2. c \in Nodes
  BY <1>1, Sizes DEF Nodes
<1>3. cyclicBufPos' = (IF cyclicBufPos + 1 < CyclicSize THEN cyclicBufPos + 1 ELSE 0)
      /\ cyclicBufPos \in 0..DictSize
  BY DEF MovePos, InRange
<1> DEFINE k  == IF at - c <= cyclicBufPos THEN cyclicBufPos - (at - c)
                 ELSE cyclicBufPos - (at - c) + CyclicSize
           k2 == IF at' - c <= cyclicBufPos' THEN cyclicBufPos' - (at' - c)
                 ELSE cyclicBufPos' - (at' - c) + CyclicSize
<1>4. k2 = k
  <2>1. DictSize \in Nat /\ CyclicSize = DictSize + 1
    BY Sizes
  <2>2. CASE cyclicBufPos + 1 < CyclicSize
    <3>1. cyclicBufPos' = cyclicBufPos + 1
      BY <1>3, <2>2
    <3>2. at' - c <= cyclicBufPos' <=> at - c <= cyclicBufPos
      BY <1>1, <1>3, <3>1
    <3>3. cyclicBufPos' - (at' - c) = cyclicBufPos - (at - c)
      BY <1>1, <1>3, <3>1
    <3> QED
      BY <3>2, <3>3
  <2>3. CASE ~(cyclicBufPos + 1 < CyclicSize)
    <3>1. cyclicBufPos' = 0 /\ cyclicBufPos = DictSize
      BY <1>3, <2>1, <2>3
    <3>2. ~(at' - c <= cyclicBufPos') /\ at - c <= cyclicBufPos
      BY <1>1, <2>1, <3>1
    <3>3. cyclicBufPos' - (at' - c) + CyclicSize = cyclicBufPos - (at - c)
      BY <1>1, <2>1, <3>1
    <3> QED
      BY <3>2, <3>3
  <2> QED
    BY <2>2, <2>3
<1>5. Slot(c) = 2 * k /\ Slot(c)' = 2 * k2
  BY DEF Slot
<1> QED
  BY <1>2, <1>4, <1>5

LEMMA RangeMoves ==
  ASSUME InRange, at < Len(input), NEW s \in [0..(2 * CyclicSize - 1) -> 0..(pos - 1)],
         NEW h \in [0..(HashSizeSum - 1) -> 0..pos], MovePos(s, h)
  PROVE  /\ InRange' /\ input' = input /\ at' = at + 1
         /\ \A i \in 0..(2 * CyclicSize - 1) : son'[i] = Renumbered(s[i])
         /\ \A i \in 0..(HashSizeSum - 1) : hash'[i] = Renumbered(h[i])
<1>1. input' = input /\ at' = at + 1 /\ cutValue' = cutValue
  BY DEF MovePos
<1>2. pos \in 1..(MaxVal - 1) /\ at \in 0..Len(input) /\ Len(input) \in Nat /\ pos <= at + 1
      /\ input \in Seq(Byte)
  BY DEF InRange
<1>3. pos' \in 1..(MaxVal - 1) /\ pos' <= at' + 1 /\ at' \in 0..Len(input')
  BY SMTT(30), <1>1, <1>2, Sizes DEF MovePos
<1>4. cyclicBufPos' \in 0..DictSize
  BY Sizes DEF MovePos, InRange
<1>5. /\ DOMAIN s = 0..(2 * CyclicSize - 1) /\ DOMAIN h = 0..(HashSizeSum - 1)
      /\ \A i \in DOMAIN s : s[i] \in 0..(pos - 1)
      /\ \A i \in DOMAIN h : h[i] \in 0..pos
  OBVIOUS
<1>6. /\ son' = [i \in DOMAIN s |-> Renumbered(s[i])]
      /\ hash' = [i \in DOMAIN h |-> Renumbered(h[i])]
  <2>1. CASE pos + 1 # MaxVal
    <3>1. son' = s /\ hash' = h
      BY <2>1 DEF MovePos
    <3>2. /\ s = [i \in DOMAIN s |-> Renumbered(s[i])]
          /\ h = [i \in DOMAIN h |-> Renumbered(h[i])]
      BY <2>1 DEF Renumbered
    <3> QED
      BY <3>1, <3>2
  <2>2. CASE pos + 1 = MaxVal
    BY <2>2 DEF MovePos, Normalized, Renumbered
  <2> QED
    BY <2>1, <2>2
<1>7. \A p \in 0..pos : Renumbered(p) \in 0..(pos' - 1)
  BY PositionsMove
<1>8. \A p \in 0..(pos - 1) : p \in 0..pos
  BY <1>2
<1>9. /\ son' \in [0..(2 * CyclicSize - 1) -> 0..(pos' - 1)]
      /\ hash' \in [0..(HashSizeSum - 1) -> 0..(pos' - 1)]
  BY <1>5, <1>6, <1>7, <1>8
<1>10. InRange'
  BY <1>1, <1>2, <1>3, <1>4, <1>9 DEF InRange
<1> QED
  BY <1>1, <1>5, <1>6, <1>10


\* A place that has been inserted keeps the trees and the tables what they are.
LEMMA Advances ==
  ASSUME InRange, Rest >= MinCheck, Remembers(hash),
         NEW s \in [0..(2 * CyclicSize - 1) -> 0..(pos - 1)], InOrder(s, Nodes, at + 1),
         MovePos(s, Hashed)
  PROVE  IInv'
<1>1. at < Len(input) /\ LenLimit \in Nat /\ pos \in Nat /\ pos > 0 /\ at \in Nat
  BY LimitIs, Sizes DEF InRange, Rest
<1>2. /\ hash \in [0..(HashSizeSum - 1) -> 0..(pos - 1)]
      /\ Hash2At \in 0..(Hash2Size - 1) /\ Hash2At = Hash2Of(at)
      /\ Hash3At - Hash2Size \in 0..(Hash3Size - 1) /\ Hash3At - Hash2Size = Hash3Of(at)
      /\ Hash3At \in Int /\ Hash4At \in FixHashSize..(HashSizeSum - 1)
  BY HashesAre DEF InRange
<1>3. /\ Hashed \in [0..(HashSizeSum - 1) -> 0..pos]
      /\ \A i \in 0..(HashSizeSum - 1) :
           Hashed[i] = IF i \in {Hash2At, Hash3At, Hash4At} THEN pos ELSE hash[i]
  <2>1. pos \in 0..pos /\ \A p \in 0..(pos - 1) : p \in 0..pos
    BY <1>1
  <2>2. hash \in [0..(HashSizeSum - 1) -> 0..pos]
    BY <1>2, <2>1
  <2> QED
    BY <2>1, <2>2 DEF Hashed
<1>4. /\ InRange' /\ input' = input /\ at' = at + 1
      /\ \A i \in 0..(2 * CyclicSize - 1) : son'[i] = Renumbered(s[i])
      /\ \A i \in 0..(HashSizeSum - 1) : hash'[i] = Renumbered(Hashed[i])
  BY <1>1, <1>3, RangeMoves
<1>5. ASSUME NEW p \in 0..pos, NEW q, q = Renumbered(p), q > MatchMinPos'
      PROVE  p > MatchMinPos /\ at' + q - pos' = at + p - pos
  BY <1>5, PositionsMove
<1>6. LenLimit' \in 0..LenLimit \/ ~(Rest' >= MinCheck)
  <2>1. Rest \in Int /\ Rest' = Rest - 1 /\ MaxMatch \in Nat /\ MinCheck = 4
    BY <1>4, Sizes DEF Rest, InRange
  <2>2. /\ LenLimit = (IF MaxMatch <= Rest THEN MaxMatch ELSE Rest)
        /\ LenLimit' = (IF MaxMatch <= Rest' THEN MaxMatch ELSE Rest')
    BY DEF LenLimit
  <2> QED
    BY <2>1, <2>2
<1>7. TreesInOrder'
  <2> SUFFICES ASSUME Rest' >= MinCheck PROVE InOrder(son, Window, at)'
    BY DEF TreesInOrder
  <2>1. PICK Sub \in Subs : /\ Ordered(Sub, at + 1)
                            /\ \A c \in Nodes, r \in Sides : Linked(s, Sub, c, r)
    BY DEF InOrder
  <2>2. Ordered(Sub, at)'
    <3> SUFFICES ASSUME NEW c \in Nat, NEW r \in Sides, c < at', NEW y \in Sub[c][r]
                 PROVE  y < c /\ OnSide(r, input', y, c, LenLimit')
      BY DEF Ordered
    <3>1. y < c /\ OnSide(r, input, y, c, LenLimit)
      BY <1>4, <2>1 DEF Ordered
    <3> QED
      BY <1>1, <1>4, <1>6, <3>1, SideLess
  <2>3. ASSUME NEW c \in Window', NEW r \in Sides PROVE Linked(son, Sub, c, r)'
    <3>1. c \in Nodes /\ Slot(c)' = Slot(c)
      BY SlotsMove
    <3> DEFINE p == s[Slot(c) + r]
               q == son'[Slot(c) + r]
    <3>2. p \in 0..(pos - 1) /\ p \in 0..pos /\ q = Renumbered(p)
      <4>1. Slot(c) + r \in 0..(2 * CyclicSize - 1)
        BY <3>1, SlotIs
      <4>2. p \in 0..(pos - 1) /\ q = Renumbered(p)
        BY <1>4, <4>1
      <4> HIDE DEF p, q
      <4> QED
        BY <1>1, <4>2
    <3>3. Leads(Sub, p, Sub[c][r])
      BY <2>1, <3>1 DEF Linked
    <3> HIDE DEF p
    <3>4. q > MatchMinPos' =>
            /\ at' + q - pos' \in Sub[c][r]
            /\ \A x \in Sides : Sub[at' + q - pos'][x] \subseteq Sub[c][r]
      BY <1>5, <3>2, <3>3 DEF Leads, Near, PlaceOf
    <3>5. (son[Slot(c) + r])' = q
      BY <3>1
    <3> HIDE DEF q
    <3> QED
      BY <3>4, <3>5 DEF Linked, Leads, Near, PlaceOf
  <2> QED
    BY <2>2, <2>3 DEF InOrder
<1>8. HeadsKnown'
  <2>0. HashSizeSum \in Nat /\ \A i \in 0..(Hash2Size - 1) : i \in 0..(HashSizeSum - 1)
        /\ i \notin {Hash3At, Hash4At}
    BY <1>2, HashSizes
  <2>1. \A i \in 0..(Hash3Size - 1) : /\ Hash2Size + i \in 0..(HashSizeSum - 1)
                                      /\ Hash2Size + i \notin {Hash2At, Hash4At}
                                      /\ Hash2Size + i = Hash3At => i = Hash3Of(at)
    BY SMTT(30), <1>2, HashSizes
  <2>2. ASSUME NEW j \in 0..(HashSizeSum - 1), hash'[j] > MatchMinPos'
        PROVE  \/ j \in {Hash2At, Hash3At, Hash4At} /\ at' + hash'[j] - pos' = at
               \/ Near(hash[j]) /\ at' + hash'[j] - pos' = PlaceOf(hash[j])
    <3>1. Hashed[j] \in 0..pos /\ hash'[j] = Renumbered(Hashed[j])
      BY <1>3, <1>4
    <3>2. Hashed[j] > MatchMinPos /\ at' + hash'[j] - pos' = at + Hashed[j] - pos
      BY <1>5, <2>2, <3>1
    <3>3. CASE j \in {Hash2At, Hash3At, Hash4At}
      <4>1. Hashed[j] = pos
        BY <1>3, <3>3
      <4>2. at + pos - pos = at
        BY <1>1
      <4> QED
        BY <3>2, <3>3, <4>1, <4>2
    <3>4. CASE j \notin {Hash2At, Hash3At, Hash4At}
      <4>1. Hashed[j] = hash[j]
        BY <1>3, <3>4
      <4> QED
        BY <3>2, <4>1 DEF Near, PlaceOf
    <3> QED
      BY <3>3, <3>4
  <2>3. ASSUME NEW i \in 0..(Hash2Size - 1), hash'[i] > MatchMinPos'
        PROVE  Hash2Of(at' + hash'[i] - pos') = i
    <3>1. CASE i \in {Hash2At, Hash3At, Hash4At} /\ at' + hash'[i] - pos' = at
      BY <1>2, <2>0, <3>1
    <3>2. CASE Near(hash[i]) /\ at' + hash'[i] - pos' = PlaceOf(hash[i])
      BY <3>2 DEF Remembers
    <3> QED
      BY <2>0, <2>2, <2>3, <3>1, <3>2
  <2>4. ASSUME NEW i \in 0..(Hash3Size - 1), hash'[Hash2Size + i] > MatchMinPos'
        PROVE  Hash3Of(at' + hash'[Hash2Size + i] - pos') = i
    <3> DEFINE j == Hash2Size + i
    <3>1. CASE j \in {Hash2At, Hash3At, Hash4At} /\ at' + hash'[j] - pos' = at
      <4>1. j = Hash3At /\ i = Hash3Of(at)
        BY <2>1, <3>1
      <4> QED
        BY <3>1, <4>1
    <3>2. CASE Near(hash[j]) /\ at' + hash'[j] - pos' = PlaceOf(hash[j])
      BY <3>2 DEF Remembers
    <3> QED
      BY <2>1, <2>2, <2>4, <3>1, <3>2
  <2>5. \A c : Hash2Of(c)' = Hash2Of(c) /\ Hash3Of(c)' = Hash3Of(c)
    BY <1>4 DEF Hash2Of, Hash3Of
  <2>6. Remembers(hash)'
    <3>1. \A i \in 0..(Hash2Size - 1) : Near(hash[i])' => Hash2Of(PlaceOf(hash[i]))' = i
      BY <1>4, <2>3 DEF Near, PlaceOf, Hash2Of
    <3>2. \A i \in 0..(Hash3Size - 1) :
            Near(hash[Hash2Size + i])' => Hash3Of(PlaceOf(hash[Hash2Size + i]))' = i
      BY <1>4, <2>4 DEF Near, PlaceOf, Hash3Of
    <3> QED
      BY <3>1, <3>2 DEF Remembers
  <2> QED
    BY <2>6 DEF HeadsKnown
<1> QED
  BY <1>4, <1>7, <1>8 DEF IInv


-----------------------------------------------------------------------------
(***************************************************************************)
(* The theorems.                                                           *)
(***************************************************************************)
LEMMA InitOk == Init => IInv
<1> SUFFICES ASSUME Init PROVE IInv
  OBVIOUS
<1>1. /\ at = 0 /\ pos = 1 /\ cyclicBufPos = 0 /\ cutValue \in Nat
      /\ son = [i \in 0..(2 * CyclicSize - 1) |-> 0]
      /\ hash = [i \in 0..(HashSizeSum - 1) |-> 0]
  BY BinTreeAssumption DEF Init, Empty
<1>2. input \in Seq(Byte)
  <2>1. PICK n \in Nat : input \in [1..n -> Byte]
    <3>1. MaxInput \in Nat
      BY BinTreeAssumption
    <3> QED
      BY <3>1 DEF Init, BoundedSeq, SeqOf
  <2> QED
    BY <2>1, SeqDef
<1>3. InRange
  <2>1. at \in 0..Len(input) /\ pos \in 1..(MaxVal - 1) /\ pos <= at + 1 /\ cyclicBufPos \in 0..DictSize
    BY <1>1, <1>2, Sizes
  <2>2. 0 \in 0..(pos - 1)
    BY <1>1
  <2> QED
    BY <1>1, <1>2, <2>1, <2>2 DEF InRange
<1>4. ~Near(0)
  BY <1>1, Sizes DEF Near, MatchMinPos
<1>5. InOrder(son, Window, at)
  <2> DEFINE Sub == [c \in Nat |-> [s \in Sides |-> {}]]
  <2>1. Sub \in Subs
    BY DEF Subs
  <2>2. Ordered(Sub, at)
    BY <1>1 DEF Ordered
  <2>3. \A c \in Window : FALSE
    BY <1>1 DEF Window
  <2> QED
    BY <2>1, <2>2, <2>3 DEF InOrder
<1>6. Remembers(hash)
  <2>1. \A i \in 0..(HashSizeSum - 1) : hash[i] = 0
    BY <1>1
  <2>2. /\ \A i \in 0..(Hash2Size - 1) : i \in 0..(HashSizeSum - 1)
        /\ \A i \in 0..(Hash3Size - 1) : Hash2Size + i \in 0..(HashSizeSum - 1)
    BY HashSizes
  <2> QED
    BY <1>4, <2>1, <2>2 DEF Remembers
<1> QED
  BY <1>3, <1>5, <1>6 DEF IInv, TreesInOrder, HeadsKnown

\* Every step keeps the invariant and passes one byte with a legal report.
LEMMA StepOk ==
  ASSUME IInv, Next
  PROVE  IInv' /\ Finder!Pass
<1>1. InRange /\ at \in Nat /\ Len(input) \in Nat
  BY DEF IInv, InRange
<1>2. ASSUME Rest >= MinCheck, NEW short, Begins(short), Pass(Inserted(short)),
             Legal(found')
      PROVE  IInv' /\ Finder!Pass
  <2> DEFINE s == Inserted(short).son
  <2>1. s \in [0..(2 * CyclicSize - 1) -> 0..(pos - 1)] /\ InOrder(s, Nodes, at + 1)
    BY <1>2, InsertedOk
  <2>2. MovePos(s, Hashed)
    BY <1>2 DEF Pass
  <2> HIDE DEF s
  <2>3. Remembers(hash)
    BY <1>2 DEF IInv, HeadsKnown
  <2>4. IInv'
    BY <1>1, <1>2, <2>1, <2>2, <2>3, Advances
  <2>5. at < Len(input)
    BY <1>1, <1>2, Sizes DEF Rest
  <2> QED
    BY <1>2, <2>2, <2>4, <2>5 DEF Finder!Pass, Legal, MovePos
<1>3. CASE GetMatches
  <2>1. Rest >= MinCheck /\ Pass(Inserted(ShortMatches)) /\ found' = Inserted(ShortMatches).found
    BY <1>3 DEF GetMatches
  <2>2. Begins(ShortMatches)
    BY <1>1, <2>1, ShortMatchesBegin DEF IInv, HeadsKnown
  <2>3. Legal(found')
    BY <2>1, <2>2, InsertedOk
  <2> QED
    BY <1>2, <2>1, <2>2, <2>3
<1>4. CASE Skip
  <2> DEFINE short == [found |-> << >>, maxLen |-> StartMaxLen]
  <2>1. Rest >= MinCheck /\ Pass(Inserted(short)) /\ found' = << >>
    BY <1>4 DEF Skip
  <2>2. Begins(short)
    BY LegalEmpty DEF Begins, StartMaxLen
  <2> HIDE DEF short
  <2> QED
    BY <1>2, <2>1, <2>2, LegalEmpty
<1>5. CASE PassLast
  <2>1. Rest \in 1..(MinCheck - 1) /\ MovePos(son, hash) /\ found' = << >>
    BY <1>5 DEF PassLast
  <2>2. at < Len(input)
    BY <1>1, <2>1, Sizes DEF Rest
  <2>3. hash \in [0..(HashSizeSum - 1) -> 0..pos] /\ son \in [0..(2 * CyclicSize - 1) -> 0..(pos - 1)]
    <3>1. \A p \in 0..(pos - 1) : p \in 0..pos
      BY <1>1, Sizes DEF InRange
    <3> QED
      BY <1>1, <3>1 DEF InRange
  <2>4. InRange' /\ input' = input /\ at' = at + 1
    BY <1>1, <2>1, <2>2, <2>3, RangeMoves
  <2>5. ~(Rest' >= MinCheck)
    BY <1>1, <2>1, <2>4, Sizes DEF Rest
  <2>6. IInv'
    BY <2>4, <2>5 DEF IInv, TreesInOrder, HeadsKnown
  <2> QED
    BY <2>1, <2>2, <2>4, <2>6, LegalEmpty DEF Finder!Pass, Legal
<1> QED
  BY <1>3, <1>4, <1>5 DEF Next

\* Every tree is in order, every link that is followed leads to a place in the
\* dictionary that is older and on its side, and the two small tables hold what
\* they are asked for: what a walk relies on when it does not compare from the
\* first byte.
THEOREM TreesStayInOrder == Spec => []IInv
<1>1. Init => IInv
  BY InitOk
<1>2. IInv /\ [Next]_vars => IInv'
  <2>1. IInv /\ Next => IInv'
    BY StepOk
  <2>2. ASSUME IInv, UNCHANGED vars PROVE IInv'
    <3>1. /\ input' = input /\ at' = at /\ pos' = pos /\ cyclicBufPos' = cyclicBufPos
          /\ son' = son /\ hash' = hash /\ cutValue' = cutValue
      BY <2>2 DEF vars
    <3>2. Rest' = Rest /\ MatchMinPos' = MatchMinPos /\ Window' = Window
      BY <3>1 DEF Rest, MatchMinPos, Window
    <3>3. LenLimit' = LenLimit
      BY <3>2 DEF LenLimit
    <3>4. InRange'
      BY <2>2, <3>1 DEF IInv, InRange
    <3>5. InOrder(son, Window, at) => InOrder(son, Window, at)'
      BY <3>1, <3>2, <3>3 DEF InOrder, Ordered, Linked, Leads, Near, PlaceOf, Slot
    <3>6. Remembers(hash) => Remembers(hash)'
      BY <3>1, <3>2 DEF Remembers, Near, PlaceOf, Hash2Of, Hash3Of
    <3> QED
      BY <2>2, <3>2, <3>4, <3>5, <3>6 DEF IInv, TreesInOrder, HeadsKnown
  <2> QED
    BY <2>1, <2>2
<1> QED
  BY <1>1, <1>2, PTL DEF Spec

\* The match finder implements what it promises: whatever is skipped, evicted,
\* replaced or renumbered, and wherever a walk is cut short, every match that
\* getMatches reports is one of the input within the dictionary, and longer than
\* the one before it.
THEOREM FinderReportsRealMatches == Spec => ReportsRealMatches
<1>1. Init => Finder!Init
  BY DEF Init, Finder!Init
<1>2. IInv /\ [Next]_vars => [Finder!Next]_(Finder!vars)
  <2>1. IInv /\ Next => Finder!Next
    BY StepOk DEF Finder!Next
  <2>2. UNCHANGED vars => UNCHANGED Finder!vars
    BY DEF vars, Finder!vars
  <2> QED
    BY <2>1, <2>2
<1> QED
  BY <1>1, <1>2, TreesStayInOrder, PTL DEF Spec, ReportsRealMatches, Finder!Spec
=============================================================================
