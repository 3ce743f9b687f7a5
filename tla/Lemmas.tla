------------------------------- MODULE Lemmas -------------------------------
(***************************************************************************)
(* What the proofs of several modules rest on and no library states: least *)
(* numbers, remainders, the ranks of the members of a set of numbers, the  *)
(* indices of a ring, the sequences that rings and queues hold, what loops *)
(* compute, and sequences made of sequences.                               *)
(***************************************************************************)
EXTENDS Integers, Sequences, FiniteSets, SequenceTheorems, FiniteSetTheorems,
        WellFoundedInduction, TLAPS

SeqExt == INSTANCE SequencesExt

\* A set of natural numbers that is not empty has a least member.
LEMMA LeastNumber ==
  ASSUME NEW S, S \subseteq Nat, S # {}
  PROVE  \E n \in S : \A m \in S : n <= m
<1> DEFINE R == {ss \in Nat \X Nat : ss[1] < ss[2]}
<1>1. IsWellFoundedOn(R, Nat)
  BY NatLessThanWellFounded DEF OpToRel
<1>2. \A x \in Nat, y \in Nat : x < y => <<x, y>> \in R
  BY SMT
<1> HIDE DEF R
<1>3. PICK n \in S : \A m \in S : <<m, n>> \notin R
  BY <1>1, WFMin
<1>4. n \in Nat /\ \A m \in S : m \in Nat /\ ~(m < n)
  BY <1>2, <1>3
<1> QED BY <1>3, <1>4

(***************************************************************************)
(* Ranks: the members of a finite set of numbers, in ascending order.      *)
(***************************************************************************)

Below(S, x) == {y \in S : y < x}
Rank(S, x)  == Cardinality(Below(S, x))

LEMMA RankType ==
  ASSUME NEW S, S \subseteq Nat, IsFiniteSet(S), NEW x
  PROVE  IsFiniteSet(Below(S, x)) /\ Rank(S, x) \in Nat /\ Rank(S, x) <= Cardinality(S)
<1>1. Below(S, x) \in SUBSET S
  BY DEF Below
<1> QED BY <1>1, FS_Subset, FS_CardinalityType DEF Rank

\* Adding x itself to what is below it counts one more.
LEMMA RankNext ==
  ASSUME NEW S, S \subseteq Nat, IsFiniteSet(S), NEW x \in S
  PROVE  /\ IsFiniteSet(Below(S, x) \cup {x})
         /\ Cardinality(Below(S, x) \cup {x}) = Rank(S, x) + 1
<1>1. x \notin Below(S, x)
  BY DEF Below
<1> QED BY <1>1, RankType, FS_AddElement DEF Rank

\* Every rank up to the number of members is the rank of one.
LEMMA RankExists ==
  ASSUME NEW S, S \subseteq Nat, IsFiniteSet(S), NEW k \in Nat, k < Cardinality(S)
  PROVE  \E x \in S : Rank(S, x) = k
<1> DEFINE Missing == {j \in Nat : j < Cardinality(S) /\ \A x \in S : Rank(S, x) # j}
<1> SUFFICES ASSUME Missing # {} PROVE FALSE
  OBVIOUS
<1>1. PICK j \in Missing : \A i \in Missing : j <= i
  BY LeastNumber
<1>2. j \in Nat /\ j < Cardinality(S) /\ Cardinality(S) \in Nat
  BY FS_CardinalityType
<1>3. CASE j = 0
  <2>1. S # {}
    BY <1>2, FS_EmptySet
  <2>2. PICK x \in S : \A y \in S : x <= y
    BY <2>1, LeastNumber
  <2>3. Below(S, x) = {}
    <3>1. \A y \in S : ~(y < x)
      BY <2>2
    <3> QED BY <3>1 DEF Below
  <2>4. Rank(S, x) = 0
    BY <2>3, FS_EmptySet DEF Rank
  <2> QED BY <1>3, <2>4
<1>4. CASE j # 0
  <2>1. j - 1 \in Nat /\ j - 1 < Cardinality(S) /\ ~(j <= j - 1)
    BY <1>2, <1>4
  <2>2. PICK x \in S : Rank(S, x) = j - 1
    BY <1>1, <2>1
  <2> DEFINE T == {y \in S : x < y}
  <2>3. T # {}
    <3> SUFFICES ASSUME T = {} PROVE FALSE
      OBVIOUS
    <3>1. S = Below(S, x) \cup {x}
      <4>1. \A y \in S : y \in Nat /\ (y < x \/ y = x \/ x < y)
        BY SMT
      <4>2. \A y \in S : y < x \/ y = x
        BY <4>1
      <4> QED BY <4>2 DEF Below
    <3>2. Cardinality(S) = (j - 1) + 1
      BY <2>2, <3>1, RankNext
    <3> QED BY <1>2, <3>2
  <2>4. PICK z \in T : \A y \in T : z <= y
    BY <2>3, LeastNumber
  <2>5. Below(S, z) = Below(S, x) \cup {x}
    <3>1. \A y \in S : y \in Nat /\ z \in Nat /\ x \in Nat
      BY SMT
    <3>2. \A y \in S : y < z <=> (y < x \/ y = x)
      <4>1. x < z /\ \A y \in S : x < y => z <= y
        BY <2>4
      <4> QED BY <3>1, <4>1
    <3> QED BY <3>2 DEF Below
  <2>6. Rank(S, z) = (j - 1) + 1
    BY <2>2, <2>5, RankNext DEF Rank
  <2> QED BY <1>2, <2>6
<1> QED BY <1>3, <1>4

\* A rank has one member only.
LEMMA RankUnique ==
  ASSUME NEW S, S \subseteq Nat, IsFiniteSet(S), NEW x \in S, NEW y \in S, x < y
  PROVE  Rank(S, x) < Rank(S, y)
<1>1. Below(S, x) \cup {x} \in SUBSET Below(S, y)
  <2>1. \A z \in S : z \in Nat /\ (z < x => z < y)
    BY SMT
  <2> QED BY <2>1 DEF Below
<1>2. Cardinality(Below(S, x) \cup {x}) <= Cardinality(Below(S, y))
  BY <1>1, RankType, FS_Subset
<1>3. Rank(S, x) + 1 <= Rank(S, y)
  BY <1>2, RankNext DEF Rank
<1>4. Rank(S, x) \in Nat /\ Rank(S, y) \in Nat
  BY RankType
<1> QED BY <1>3, <1>4

\* The first c members of a set are c, or all of them when it has fewer.
LEMMA FirstMembers ==
  ASSUME NEW S, S \subseteq Nat, IsFiniteSet(S), NEW c \in Nat,
         NEW T, \A x : x \in T <=> (x \in S /\ Rank(S, x) < c)
  PROVE  /\ IsFiniteSet(T) /\ Cardinality(T) \in Nat /\ Cardinality(T) <= c
         /\ (\E x \in S : x \notin T) => Cardinality(T) = c
<1>1. /\ T \in SUBSET S /\ T \subseteq Nat /\ IsFiniteSet(T) /\ Cardinality(T) \in Nat
      /\ Cardinality(S) \in Nat
  BY FS_Subset, FS_CardinalityType
<1>2. ASSUME NEW x \in T PROVE Below(T, x) = Below(S, x)
  <2>1. ASSUME NEW y \in S, y < x PROVE y \in T
    <3>1. Rank(S, y) < Rank(S, x) /\ Rank(S, x) < c
      BY <2>1, RankUnique
    <3>2. Rank(S, y) \in Nat /\ Rank(S, x) \in Nat
      BY RankType
    <3> QED BY <3>1, <3>2
  <2> QED BY <2>1 DEF Below
<1>3. Cardinality(T) <= c
  <2> SUFFICES ASSUME c < Cardinality(T) PROVE FALSE
    BY <1>1
  <2>1. PICK x \in T : Rank(T, x) = c
    BY <1>1, RankExists
  <2>2. Rank(S, x) = c
    BY <1>2, <2>1 DEF Rank
  <2> QED BY <2>2
<1>4. ASSUME NEW x \in S, x \notin T PROVE Cardinality(T) = c
  <2>1. c <= Rank(S, x) /\ Rank(S, x) \in Nat /\ Rank(S, x) < Cardinality(S)
    <3>1. Rank(S, x) \in Nat /\ ~(Rank(S, x) < c)
      BY <1>4, RankType
    <3>2. x \notin Below(S, x) /\ Below(S, x) \in SUBSET S
      BY DEF Below
    <3>3. Rank(S, x) # Cardinality(S) /\ Rank(S, x) <= Cardinality(S)
      BY <3>2, FS_Subset DEF Rank
    <3> QED BY <1>1, <3>1, <3>3
  <2>2. CASE c = 0
    BY <1>1, <1>3, <2>2
  <2>3. CASE c # 0
    <3>1. c - 1 \in Nat /\ c - 1 < Cardinality(S)
      BY <1>1, <2>1, <2>3
    <3>2. PICK z \in S : Rank(S, z) = c - 1
      BY <3>1, RankExists
    <3>3. z \in T
      BY <3>2
    <3>4. Below(S, z) \cup {z} \in SUBSET T
      BY <1>2, <3>3 DEF Below
    <3>5. Cardinality(Below(S, z) \cup {z}) = (c - 1) + 1
      BY <3>2, RankNext
    <3>6. Cardinality(Below(S, z) \cup {z}) <= Cardinality(T)
      BY <1>1, <3>4, FS_Subset
    <3> QED BY <1>1, <1>3, <3>5, <3>6
  <2> QED BY <2>2, <2>3
<1> QED BY <1>1, <1>3, <1>4

(***************************************************************************)
(* Remainders, for the grids that tasks and callbacks are scheduled on.    *)
(***************************************************************************)

\* the definition of \div and %
LEMMA DivMod ==
  ASSUME NEW x \in Nat, NEW d \in Nat \ {0}
  PROVE  /\ x \div d \in Nat /\ x % d \in 0 .. d - 1
         /\ x = d * (x \div d) + (x % d)
  OBVIOUS

\* The quotient is the one number of times that d goes into x.
LEMMA DivIs ==
  ASSUME NEW x \in Nat, NEW d \in Nat \ {0}, NEW n \in Nat, NEW r \in 0 .. d - 1, x = d * n + r
  PROVE  x \div d = n
<1> DEFINE a == x \div d
           b == x % d
<1>1. a \in Nat /\ b \in 0 .. d - 1 /\ x = d * a + b
  BY DivMod
<1> HIDE DEF a, b
<1>2. d * (n - a) = b - r
  <2>1. d * (n - a) = d * n - d * a
    BY <1>1
  <2> QED BY <1>1, <2>1
<1>3. CASE n - a >= 1
  <2>1. d * (n - a) >= d
    BY <1>1, <1>3
  <2> QED BY <1>1, <1>2, <2>1
<1>4. CASE a - n >= 1
  <2>1. d * (a - n) >= d
    BY <1>1, <1>4
  <2>2. d * (a - n) = r - b
    <3>1. d * (a - n) = 0 - d * (n - a)
      BY <1>1
    <3> QED BY <1>1, <1>2, <3>1
  <2> QED BY <1>1, <2>1, <2>2
<1>5. CASE n = a
  BY <1>5 DEF a
<1> QED BY <1>1, <1>3, <1>4, <1>5

\* below d, only 0 is a multiple of d
LEMMA OnlyZero ==
  ASSUME NEW d \in Nat \ {0}, NEW k \in Int, NEW r \in 0 .. d - 1, d * k = r
  PROVE  r = 0
<1>1. CASE k >= 1 BY <1>1, d * k >= d
<1>2. CASE k <= 0 BY <1>2, d * k <= 0
<1> QED BY <1>1, <1>2

\* one more period keeps a multiple of the period one
LEMMA NextMultiple ==
  ASSUME NEW x \in Nat, NEW d \in Nat \ {0}, x % d = 0
  PROVE  (x + d) % d = 0
<1> DEFINE a == x \div d
           p == (x + d) \div d
           r == (x + d) % d
<1>1. a \in Nat /\ x = d * a
  BY DivMod
<1>2. p \in Nat /\ r \in 0 .. d - 1 /\ x + d = d * p + r
  BY x + d \in Nat, DivMod
<1> HIDE DEF a, p, r
<1>3. d * (a + 1 - p) = r
  <2>1. d * (a + 1 - p) = d * a + d - d * p
    BY <1>1, <1>2
  <2> QED BY <2>1, <1>1, <1>2
<1>4. r = 0
  BY <1>1, <1>2, <1>3, OnlyZero, a + 1 - p \in Int
<1> QED BY <1>4 DEF r

LEMMA ZeroMultiple == \A d \in Nat \ {0} : 0 % d = 0
  OBVIOUS

LEMMA SmallMod == \A x \in Nat, d \in Nat \ {0} : x < d => x % d = x
  OBVIOUS

(***************************************************************************)
(* The indices of a ring of n slots: WrappingIndex of utils/queue.h.       *)
(***************************************************************************)

\* the slot i steps after slot h
At(n, h, i) == (h + i) % n

\* For indices of the ring the modulo is one conditional subtraction.
LEMMA AtIs ==
  ASSUME NEW n \in Nat \ {0}, NEW h \in 0 .. n - 1, NEW i \in 0 .. n
  PROVE  At(n, h, i) = IF h + i < n THEN h + i ELSE h + i - n
<1> USE DEF At
<1>1. CASE h + i < n
  BY <1>1, SMT
<1>2. CASE ~(h + i < n)
  <2> DEFINE d == h + i - n
  <2>1. d \in 0 .. n - 1 /\ h + i = d + n
    BY <1>2, SMT
  <2>2. (d + n) % n = d
    BY <2>1, SMT
  <2> QED BY <2>1, <2>2, <1>2, SMT
<1> QED BY <1>1, <1>2

\* Every index stays inside the ring; 0 steps and n steps lead nowhere.
LEMMA AtRange ==
  ASSUME NEW n \in Nat \ {0}, NEW h \in 0 .. n - 1
  PROVE  /\ At(n, h, 0) = h /\ At(n, h, n) = h
         /\ \A i \in 0 .. n : At(n, h, i) \in 0 .. n - 1
<1>1. \A i \in 0 .. n : At(n, h, i) = IF h + i < n THEN h + i ELSE h + i - n
  BY AtIs
<1> QED BY <1>1, SMT

\* Two different elements never share a slot.
LEMMA AtDistinct ==
  ASSUME NEW n \in Nat \ {0}, NEW h \in 0 .. n - 1,
         NEW i \in 0 .. n - 1, NEW j \in 0 .. n - 1, i # j
  PROVE  At(n, h, i) # At(n, h, j)
<1>1. \A k \in 0 .. n : At(n, h, k) = IF h + k < n THEN h + k ELSE h + k - n
  BY AtIs
<1> QED BY <1>1, SMT

\* Steps add up.
LEMMA AtSum ==
  ASSUME NEW n \in Nat \ {0}, NEW h \in 0 .. n - 1,
         NEW i \in 0 .. n, NEW j \in 0 .. n, i + j <= n
  PROVE  At(n, At(n, h, i), j) = At(n, h, i + j)
<1> DEFINE R(a, b) == IF a + b < n THEN a + b ELSE a + b - n
<1>1. \A a \in 0 .. n - 1, b \in 0 .. n : At(n, a, b) = R(a, b)
  BY AtIs
<1>2. i + j \in 0 .. n /\ R(h, i) \in 0 .. n - 1
  BY SMT
<1>3. At(n, h, i) = R(h, i) /\ At(n, h, i + j) = R(h, i + j)
  BY <1>1, <1>2
<1>4. At(n, R(h, i), j) = R(R(h, i), j)
  BY <1>1, <1>2
<1>5. R(R(h, i), j) = R(h, i + j)
  BY SMT
<1> HIDE DEF R
<1> QED BY <1>3, <1>4, <1>5

\* How many steps it is from slot t to slot s.
LEMMA StepsIs ==
  ASSUME NEW n \in Nat \ {0}, NEW s \in 0 .. n - 1, NEW t \in 0 .. n - 1
  PROVE  (s - t) % n = IF t <= s THEN s - t ELSE s - t + n
<1>1. CASE t <= s
  BY <1>1, SMT
<1>2. CASE ~(t <= s)
  <2> DEFINE d == s - t + n
  <2>1. d \in 0 .. n - 1 /\ s - t = d - n
    BY <1>2, SMT
  <2>2. (d - n) % n = d
    BY <2>1, SMT
  <2> QED BY <2>1, <2>2, <1>2, SMT
<1> QED BY <1>1, <1>2

(***************************************************************************)
(* A ring holds a sequence: its elements lie in the slots from h on.       *)
(***************************************************************************)

Holds(n, slot, h, s) == \A i \in 1 .. Len(s) : slot[At(n, h, i - 1)] = s[i]

\* Only the slots of the elements matter.
LEMMA HoldsElsewhere ==
  ASSUME NEW n \in Nat \ {0}, NEW h \in 0 .. n - 1, NEW S, NEW s \in Seq(S), Len(s) <= n,
         NEW slot, Holds(n, slot, h, s), NEW new,
         \A i \in 1 .. Len(s) : new[At(n, h, i - 1)] = slot[At(n, h, i - 1)]
  PROVE  Holds(n, new, h, s)
BY DEF Holds

\* Writing the first free slot appends an element.
LEMMA HoldsAppend ==
  ASSUME NEW n \in Nat \ {0}, NEW h \in 0 .. n - 1, NEW S, NEW s \in Seq(S), Len(s) < n,
         NEW T, NEW slot \in [0 .. n - 1 -> T], Holds(n, slot, h, s), NEW v \in S
  PROVE  Holds(n, [slot EXCEPT ![At(n, h, Len(s))] = v], h, Append(s, v))
<1> DEFINE t == At(n, h, Len(s))
           new == [slot EXCEPT ![t] = v]
<1>1. /\ Len(Append(s, v)) = Len(s) + 1 /\ Len(s) \in Nat
      /\ \A i \in 1 .. Len(s) : Append(s, v)[i] = s[i] /\ Append(s, v)[Len(s) + 1] = v
  BY AppendProperties
<1>2. t \in 0 .. n - 1
  BY <1>1, AtRange, Len(s) \in 0 .. n
<1> SUFFICES ASSUME NEW i \in 1 .. Len(s) + 1
             PROVE  new[At(n, h, i - 1)] = Append(s, v)[i]
  BY <1>1 DEF Holds
<1>3. /\ i - 1 \in 0 .. n - 1 /\ i - 1 \in 0 .. n /\ Len(s) \in 0 .. n - 1
      /\ At(n, h, i - 1) \in 0 .. n - 1
  <2>1. i - 1 \in 0 .. n - 1 /\ i - 1 \in 0 .. n /\ Len(s) \in 0 .. n - 1
    BY <1>1
  <2> QED BY <2>1, AtRange
<1> HIDE DEF t
<1>4. CASE i = Len(s) + 1
  <2>1. i - 1 = Len(s)
    BY <1>1, <1>4
  <2>2. At(n, h, i - 1) = t
    BY <2>1 DEF t
  <2> QED BY <1>1, <1>2, <1>4, <2>2, AppendProperties
<1>5. CASE i # Len(s) + 1
  <2>1. i - 1 # Len(s) /\ i \in 1 .. Len(s)
    BY <1>1, <1>5
  <2>2. At(n, h, i - 1) # t
    BY <1>3, <2>1, AtDistinct DEF t
  <2> QED BY <1>1, <1>3, <2>1, <2>2 DEF Holds
<1> QED BY <1>4, <1>5

\* The first element lies at h; without it, the others lie from the next slot
\* on, whatever becomes of the slot of the first.
LEMMA HoldsTail ==
  ASSUME NEW n \in Nat \ {0}, NEW h \in 0 .. n - 1, NEW S, NEW s \in Seq(S),
         s # << >>, Len(s) <= n, NEW slot, Holds(n, slot, h, s), NEW new,
         \A k \in 0 .. n - 1 : k # h => new[k] = slot[k]
  PROVE  /\ slot[h] = Head(s)
         /\ Holds(n, slot, At(n, h, 1), Tail(s)) /\ Holds(n, new, At(n, h, 1), Tail(s))
<1>1. /\ Len(s) \in 1 .. n /\ Tail(s) \in Seq(S) /\ Len(Tail(s)) = Len(s) - 1
      /\ Head(s) = s[1] /\ \A i \in 1 .. Len(s) - 1 : Tail(s)[i] = s[i + 1]
  BY EmptySeq, HeadTailProperties
<1>2. slot[h] = Head(s)
  <2>1. 1 \in 1 .. Len(s) /\ 1 - 1 = 0
    BY <1>1
  <2> QED BY <1>1, <2>1, AtRange DEF Holds
<1>3. ASSUME NEW i \in 1 .. Len(s) - 1
      PROVE  /\ slot[At(n, At(n, h, 1), i - 1)] = Tail(s)[i]
             /\ new[At(n, At(n, h, 1), i - 1)] = Tail(s)[i]
  <2>1. /\ i - 1 \in 0 .. n /\ 1 \in 0 .. n /\ 1 + (i - 1) <= n /\ 1 + (i - 1) = i
        /\ i \in 0 .. n - 1 /\ i \in 0 .. n /\ 0 \in 0 .. n - 1 /\ i # 0
        /\ i + 1 \in 1 .. Len(s) /\ (i + 1) - 1 = i
    BY <1>1
  <2>2. At(n, At(n, h, 1), i - 1) = At(n, h, i)
    BY <2>1, AtSum
  <2>3. slot[At(n, h, i)] = s[i + 1]
    BY <2>1 DEF Holds
  <2>4. At(n, h, i) # h /\ At(n, h, i) \in 0 .. n - 1
    BY <2>1, AtDistinct, AtRange
  <2> QED BY <1>1, <2>2, <2>3, <2>4
<1> QED BY <1>1, <1>2, <1>3 DEF Holds

\* Writing the free slots from the first on appends a whole sequence.
LEMMA HoldsConcat ==
  ASSUME NEW n \in Nat \ {0}, NEW h \in 0 .. n - 1, NEW S, NEW s \in Seq(S), NEW b \in Seq(S),
         Len(s) + Len(b) <= n, NEW slot, Holds(n, slot, h, s), NEW new,
         \A k \in 0 .. n - 1 :
           LET d == (k - At(n, h, Len(s))) % n
           IN  new[k] = IF d < Len(b) THEN b[d + 1] ELSE slot[k]
  PROVE  Holds(n, new, h, s \o b)
<1>1. /\ Len(s) \in Nat /\ Len(b) \in Nat /\ Len(s \o b) = Len(s) + Len(b)
      /\ \A i \in 1 .. Len(s) + Len(b) :
           (s \o b)[i] = IF i <= Len(s) THEN s[i] ELSE b[i - Len(s)]
  BY ConcatProperties
<1> SUFFICES ASSUME NEW i \in 1 .. Len(s) + Len(b)
             PROVE  new[At(n, h, i - 1)] = (s \o b)[i]
  BY <1>1 DEF Holds
<1> DEFINE k == At(n, h, i - 1)
           t == At(n, h, Len(s))
           d == (k - t) % n
<1>2. i - 1 \in 0 .. n - 1 /\ i - 1 \in 0 .. n /\ Len(s) \in 0 .. n
  BY <1>1
<1>3. k \in 0 .. n - 1 /\ t \in 0 .. n - 1
  BY <1>2, AtRange
<1>4. /\ k = IF h + (i - 1) < n THEN h + (i - 1) ELSE h + (i - 1) - n
      /\ t = IF h + Len(s) < n THEN h + Len(s) ELSE h + Len(s) - n
      /\ d = IF t <= k THEN k - t ELSE k - t + n
  BY <1>2, <1>3, AtIs, StepsIs
<1>5. new[k] = IF d < Len(b) THEN b[d + 1] ELSE slot[k]
  BY <1>3
<1> HIDE DEF k, t, d
<1>6. CASE i <= Len(s)
  <2>1. ~(d < Len(b)) /\ i \in 1 .. Len(s)
    <3>0. Len(s) \in 0 .. n /\ i \in Int /\ i - 1 \in 0 .. n - 1 /\ i - 1 < Len(s)
      BY <1>1, <1>2, <1>6
    <3>1. d = (i - 1) - Len(s) + n
      <4> DEFINE l == Len(s)
                 j == i - 1
      <4>1. l \in 0 .. n /\ j \in 0 .. n - 1 /\ j < l
        BY <3>0
      <4>2. /\ k = IF h + j < n THEN h + j ELSE h + j - n
            /\ t = IF h + l < n THEN h + l ELSE h + l - n
            /\ d = IF t <= k THEN k - t ELSE k - t + n
        BY <1>4
      <4> HIDE DEF l, j
      <4>3. d = j - l + n
        <5>1. CASE h + l < n
          BY <4>1, <4>2, <5>1
        <5>2. CASE ~(h + l < n) /\ h + j < n
          BY <4>1, <4>2, <5>2
        <5>3. CASE ~(h + l < n) /\ ~(h + j < n)
          BY <4>1, <4>2, <5>3
        <5> QED BY <5>1, <5>2, <5>3
      <4> QED BY <4>3 DEF l, j
    <3> QED BY <1>1, <1>6, <3>1
  <2>2. slot[k] = s[i]
    BY <2>1 DEF Holds, k
  <2> QED BY <1>1, <1>5, <1>6, <2>1, <2>2 DEF k
<1>7. CASE ~(i <= Len(s))
  <2>1. d = (i - 1) - Len(s)
    BY <1>1, <1>2, <1>4, <1>7
  <2>2. d < Len(b) /\ d + 1 = i - Len(s)
    BY <1>1, <2>1
  <2> QED BY <1>1, <1>5, <1>7, <2>2 DEF k
<1> QED BY <1>6, <1>7

(***************************************************************************)
(* Queues whose elements are numbered in the order they are pushed.        *)
(***************************************************************************)

\* Moving the head of t to the end of s changes nothing of s \o t.
LEMMA MovedHead ==
  ASSUME NEW s \in Seq(Nat), NEW t \in Seq(Nat), t # << >>
  PROVE  Append(s, Head(t)) \o Tail(t) = s \o t
OBVIOUS

\* Appending to t appends to s \o t.
LEMMA AppendedTail ==
  ASSUME NEW s \in Seq(Nat), NEW t \in Seq(Nat), NEW x \in Nat
  PROVE  s \o Append(t, x) = Append(s \o t, x)
OBVIOUS

LEMMA CountedOn ==
  ASSUME NEW n \in Nat
  PROVE  Append([k \in 1 .. n |-> k], n + 1) = [k \in 1 .. n + 1 |-> k]
OBVIOUS

\* What follows s begins behind it.
LEMMA HeadBehind ==
  ASSUME NEW s \in Seq(Nat), NEW t \in Seq(Nat), t # << >>
  PROVE  Len(s) + 1 \in 1 .. Len(s \o t) /\ Head(t) = (s \o t)[Len(s) + 1]
<1>1. Len(s) \in Nat /\ Len(t) \in Nat /\ Len(t) # 0 /\ Head(t) = t[1]
  BY EmptySeq
<1>2. Len(s \o t) = Len(s) + Len(t)
  BY ConcatProperties
<1>3. Len(s) + 1 \in 1 .. Len(s) + Len(t)
  BY <1>1
<1>4. (s \o t)[Len(s) + 1] = t[1]
  BY <1>1, <1>3, ConcatProperties
<1> QED BY <1>1, <1>2, <1>3, <1>4

\* A queue t of numbered elements, those in s being gone: the first of t is the
\* first that is not gone.
LEMMA NumberedFirst ==
  ASSUME NEW s \in Seq(Nat), NEW t \in Seq(Nat), NEW n \in Nat,
         s \o t = [k \in 1 .. n |-> k], t # << >>
  PROVE  Head(t) \in 1 .. n /\ Head(t) # 0 /\ Head(t) = Len(s) + 1
<1>1. Head(t) = (s \o t)[Len(s) + 1] /\ Len(s) + 1 \in 1 .. Len(s \o t)
  BY HeadBehind
<1>2. Len(s \o t) = n
  <2>1. s \o t \in Seq(Nat)
    OBVIOUS
  <2>2. DOMAIN (s \o t) = 1 .. Len(s \o t) /\ Len(s \o t) \in Nat
    BY <2>1
  <2>3. DOMAIN (s \o t) = 1 .. n
    OBVIOUS
  <2> QED BY <2>2, <2>3
<1> QED BY <1>1, <1>2

\* It goes, and the rest stays numbered.
LEMMA NumberedGone ==
  ASSUME NEW s \in Seq(Nat), NEW t \in Seq(Nat), t # << >>
  PROVE  /\ Tail(t) \in Seq(Nat) /\ Append(s, Head(t)) \in Seq(Nat)
         /\ Append(s, Head(t)) \o Tail(t) = s \o t
<1>1. Head(t) \in Nat /\ Tail(t) \in Seq(Nat)
  OBVIOUS
<1>2. Append(s, Head(t)) \in Seq(Nat)
  BY <1>1
<1> QED BY <1>1, <1>2, MovedHead

\* One more element.
LEMMA NumberedNext ==
  ASSUME NEW s \in Seq(Nat), NEW t \in Seq(Nat), NEW n \in Nat,
         s \o t = [k \in 1 .. n |-> k]
  PROVE  /\ Append(t, n + 1) \in Seq(Nat) /\ Append(t, n + 1) # << >>
         /\ s \o Append(t, n + 1) = [k \in 1 .. n + 1 |-> k]
         /\ t # << >> => Head(Append(t, n + 1)) = Head(t)
<1> DEFINE m == n + 1
<1>1. m \in Nat
  OBVIOUS
<1>2. Append([k \in 1 .. n |-> k], m) = [k \in 1 .. m |-> k]
  BY CountedOn
<1> HIDE DEF m
<1>3. Append(t, m) \in Seq(Nat) /\ Append(t, m) # << >>
  BY <1>1, AppendProperties
<1>4. s \o Append(t, m) = Append(s \o t, m)
  BY <1>1, AppendedTail
<1>5. t # << >> => Head(Append(t, m)) = Head(t)
  BY <1>1
<1> QED BY <1>2, <1>3, <1>4, <1>5 DEF m

(***************************************************************************)
(* Loops: what is computed in n steps, each from the one before.           *)
(***************************************************************************)

\* Induction up to n: T is the set of the numbers for which something holds.
LEMMA UpTo ==
  ASSUME NEW n \in Nat, NEW T, 0 \in T, \A i \in 1 .. n : i - 1 \in T => i \in T
  PROVE  \A i \in 0 .. n : i \in T
<1> DEFINE D == {i \in 0 .. n : i \notin T}
<1> SUFFICES ASSUME D # {} PROVE FALSE
  OBVIOUS
<1>1. D \subseteq Nat
  OBVIOUS
<1>2. PICK i \in D : \A j \in D : i <= j
  BY <1>1, LeastNumber
<1>3. i \in 0 .. n /\ i \notin T
  OBVIOUS
<1>4. i \in 1 .. n /\ i - 1 \in 0 .. n /\ i - 1 < i
  BY <1>3
<1>5. i - 1 \in T
  <2>1. i - 1 \notin D
    <3> HIDE DEF D
    <3> QED BY <1>2, <1>4
  <2> QED BY <1>4, <2>1
<1> QED BY <1>3, <1>4, <1>5

\* n steps from a: step i goes from x to f[i][x].
Steps(n, S, f) == f \in [1 .. n -> [S -> S]]
Walk(n, S, a, f, g) ==
  g \in [0 .. n -> S] /\ g[0] = a /\ \A i \in 1 .. n : g[i] = f[i][g[i - 1]]

\* Whatever a step does, n steps can be taken.
LEMMA StepsTaken ==
  ASSUME NEW n \in Nat, NEW S, NEW a \in S, NEW f, Steps(n, S, f)
  PROVE  \E g : Walk(n, S, a, f, g)
<1> DEFINE P(k) == \E g : Walk(k, S, a, f, g)
           T == {k \in 0 .. n : P(k)}
<1>1. P(0)
  <2> DEFINE z == [i \in 0 .. 0 |-> a]
  <2>1. z \in [0 .. 0 -> S] /\ z[0] = a /\ \A i \in 1 .. 0 : z[i] = f[i][z[i - 1]]
    OBVIOUS
  <2>2. Walk(0, S, a, f, z)
    BY <2>1 DEF Walk
  <2> QED BY <2>2
<1>2. ASSUME NEW k \in 1 .. n, P(k - 1) PROVE P(k)
  <2>1. PICK g : Walk(k - 1, S, a, f, g)
    BY <1>2
  <2>2. g \in [0 .. k - 1 -> S] /\ g[0] = a /\ \A i \in 1 .. k - 1 : g[i] = f[i][g[i - 1]]
    BY <2>1 DEF Walk
  <2> DEFINE h == [i \in 0 .. k |-> IF i = k THEN f[k][g[k - 1]] ELSE g[i]]
  <2>3. g[k - 1] \in S /\ f[k] \in [S -> S]
    BY <2>2 DEF Steps
  <2>4. f[k][g[k - 1]] \in S
    BY <2>3
  <2>5. h \in [0 .. k -> S] /\ h[0] = a
    BY <2>2, <2>4
  <2>6. ASSUME NEW i \in 1 .. k PROVE h[i] = f[i][h[i - 1]]
    <3>1. i \in 0 .. k /\ i - 1 \in 0 .. k /\ i - 1 # k /\ (i # k => i \in 1 .. k - 1)
      OBVIOUS
    <3>2. h[i - 1] = g[i - 1] /\ h[i] = IF i = k THEN f[k][g[k - 1]] ELSE g[i]
      BY <3>1
    <3> QED BY <2>2, <3>1, <3>2
  <2> HIDE DEF h
  <2>7. Walk(k, S, a, f, h)
    BY <2>5, <2>6 DEF Walk
  <2> QED BY <2>7
<1> HIDE DEF P
<1>3. 0 \in T /\ \A i \in 1 .. n : i - 1 \in T => i \in T
  BY <1>1, <1>2
<1> HIDE DEF T
<1>4. \A i \in 0 .. n : i \in T
  BY <1>3, UpTo
<1>5. n \in T
  BY <1>4
<1>6. P(n)
  BY <1>5 DEF T
<1> QED BY <1>6 DEF P

(***************************************************************************)
(* Sequences, and sequences of sequences.                                  *)
(***************************************************************************)

LEMMA ConcatAssoc ==
  ASSUME NEW S
  PROVE  \A s, t, u \in Seq(S) : (s \o t) \o u = s \o (t \o u)
BY ConcatAssociative

LEMMA Concats ==
  ASSUME NEW S, NEW s \in Seq(S), NEW t \in Seq(S), NEW u \in Seq(S)
  PROVE  /\ s \o t \in Seq(S) /\ Len(s \o t) = Len(s) + Len(t)
         /\ (s \o t) \o u = s \o (t \o u)
         /\ s \o << >> = s /\ << >> \o s = s
<1>1. s \o t \in Seq(S) /\ Len(s \o t) = Len(s) + Len(t)
  BY ConcatProperties
<1>2. (s \o t) \o u = s \o (t \o u)
  BY ConcatAssociative
<1>3. s \o << >> = s /\ << >> \o s = s
  BY ConcatEmptySeq
<1> QED BY <1>1, <1>2, <1>3

\* What a flattened sequence is, one part after the other.
Flattens(S, seqs, g) ==
  /\ g \in [0 .. Len(seqs) -> Seq(S)] /\ g[0] = << >>
  /\ \A i \in 1 .. Len(seqs) : g[i] = g[i - 1] \o seqs[i]

\* The recursive function of FlattenSeq is the one function that does so.
LEMMA FlattenIs ==
  ASSUME NEW S, NEW seqs \in Seq(Seq(S)), NEW g, Flattens(S, seqs, g)
  PROVE  SeqExt!FlattenSeq(seqs) = g[Len(seqs)]
<1> DEFINE n == Len(seqs)
           F(f) == f = [i \in 1 .. n |-> IF i = 1 THEN seqs[i] ELSE f[i - 1] \o seqs[i]]
           u == CHOOSE f : F(f)
           h == [i \in 1 .. n |-> g[i]]
<1>0. n \in Nat /\ \A i \in 1 .. n : seqs[i] \in Seq(S)
  OBVIOUS
<1>1. CASE n = 0
  <2>1. seqs = << >>
    BY <1>1, EmptySeq
  <2> QED BY <1>1, <2>1 DEF Flattens, SeqExt!FlattenSeq
<1>2. CASE n # 0
  <2>1. \A i \in 1 .. n : g[i] = IF i = 1 THEN seqs[i] ELSE h[i - 1] \o seqs[i]
    <3> SUFFICES ASSUME NEW i \in 1 .. n
                 PROVE  g[i] = IF i = 1 THEN seqs[i] ELSE h[i - 1] \o seqs[i]
      OBVIOUS
    <3>1. g[i] = g[i - 1] \o seqs[i] /\ g[0] = << >> /\ seqs[i] \in Seq(S)
      BY <1>0 DEF Flattens
    <3>2. CASE i = 1
      <4>1. i - 1 = 0
        BY <3>2
      <4>2. << >> \o seqs[i] = seqs[i]
        BY <3>1, ConcatEmptySeq
      <4> QED BY <3>1, <3>2, <4>1, <4>2
    <3>3. CASE i # 1
      <4>1. i - 1 \in 1 .. n
        BY <1>0, <3>3
      <4> QED BY <3>1, <3>3, <4>1
    <3> QED BY <3>2, <3>3
  <2>2. F(h)
    <3>1. h = [i \in 1 .. n |-> IF i = 1 THEN seqs[i] ELSE h[i - 1] \o seqs[i]]
      BY <2>1, Zenon
    <3> QED BY <3>1, Zenon
  <2>3. F(u)
    <3> HIDE DEF F
    <3> QED BY <2>2
  <2>4. SeqExt!FlattenSeq(seqs) = u[n]
    BY <1>2, Zenon DEF SeqExt!FlattenSeq
  <2> HIDE DEF u
  <2>5. \A i \in 1 .. n : u[i] = IF i = 1 THEN seqs[i] ELSE u[i - 1] \o seqs[i]
    <3>1. u = [i \in 1 .. n |-> IF i = 1 THEN seqs[i] ELSE u[i - 1] \o seqs[i]]
      BY <2>3
    <3> SUFFICES ASSUME NEW i \in 1 .. n PROVE u[i] = IF i = 1 THEN seqs[i] ELSE u[i - 1] \o seqs[i]
      OBVIOUS
    <3> QED BY <3>1, Zenon
  <2> DEFINE T == {i \in 0 .. n : i = 0 \/ u[i] = g[i]}
  <2>6. 0 \in T
    BY <1>0
  <2>7. ASSUME NEW i \in 1 .. n, i - 1 \in T PROVE i \in T
    <3>1. g[i] = IF i = 1 THEN seqs[i] ELSE h[i - 1] \o seqs[i]
      BY <2>1
    <3>2. u[i] = IF i = 1 THEN seqs[i] ELSE u[i - 1] \o seqs[i]
      BY <2>5
    <3>3. u[i] = g[i]
      <4>1. CASE i = 1
        BY <3>1, <3>2, <4>1
      <4>2. CASE i # 1
        <5>1. i - 1 \in 1 .. n /\ i - 1 # 0
          BY <1>0, <4>2
        <5>2. u[i - 1] = g[i - 1] /\ h[i - 1] = g[i - 1]
          BY <2>7, <5>1
        <5> QED BY <3>1, <3>2, <4>2, <5>2
      <4> QED BY <4>1, <4>2
    <3>4. i \in 0 .. n
      BY <1>0
    <3> QED BY <3>3, <3>4
  <2> HIDE DEF T
  <2>8. \A i \in 0 .. n : i \in T
    BY <1>0, <2>6, <2>7, UpTo
  <2>9. n \in T /\ n # 0
    BY <1>0, <1>2, <2>8
  <2>10. u[n] = g[n]
    BY <2>9 DEF T
  <2> QED BY <2>4, <2>10
<1> QED BY <1>1, <1>2

\* There is one.
LEMMA FlattenExists ==
  ASSUME NEW S, NEW seqs \in Seq(Seq(S))
  PROVE  \E g : Flattens(S, seqs, g)
<1> DEFINE n == Len(seqs)
           step == [i \in 1 .. n |-> [s \in Seq(S) |-> s \o seqs[i]]]
<1>1. n \in Nat /\ \A i \in 1 .. n : seqs[i] \in Seq(S)
  OBVIOUS
<1>2. step \in [1 .. n -> [Seq(S) -> Seq(S)]]
  <2>1. ASSUME NEW i \in 1 .. n, NEW s \in Seq(S) PROVE s \o seqs[i] \in Seq(S)
    BY <1>1, ConcatProperties
  <2> QED BY <2>1
<1>3. << >> \in Seq(S)
  OBVIOUS
<1>4. \A i \in 1 .. n, s \in Seq(S) : step[i][s] = s \o seqs[i]
  OBVIOUS
<1> HIDE DEF step, n
<1>5. PICK g : Walk(n, Seq(S), << >>, step, g)
  BY <1>1, <1>2, <1>3, StepsTaken DEF Steps
<1>6. ASSUME NEW i \in 1 .. n PROVE g[i] = g[i - 1] \o seqs[i]
  <2>1. i - 1 \in 0 .. n
    BY <1>1
  <2>2. g[i - 1] \in Seq(S)
    BY <1>5, <2>1 DEF Walk
  <2> QED BY <1>4, <1>5, <2>2 DEF Walk
<1> QED BY <1>5, <1>6 DEF Flattens, Walk, n

LEMMA FlattenNone == SeqExt!FlattenSeq(<< >>) = << >>
BY DEF SeqExt!FlattenSeq

\* One more part goes to the end.
LEMMA FlattenAppend ==
  ASSUME NEW S, NEW seqs \in Seq(Seq(S)), NEW x \in Seq(S)
  PROVE  /\ SeqExt!FlattenSeq(seqs) \in Seq(S)
         /\ Append(seqs, x) \in Seq(Seq(S))
         /\ SeqExt!FlattenSeq(Append(seqs, x)) = SeqExt!FlattenSeq(seqs) \o x
<1> DEFINE a == Append(seqs, x)
           n == Len(seqs)
<1>1. PICK g : Flattens(S, seqs, g)
  BY FlattenExists
<1>2. SeqExt!FlattenSeq(seqs) = g[n]
  BY <1>1, FlattenIs
<1>3. /\ a \in Seq(Seq(S)) /\ Len(a) = n + 1 /\ n \in Nat /\ a[n + 1] = x
      /\ \A i \in 1 .. n : a[i] = seqs[i]
  BY AppendProperties
<1> HIDE DEF a
<1> DEFINE h == [i \in 0 .. n + 1 |-> IF i = n + 1 THEN g[n] \o x ELSE g[i]]
<1>4. g[n] \in Seq(S) /\ g[n] \o x \in Seq(S) /\ \A i \in 0 .. n : g[i] \in Seq(S)
  <2>1. \A i \in 0 .. n : g[i] \in Seq(S)
    BY <1>1, <1>3 DEF Flattens
  <2>2. n \in 0 .. n
    BY <1>3
  <2>3. g[n] \in Seq(S)
    BY <2>1, <2>2
  <2> QED BY <2>1, <2>3, ConcatProperties
<1>5. h \in [0 .. Len(a) -> Seq(S)] /\ h[0] = << >> /\ h[Len(a)] = g[n] \o x
  <2>1. \A i \in 0 .. n + 1 : i # n + 1 => i \in 0 .. n
    BY <1>3
  <2>2. g[0] = << >> /\ 0 \in 0 .. n + 1 /\ 0 # n + 1 /\ n + 1 \in 0 .. n + 1
    BY <1>1, <1>3 DEF Flattens
  <2> QED BY <1>3, <1>4, <2>1, <2>2
<1>6. ASSUME NEW i \in 1 .. Len(a) PROVE h[i] = h[i - 1] \o a[i]
  <2>1. /\ i \in 0 .. n + 1 /\ i - 1 \in 0 .. n + 1 /\ i - 1 # n + 1
        /\ (i # n + 1 => i \in 1 .. n)
        /\ (i = n + 1 => i - 1 = n)
    BY <1>3
  <2>2. h[i - 1] = g[i - 1] /\ h[i] = IF i = n + 1 THEN g[n] \o x ELSE g[i]
    BY <2>1
  <2> HIDE DEF h
  <2>3. CASE i = n + 1
    BY <1>3, <2>1, <2>2, <2>3
  <2>4. CASE i # n + 1
    <3>1. g[i] = g[i - 1] \o seqs[i] /\ a[i] = seqs[i]
      BY <1>1, <1>3, <2>1, <2>4 DEF Flattens
    <3> QED BY <2>2, <2>4, <3>1
  <2> QED BY <2>3, <2>4
<1> HIDE DEF h
<1>7. Flattens(S, a, h)
  BY <1>5, <1>6 DEF Flattens
<1>8. SeqExt!FlattenSeq(a) = h[Len(a)]
  BY <1>3, <1>7, FlattenIs
<1> QED BY <1>2, <1>3, <1>4, <1>5, <1>8 DEF a

\* The first part comes first.
LEMMA FlattenTail ==
  ASSUME NEW S, NEW seqs \in Seq(Seq(S)), seqs # << >>
  PROVE  /\ Head(seqs) \in Seq(S) /\ Tail(seqs) \in Seq(Seq(S))
         /\ SeqExt!FlattenSeq(Tail(seqs)) \in Seq(S)
         /\ SeqExt!FlattenSeq(seqs) = Head(seqs) \o SeqExt!FlattenSeq(Tail(seqs))
<1>0. \A s, t, u \in Seq(S) : (s \o t) \o u = s \o (t \o u)
  BY ConcatAssoc
<1> DEFINE n == Len(seqs)
           a == Tail(seqs)
           x == Head(seqs)
<1>1. PICK g : Flattens(S, seqs, g)
  BY FlattenExists
<1>2. /\ a \in Seq(Seq(S)) /\ Len(a) = n - 1 /\ n \in Nat \ {0} /\ x = seqs[1]
      /\ x \in Seq(S) /\ \A i \in 1 .. n - 1 : a[i] = seqs[i + 1]
  BY EmptySeq, HeadTailProperties
<1> HIDE DEF a
<1>3. PICK h : Flattens(S, a, h)
  BY <1>2, FlattenExists
<1> DEFINE T == {i \in 0 .. n - 1 : g[i + 1] = x \o h[i]}
<1>4. 0 \in T
  <2>1. 1 \in 1 .. Len(seqs) /\ 1 - 1 = 0 /\ 0 + 1 = 1 /\ 0 \in 0 .. n - 1
    BY <1>2
  <2>2. g[1] = g[0] \o seqs[1] /\ g[0] = << >> /\ h[0] = << >>
    BY <1>1, <1>3, <2>1 DEF Flattens
  <2>3. << >> \o x = x /\ x \o << >> = x
    BY <1>2, ConcatEmptySeq
  <2> QED BY <1>2, <2>1, <2>2, <2>3
<1>5. ASSUME NEW i \in 1 .. n - 1, i - 1 \in T PROVE i \in T
  <2>1. /\ i \in 1 .. Len(a) /\ i - 1 \in 0 .. Len(a) /\ i + 1 \in 1 .. Len(seqs) /\ (i + 1) - 1 = i
        /\ (i - 1) + 1 = i /\ i \in 0 .. n - 1
    BY <1>2
  <2>2. h[i] = h[i - 1] \o a[i] /\ h[i - 1] \in Seq(S)
    BY <1>3, <2>1 DEF Flattens
  <2>3. g[i + 1] = g[i] \o seqs[i + 1]
    BY <1>1, <2>1 DEF Flattens
  <2>4. g[i] = x \o h[i - 1]
    BY <1>5, <2>1
  <2>5. a[i] = seqs[i + 1] /\ a[i] \in Seq(S)
    BY <1>2, <2>1
  <2> HIDE DEF x
  <2>6. (x \o h[i - 1]) \o a[i] = x \o (h[i - 1] \o a[i])
    <3> DEFINE y == h[i - 1]
               z == a[i]
    <3>1. x \in Seq(S) /\ y \in Seq(S) /\ z \in Seq(S)
      BY <1>2, <2>2, <2>5
    <3> HIDE DEF y, z
    <3>2. (x \o y) \o z = x \o (y \o z)
      BY <1>0, <3>1, Zenon
    <3> QED BY <3>2 DEF y, z
  <2>7. g[i + 1] = x \o h[i]
    BY <2>2, <2>3, <2>4, <2>5, <2>6, Zenon
  <2> QED BY <2>1, <2>7
<1> HIDE DEF T
<1>6. \A i \in 0 .. n - 1 : i \in T
  <2>1. n - 1 \in Nat
    BY <1>2
  <2> QED BY <1>4, <1>5, <2>1, UpTo
<1>7. g[n] = x \o h[n - 1] /\ h[n - 1] \in Seq(S)
  <2>1. n - 1 \in 0 .. n - 1 /\ (n - 1) + 1 = n
    BY <1>2
  <2>2. h[n - 1] \in Seq(S)
    BY <1>2, <1>3, <2>1 DEF Flattens
  <2> QED BY <1>6, <2>1, <2>2 DEF T
<1>8. SeqExt!FlattenSeq(seqs) = g[n] /\ SeqExt!FlattenSeq(a) = h[n - 1]
  BY <1>1, <1>2, <1>3, FlattenIs
<1> QED BY <1>2, <1>7, <1>8 DEF a

\* The parts of a flattened sequence, and what the first of them make.
SeqParts(f, n, S) == \A i \in 1 .. n : f[i] \in Seq(S)
Firsts(f, n)   == SeqExt!FlattenSeq([i \in 1 .. n |-> f[i]])

LEMMA FirstsNone ==
  ASSUME NEW f
  PROVE  Firsts(f, 0) = << >>
<1>1. [i \in 1 .. 0 |-> f[i]] = << >>
  OBVIOUS
<1> QED BY <1>1, FlattenNone DEF Firsts

LEMMA FirstsNext ==
  ASSUME NEW S, NEW f, NEW n \in Nat, SeqParts(f, n + 1, S)
  PROVE  /\ Firsts(f, n) \in Seq(S) /\ f[n + 1] \in Seq(S)
         /\ Firsts(f, n + 1) = Firsts(f, n) \o f[n + 1]
<1> DEFINE a == [i \in 1 .. n |-> f[i]]
           b == [i \in 1 .. n + 1 |-> f[i]]
           c == Append(a, f[n + 1])
<1>1. /\ f[n + 1] \in Seq(S) /\ a \in Seq(Seq(S)) /\ Len(a) = n
      /\ b \in Seq(Seq(S)) /\ Len(b) = n + 1
  BY DEF SeqParts
<1>2. (\A i \in 1 .. n : a[i] = f[i]) /\ \A i \in 1 .. n + 1 : b[i] = f[i]
  OBVIOUS
<1> HIDE DEF a, b
<1>3. /\ c \in Seq(Seq(S)) /\ Len(c) = n + 1 /\ c[n + 1] = f[n + 1]
      /\ \A i \in 1 .. n : c[i] = a[i]
  BY <1>1, AppendProperties
<1>4. b = c
  <2> HIDE DEF c
  <2>1. ASSUME NEW i \in 1 .. Len(b) PROVE b[i] = c[i]
    <3>1. i = n + 1 \/ i \in 1 .. n
      BY <1>1
    <3> QED BY <1>1, <1>2, <1>3, <3>1
  <2> QED BY <1>1, <1>3, <2>1, SeqEqual
<1>5. /\ SeqExt!FlattenSeq(a) \in Seq(S)
      /\ SeqExt!FlattenSeq(c) = SeqExt!FlattenSeq(a) \o f[n + 1]
  BY <1>1, FlattenAppend
<1> QED BY <1>1, <1>4, <1>5 DEF Firsts, a, b

LEMMA FirstsType ==
  ASSUME NEW S, NEW f, NEW n \in Nat, SeqParts(f, n, S)
  PROVE  Firsts(f, n) \in Seq(S)
<1> DEFINE a == [i \in 1 .. n |-> f[i]]
<1>1. a \in Seq(Seq(S)) /\ << >> \in Seq(S)
  BY DEF SeqParts
<1> HIDE DEF a
<1>2. SeqExt!FlattenSeq(a) \in Seq(S)
  BY <1>1, FlattenAppend
<1> QED BY <1>2 DEF Firsts, a

Continues(S, a, z) == \E t \in Seq(S) : z = a \o t

\* The first m parts make the beginning of what all of them make.
LEMMA FirstsBegin ==
  ASSUME NEW S, NEW f, NEW n \in Nat, SeqParts(f, n, S), NEW m \in 0 .. n
  PROVE  Continues(S, Firsts(f, m), Firsts(f, n))
<1>0. \A x, y, z \in Seq(S) : (x \o y) \o z = x \o (y \o z)
  BY ConcatAssoc
<1> DEFINE a == Firsts(f, m)
           T == {i \in 0 .. n - m : \E t \in Seq(S) : Firsts(f, m + i) = a \o t}
<1>1. n - m \in Nat /\ m \in Nat
  OBVIOUS
<1>2. a \in Seq(S)
  <2>1. SeqParts(f, m, S)
    BY DEF SeqParts
  <2> QED BY <1>1, <2>1, FirstsType
<1>3. 0 \in T
  <2>1. << >> \in Seq(S) /\ m + 0 = m /\ 0 \in 0 .. n - m
    BY <1>1
  <2>2. a = a \o << >>
    BY <1>2, ConcatEmptySeq
  <2> QED BY <2>1, <2>2
<1>4. ASSUME NEW i \in 1 .. n - m, i - 1 \in T PROVE i \in T
  <2>1. PICK t \in Seq(S) : Firsts(f, m + (i - 1)) = a \o t
    BY <1>4
  <2> DEFINE j == m + (i - 1)
             x == f[j + 1]
  <2>2. j \in Nat /\ j + 1 = m + i /\ SeqParts(f, j + 1, S) /\ i \in 0 .. n - m
    BY <1>1 DEF SeqParts
  <2>3. Firsts(f, j + 1) = Firsts(f, j) \o x /\ x \in Seq(S)
    <3> HIDE DEF j
    <3> QED BY <2>2, FirstsNext
  <2>4. t \o x \in Seq(S)
    <3> HIDE DEF x
    <3> QED BY <2>3, ConcatProperties
  <2> HIDE DEF a, x
  <2>5. (a \o t) \o x = a \o (t \o x)
    BY <1>0, <1>2, <2>3, Zenon
  <2>6. Firsts(f, m + i) = a \o (t \o x)
    BY <2>1, <2>2, <2>3, <2>5
  <2> QED BY <2>2, <2>4, <2>6
<1> HIDE DEF T
<1>5. \A i \in 0 .. n - m : i \in T
  BY <1>1, <1>3, <1>4, UpTo
<1>6. n - m \in T /\ m + (n - m) = n
  BY <1>1, <1>5
<1> QED BY <1>6 DEF T, Continues

\* The beginning of a sequence is a prefix of it.
LEMMA Begins ==
  ASSUME NEW S, NEW a \in Seq(S), NEW t \in Seq(S)
  PROVE  /\ SeqExt!IsPrefix(a, a \o t) /\ Len(a) <= Len(a \o t)
         /\ \A i \in 1 .. Len(a) : i \in 1 .. Len(a \o t) /\ (a \o t)[i] = a[i]
<1> DEFINE z == a \o t
           y == SubSeq(z, 1, Len(a))
<1>1. /\ Len(a) \in Nat /\ Len(t) \in Nat /\ Len(z) = Len(a) + Len(t) /\ z \in Seq(S)
      /\ \A i \in 1 .. Len(a) + Len(t) : z[i] = IF i <= Len(a) THEN a[i] ELSE t[i - Len(a)]
  BY ConcatProperties
<1> HIDE DEF z
<1>2. \A i \in 1 .. Len(a) : i \in 1 .. Len(z) /\ z[i] = a[i]
  BY <1>1
<1>3. SubSeq(a, 1, Len(a)) = a
  BY SubSeqFull
<1>4. y = a
  <2>1. \A i \in 1 .. Len(a) : z[i] \in S
    BY <1>2
  <2>2. /\ y \in Seq(S) /\ Len(y) = IF 1 <= Len(a) THEN Len(a) - 1 + 1 ELSE 0
        /\ \A i \in 1 .. Len(a) - 1 + 1 : y[i] = z[1 + i - 1]
    BY <1>1, <2>1, SubSeqProperties
  <2> HIDE DEF y
  <2>3. Len(y) = Len(a)
    BY <1>1, <2>2
  <2>4. ASSUME NEW i \in 1 .. Len(y) PROVE y[i] = a[i]
    <3>1. i \in 1 .. Len(a) - 1 + 1 /\ i \in 1 .. Len(a) /\ 1 + i - 1 = i
      BY <1>1, <2>3
    <3> QED BY <1>2, <2>2, <3>1
  <2> QED BY <2>2, <2>3, <2>4, SeqEqual
<1>5. Len(a) <= Len(z)
  BY <1>1
<1>6. SeqExt!IsPrefix(a, z)
  BY <1>3, <1>4, <1>5 DEF SeqExt!IsPrefix
<1> QED BY <1>2, <1>5, <1>6 DEF z

LEMMA FirstsPrefix ==
  ASSUME NEW S, NEW f, NEW n \in Nat, SeqParts(f, n, S), NEW m \in 0 .. n
  PROVE  SeqExt!IsPrefix(Firsts(f, m), Firsts(f, n))
<1>0. Continues(S, Firsts(f, m), Firsts(f, n))
  BY FirstsBegin
<1>1. PICK t \in Seq(S) : Firsts(f, n) = Firsts(f, m) \o t
  BY <1>0 DEF Continues
<1>2. Firsts(f, m) \in Seq(S)
  <2>1. SeqParts(f, m, S) /\ m \in Nat
    BY DEF SeqParts
  <2> QED BY <2>1, FirstsType
<1> DEFINE a == Firsts(f, m)
<1> HIDE DEF a
<1>3. SeqExt!IsPrefix(a, a \o t)
  BY <1>2, Begins DEF a
<1> QED BY <1>1, <1>3 DEF a

=============================================================================
