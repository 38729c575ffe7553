--------------------------- MODULE SurvivalProofs ---------------------------
(***************************************************************************)
(* Proofs about the survival rule, for any number of hosts, any weights    *)
(* and every fault scenario.                                               *)
(***************************************************************************)
EXTENDS Survival, FiniteSetTheorems, TLAPS

-----------------------------------------------------------------------------
(* Induction over a set of natural numbers, in place of a predicate. *)

LEMMA LeastNatural ==
  ASSUME NEW T, T \subseteq Nat, T # {}
  PROVE  \E n \in T : \A m \in T : n <= m
<1>1. IsWellFoundedOn(OpToRel(<, Nat), Nat)
  BY NatLessThanWellFounded, Zenon
<1>2. PICK n \in T : \A m \in T : ~ (<<m, n>> \in OpToRel(<, Nat))
  BY <1>1, WFMin, Zenon
<1>3. \A m \in T : ~ (m < n)
  BY <1>2, Zenon DEF OpToRel
<1> QED
  BY <1>3

LEMMA UpTo ==
  ASSUME NEW n \in Nat, NEW T, 0 \in T, \A m \in 0 .. n - 1 : m \in T => m + 1 \in T
  PROVE  0 .. n \subseteq T
<1> DEFINE Rest == (0 .. n) \ T
<1> SUFFICES ASSUME Rest # {} PROVE FALSE
  OBVIOUS
<1>1. PICK m \in Rest : \A k \in Rest : m <= k
  <2>1. Rest \subseteq Nat
    OBVIOUS
  <2> HIDE DEF Rest
  <2> QED
    BY <2>1, LeastNatural
<1>2. m # 0 /\ m - 1 \in 0 .. n - 1 /\ m - 1 \in T
  BY <1>1
<1> QED
  BY <1>1, <1>2

-----------------------------------------------------------------------------
(* The sum of the weights. *)

Term(w, S, n) == IF n \in S THEN w[n] ELSE 0

(* f[n] is what the loop over the hosts has added up before host n. *)
IsSum(f, w, S) ==
    /\ f \in [0 .. N -> Nat] /\ f[0] = 0
    /\ \A n \in 0 .. N - 1 : f[n + 1] = f[n] + Term(w, S, n)

Weighing == [Host -> Weights]

LEMMA TermType ==
  ASSUME NEW w \in Weighing, NEW S, NEW n \in 0 .. N - 1
  PROVE  Term(w, S, n) \in Nat
  BY SurvivalAssumption DEF Weighing, Term, Host

LEMMA SumExists ==
  ASSUME NEW w \in Weighing, NEW S
  PROVE  \E f : IsSum(f, w, S)
<1> DEFINE Good(n) == \E f \in [0 .. n -> Nat] :
              f[0] = 0 /\ \A m \in 0 .. n - 1 : f[m + 1] = f[m] + Term(w, S, m)
           T == {n \in Nat : Good(n)}
<1>1. 0 \in T
  <2> DEFINE z == [m \in 0 .. 0 |-> 0]
  <2>1. z \in [0 .. 0 -> Nat] /\ z[0] = 0 /\ \A m \in 0 .. 0 - 1 : FALSE
    OBVIOUS
  <2>2. Good(0)
    <3> HIDE DEF z
    <3> QED
      BY <2>1
  <2> QED
    BY <2>2, Zenon
<1>2. ASSUME NEW n \in 0 .. N - 1, n \in T PROVE n + 1 \in T
  <2>1. PICK f \in [0 .. n -> Nat] :
              f[0] = 0 /\ \A m \in 0 .. n - 1 : f[m + 1] = f[m] + Term(w, S, m)
    BY <1>2
  <2> DEFINE g == [m \in 0 .. n + 1 |-> IF m = n + 1 THEN f[n] + Term(w, S, n) ELSE f[m]]
  <2>2. g \in [0 .. n + 1 -> Nat] /\ g[0] = 0
    BY <2>1, TermType
  <2>3. ASSUME NEW m \in 0 .. (n + 1) - 1 PROVE g[m + 1] = g[m] + Term(w, S, m)
    BY <2>1
  <2>4. n + 1 \in Nat
    OBVIOUS
  <2> HIDE DEF g
  <2> QED
    BY <2>2, <2>3, <2>4
<1>3. 0 .. N \subseteq T
  <2> HIDE DEF T
  <2> QED
    BY <1>1, <1>2, UpTo, SurvivalAssumption
<1>4. Good(N)
  <2>1. N \in 0 .. N
    BY SurvivalAssumption
  <2> QED
    BY <1>3, <2>1, Zenon
<1> QED
  BY <1>4 DEF IsSum

LEMMA WeightIsSum ==
  ASSUME NEW w \in Weighing, NEW S
  PROVE  \E f : IsSum(f, w, S) /\ WeightOf(S, w) = f[N]
<1> DEFINE Loop(f) == f = [n \in 0 .. N |-> IF n = 0 THEN 0
                             ELSE f[n - 1] + (IF n - 1 \in S THEN w[n - 1] ELSE 0)]
<1>1. ASSUME NEW f, IsSum(f, w, S) PROVE Loop(f)
  <2>1. ASSUME NEW n \in 0 .. N, n # 0 PROVE f[n] = f[n - 1] + Term(w, S, n - 1)
    <3>1. n - 1 \in 0 .. N - 1 /\ (n - 1) + 1 = n
      BY <2>1, SurvivalAssumption
    <3> QED
      BY <1>1, <3>1 DEF IsSum
  <2> QED
    BY <1>1, <2>1 DEF IsSum, Term
<1>2. ASSUME NEW f, Loop(f) PROVE IsSum(f, w, S)
  <2>1. f[0] = 0 /\ \A n \in 0 .. N - 1 : f[n + 1] = f[n] + Term(w, S, n)
    BY <1>2, SurvivalAssumption DEF Term
  <2> DEFINE T == {n \in 0 .. N : f[n] \in Nat}
  <2>2. 0 \in T
    BY <2>1, SurvivalAssumption
  <2>3. ASSUME NEW n \in 0 .. N - 1, n \in T PROVE n + 1 \in T
    <3>1. Term(w, S, n) \in Nat
      BY TermType
    <3> QED
      BY <2>1, <2>3, <3>1, SurvivalAssumption
  <2>4. 0 .. N \subseteq T
    <3> HIDE DEF T
    <3> QED
      BY <2>2, <2>3, UpTo, SurvivalAssumption
  <2>5. f \in [0 .. N -> Nat]
    BY <1>2, <2>4
  <2> QED
    BY <2>1, <2>5 DEF IsSum
<1>3. \E f : Loop(f)
  BY <1>1, SumExists
<1>4. WeightOf(S, w) = (CHOOSE f : Loop(f))[N]
  BY DEF WeightOf
<1>5. Loop(CHOOSE f : Loop(f))
  <2> HIDE DEF Loop
  <2> QED
    BY <1>3
<1> QED
  BY <1>2, <1>4, <1>5

LEMMA WeightNat ==
  ASSUME NEW w \in Weighing, NEW S
  PROVE  WeightOf(S, w) \in Nat
  BY WeightIsSum, SurvivalAssumption DEF IsSum

LEMMA WeightEmpty ==
  ASSUME NEW w \in Weighing
  PROVE  WeightOf({}, w) = 0
<1>1. PICK f : IsSum(f, w, {}) /\ WeightOf({}, w) = f[N]
  BY WeightIsSum
<1> DEFINE T == {n \in 0 .. N : f[n] = 0}
<1>2. 0 \in T
  BY <1>1, SurvivalAssumption DEF IsSum
<1>3. \A n \in 0 .. N - 1 : n \in T => n + 1 \in T
  BY <1>1, SurvivalAssumption DEF IsSum, Term
<1>4. 0 .. N \subseteq T
  <2> HIDE DEF T
  <2> QED
    BY <1>2, <1>3, UpTo, SurvivalAssumption
<1> QED
  BY <1>1, <1>4, SurvivalAssumption

(* More hosts weigh no less. *)
LEMMA WeightMonotone ==
  ASSUME NEW w \in Weighing, NEW S, NEW R, S \subseteq R
  PROVE  WeightOf(S, w) <= WeightOf(R, w)
<1>1. PICK f : IsSum(f, w, S) /\ WeightOf(S, w) = f[N]
  BY WeightIsSum
<1>2. PICK g : IsSum(g, w, R) /\ WeightOf(R, w) = g[N]
  BY WeightIsSum
<1> DEFINE T == {n \in 0 .. N : f[n] <= g[n]}
<1>3. 0 \in T
  BY <1>1, <1>2, SurvivalAssumption DEF IsSum
<1>4. ASSUME NEW n \in 0 .. N - 1, n \in T PROVE n + 1 \in T
  <2>1. Term(w, S, n) <= Term(w, R, n) /\ Term(w, S, n) \in Nat /\ Term(w, R, n) \in Nat
    BY SurvivalAssumption, TermType DEF Weighing, Term, Host
  <2>2. n + 1 \in 0 .. N /\ f[n] \in Nat /\ g[n] \in Nat /\ f[n] <= g[n]
    BY <1>1, <1>2, <1>4, SurvivalAssumption DEF IsSum
  <2>3. f[n + 1] = f[n] + Term(w, S, n) /\ g[n + 1] = g[n] + Term(w, R, n)
    BY <1>1, <1>2 DEF IsSum
  <2> QED
    BY <2>1, <2>2, <2>3
<1>5. 0 .. N \subseteq T
  <2> HIDE DEF T
  <2> QED
    BY <1>3, <1>4, UpTo, SurvivalAssumption
<1> QED
  BY <1>1, <1>2, <1>5, SurvivalAssumption

-----------------------------------------------------------------------------
(* Scores and sizes of partitions. *)

LEMMA Finite ==
  ASSUME NEW S, S \subseteq Host
  PROVE  IsFiniteSet(S) /\ Cardinality(S) \in Nat
<1>1. IsFiniteSet(Host)
  BY FS_Interval, SurvivalAssumption DEF Host
<1> QED
  BY <1>1, FS_Subset, FS_CardinalityType

LEMMA MinOf ==
  ASSUME NEW S, S \subseteq Host, S # {}
  PROVE  Min(S) \in S /\ \A j \in S : Min(S) <= j
<1>1. S \subseteq Nat
  BY SurvivalAssumption DEF Host
<1>2. \E i \in S : \A j \in S : i <= j
  BY <1>1, LeastNatural
<1> QED
  BY <1>2 DEF Min

Index(S) == IF S = {} THEN 0 ELSE MaxHostNum - Min(S)
Byte == 0 .. 255

(* A score is made of three fields. *)
Packed(w, c, x) == w * 65536 + c * 256 + x

LEMMA ScoreIsPacked ==
  ASSUME NEW w, NEW S
  PROVE  get_partition_score(S, w) = Packed(WeightOf(S, w), Cardinality(S), Index(S))
  BY DEF get_partition_score, Index, Packed

LEMMA PackedType ==
  ASSUME NEW w \in Nat, NEW c \in Nat, NEW x \in Byte
  PROVE  Packed(w, c, x) \in Nat
  BY DEF Packed, Byte

(* The fields do not spill into each other: the middle one decides when    *)
(* the first are equal, and the last can be told from the sum.             *)
LEMMA PackedLess ==
  ASSUME NEW v \in Nat, NEW b \in Nat, NEW x \in Byte,
         NEW w \in Nat, NEW c \in Nat, NEW y \in Byte, v <= w, b < c
  PROVE  Packed(v, b, x) < Packed(w, c, y)
  BY DEF Packed, Byte

LEMMA PackedTie ==
  ASSUME NEW v \in Nat, NEW b \in Nat, NEW x \in Byte,
         NEW w \in Nat, NEW c \in Nat, NEW y \in Byte, Packed(v, b, x) = Packed(w, c, y)
  PROVE  x = y
<1> DEFINE k == (w - v) * 256 + (c - b)
<1>1. k \in Int /\ x = y + k * 256
  BY SMT DEF Packed, Byte
<1> HIDE DEF k
<1> QED
  BY <1>1, SMT DEF Byte

LEMMA FieldTypes ==
  ASSUME NEW w \in Weighing, NEW S, S \subseteq Host
  PROVE  /\ WeightOf(S, w) \in Nat /\ Cardinality(S) \in Nat /\ Index(S) \in Byte
<1>1. Index(S) \in Byte
  <2>1. CASE S = {}
    BY <2>1 DEF Index, Byte
  <2>2. CASE S # {}
    <3>1. PICK m \in Host : Min(S) = m
      BY <2>2, MinOf
    <3>2. Index(S) = MaxHostNum - m
      BY <2>2, <3>1 DEF Index
    <3> QED
      BY <3>1, <3>2, SurvivalAssumption DEF Host, Byte
  <2> QED
    BY <2>1, <2>2
<1> QED
  BY <1>1, WeightNat, Finite

LEMMA ScoreNat ==
  ASSUME NEW w \in Weighing, NEW S, S \subseteq Host
  PROVE  get_partition_score(S, w) \in Nat
  BY FieldTypes, ScoreIsPacked, PackedType

(* A part of a set of hosts has a lower score. *)
LEMMA ScoreStrict ==
  ASSUME NEW w \in Weighing, NEW S, NEW R, S \subseteq R, R \subseteq Host, S # R
  PROVE  get_partition_score(S, w) < get_partition_score(R, w)
<1>1. /\ WeightOf(S, w) \in Nat /\ Cardinality(S) \in Nat /\ Index(S) \in Byte
      /\ WeightOf(R, w) \in Nat /\ Cardinality(R) \in Nat /\ Index(R) \in Byte
  BY FieldTypes
<1>2. WeightOf(S, w) <= WeightOf(R, w)
  BY WeightMonotone
<1>3. Cardinality(S) < Cardinality(R)
  <2>1. IsFiniteSet(R)
    BY Finite
  <2> QED
    BY <1>1, <2>1, FS_Subset
<1> QED
  BY <1>1, <1>2, <1>3, ScoreIsPacked, PackedLess

(* Equal scores: the same lowest host. *)
LEMMA ScoreTie ==
  ASSUME NEW w \in Weighing, NEW S, NEW R, S \subseteq Host, R \subseteq Host, S # {}, R # {},
         get_partition_score(S, w) = get_partition_score(R, w)
  PROVE  S \cap R # {}
<1>1. /\ WeightOf(S, w) \in Nat /\ Cardinality(S) \in Nat /\ Index(S) \in Byte
      /\ WeightOf(R, w) \in Nat /\ Cardinality(R) \in Nat /\ Index(R) \in Byte
  BY FieldTypes
<1>2. Index(S) = Index(R)
  BY <1>1, ScoreIsPacked, PackedTie
<1>3. PICK m \in S : m = Min(S)
  BY MinOf
<1>4. PICK l \in R : l = Min(R)
  BY MinOf
<1>5. m \in Nat /\ l \in Nat
  BY SurvivalAssumption DEF Host
<1>6. m = l
  BY <1>2, <1>3, <1>4, <1>5, SurvivalAssumption DEF Index
<1> QED
  BY <1>6

LEMMA SizeType ==
  ASSUME NEW w \in Weighing, NEW S, S \subseteq Host, NEW R
  PROVE  /\ get_partition_size(S, R, w) \in Nat
         /\ get_partition_size(S, R, w) > 0 <=> S \cap R # {}
<1>1. S \cap R \subseteq Host /\ (S = {} => S \cap R = {})
  OBVIOUS
<1>2. Cardinality(S \cap R) \in Nat /\ WeightOf(S \cap R, w) \in Nat
  BY <1>1, Finite, WeightNat
<1>3. CASE S \cap R = {}
  <2>1. Cardinality(S \cap R) = 0 /\ WeightOf(S \cap R, w) = 0
    BY <1>3, WeightEmpty, FS_EmptySet, Zenon
  <2>2. get_partition_size(S, R, w) = 0
    BY <2>1 DEF get_partition_size
  <2> QED
    BY <1>3, <2>2
<1>4. CASE S \cap R # {}
  <2>1. Cardinality(S \cap R) # 0
    BY <1>1, <1>4, Finite, FS_EmptySet
  <2> QED
    BY <1>1, <1>2, <1>4, <2>1 DEF get_partition_size
<1> QED
  BY <1>3, <1>4

-----------------------------------------------------------------------------
(* The merge, on the heartbeat domains d of all hosts, their weights w and *)
(* the hosts sf with State-File: what is left of the domains when the      *)
(* hosts of R are removed, who is removed next, and when it ends.          *)

Network(d) ==
    /\ d \in [Host -> SUBSET Host]
    /\ \A i \in Host : i \in d[i]
    /\ \A i, j \in Host : j \in d[i] => i \in d[j]

Reduced(d, R) == [j \in Host |-> IF j \in R THEN {} ELSE d[j] \ R]

Score(d, w, R, j) == get_partition_score(Reduced(d, R)[j], w)

NextRemoved(d, w, R, j) ==
    /\ j \in Host \ R
    /\ \A k \in Host \ R : \/ Score(d, w, R, j) < Score(d, w, R, k)
                           \/ Score(d, w, R, j) = Score(d, w, R, k) /\ k <= j

Complete(d, w, R) == \A j \in Host : NextRemoved(d, w, R, j) => Reduced(d, R)[j] \cup R = Host

(* p has what is removed after each of the first n steps. *)
IsMerge(d, w, sf, p, n) ==
    /\ p \in [0 .. n -> SUBSET Host] /\ p[0] = Host \ sf
    /\ \A m \in 0 .. n - 1 :
          /\ ~ Complete(d, w, p[m])
          /\ \E j \in Host : NextRemoved(d, w, p[m], j) /\ p[m + 1] = p[m] \cup {j}

Stage(d, w, sf, R) == \E n \in Nat : \E p : IsMerge(d, w, sf, p, n) /\ p[n] = R

LEMMA ReducedScore ==
  ASSUME NEW d, Network(d), NEW w \in Weighing, NEW R, NEW j \in Host
  PROVE  Reduced(d, R)[j] \subseteq Host /\ Score(d, w, R, j) \in Nat
<1>1. Reduced(d, R)[j] \subseteq Host
  BY DEF Network, Reduced
<1> QED
  BY <1>1, ScoreNat DEF Score

LEMMA NextUnique ==
  ASSUME NEW d, Network(d), NEW w \in Weighing, NEW R,
         NEW j, NextRemoved(d, w, R, j), NEW k, NextRemoved(d, w, R, k)
  PROVE  j = k
<1>1. j \in Host \ R /\ k \in Host \ R /\ j \in Int /\ k \in Int
  BY SurvivalAssumption DEF NextRemoved, Host
<1>2. Score(d, w, R, j) \in Nat /\ Score(d, w, R, k) \in Nat
  BY <1>1, ReducedScore
<1>3. /\ \/ Score(d, w, R, j) < Score(d, w, R, k)
         \/ Score(d, w, R, j) = Score(d, w, R, k) /\ k <= j
      /\ \/ Score(d, w, R, k) < Score(d, w, R, j)
         \/ Score(d, w, R, k) = Score(d, w, R, j) /\ j <= k
  BY <1>1 DEF NextRemoved
<1> QED
  BY <1>1, <1>2, <1>3

LEMMA NextExists ==
  ASSUME NEW d, Network(d), NEW w \in Weighing, NEW R, Host \ R # {}
  PROVE  \E j \in Host : NextRemoved(d, w, R, j)
<1> DEFINE Scores == {Score(d, w, R, j) : j \in Host \ R}
<1>1. PICK s \in Scores : \A t \in Scores : s <= t
  <2>1. Scores \subseteq Nat /\ Scores # {}
    BY ReducedScore
  <2> HIDE DEF Scores
  <2> QED
    BY <2>1, LeastNatural
<1> DEFINE Low == {j \in Host \ R : Score(d, w, R, j) = s}
           Below == {N - j : j \in Low}
<1>2. PICK b \in Below : \A c \in Below : b <= c
  <2>1. Below \subseteq Nat /\ Below # {}
    BY SurvivalAssumption DEF Host
  <2> HIDE DEF Below
  <2> QED
    BY <2>1, LeastNatural
<1>3. PICK j \in Low : b = N - j
  OBVIOUS
<1>4. ASSUME NEW k \in Host \ R
      PROVE  \/ Score(d, w, R, j) < Score(d, w, R, k)
             \/ Score(d, w, R, j) = Score(d, w, R, k) /\ k <= j
  <2>1. Score(d, w, R, j) = s /\ s <= Score(d, w, R, k) /\ s \in Nat /\ Score(d, w, R, k) \in Nat
    BY <1>1, <1>3, ReducedScore
  <2>2. CASE Score(d, w, R, k) = s
    <3>1. N - k \in Below
      BY <2>2
    <3>2. N - j <= N - k
      BY <1>2, <1>3, <3>1
    <3> QED
      BY <2>1, <2>2, <3>2, SurvivalAssumption DEF Host
  <2> QED
    BY <2>1, <2>2
<1> QED
  BY <1>3, <1>4 DEF NextRemoved

(* When the merge ends, those who are left all hear each other. *)
LEMMA CompleteClique ==
  ASSUME NEW d, Network(d), NEW w \in Weighing, NEW R, R \subseteq Host, Complete(d, w, R),
         NEW k \in Host \ R
  PROVE  Reduced(d, R)[k] = Host \ R
<1>1. PICK j \in Host : NextRemoved(d, w, R, j)
  BY NextExists
<1>2. j \in Host \ R /\ Reduced(d, R)[j] \cup R = Host
  BY <1>1 DEF Complete, NextRemoved
<1>3. \A i \in Host \ R : Reduced(d, R)[i] \subseteq Host \ R
  BY DEF Network, Reduced
<1>4. Reduced(d, R)[j] = Host \ R
  BY <1>2, <1>3
<1> SUFFICES ASSUME Reduced(d, R)[k] # Host \ R PROVE FALSE
  OBVIOUS
<1>5. Score(d, w, R, k) < Score(d, w, R, j)
  BY <1>3, <1>4, ScoreStrict DEF Score
<1>6. Score(d, w, R, j) \in Nat /\ Score(d, w, R, k) \in Nat
  BY ReducedScore
<1>7. Score(d, w, R, j) <= Score(d, w, R, k)
  BY <1>1, <1>6 DEF NextRemoved
<1> QED
  BY <1>5, <1>6, <1>7

LEMMA StageGrows ==
  ASSUME NEW d, NEW w, NEW sf, NEW R, Stage(d, w, sf, R), ~ Complete(d, w, R),
         NEW j \in Host, NextRemoved(d, w, R, j)
  PROVE  Stage(d, w, sf, R \cup {j})
<1>n. PICK n \in Nat : \E p : IsMerge(d, w, sf, p, n) /\ p[n] = R
  BY DEF Stage
<1>1. PICK p : IsMerge(d, w, sf, p, n) /\ p[n] = R
  BY <1>n
<1> DEFINE q == [m \in 0 .. n + 1 |-> IF m = n + 1 THEN R \cup {j} ELSE p[m]]
<1>2. R \subseteq Host
  BY <1>1 DEF IsMerge
<1>3. q \in [0 .. n + 1 -> SUBSET Host] /\ q[0] = Host \ sf /\ q[n + 1] = R \cup {j}
  BY <1>1, <1>2 DEF IsMerge
<1>4. ASSUME NEW m \in 0 .. (n + 1) - 1
      PROVE  /\ ~ Complete(d, w, q[m])
             /\ \E k \in Host : NextRemoved(d, w, q[m], k) /\ q[m + 1] = q[m] \cup {k}
  <2>1. CASE m = n
    <3>1. q[m] = R /\ q[m + 1] = R \cup {j}
      BY <1>1, <2>1
    <3> QED
      BY <3>1
  <2>2. CASE m # n
    <3>1. m \in 0 .. n - 1 /\ q[m] = p[m] /\ q[m + 1] = p[m + 1]
      BY <2>2
    <3> QED
      BY <1>1, <3>1 DEF IsMerge
  <2> QED
    BY <2>1, <2>2
<1>5. n + 1 \in Nat
  OBVIOUS
<1> HIDE DEF q
<1>6. IsMerge(d, w, sf, q, n + 1)
  BY <1>3, <1>4 DEF IsMerge
<1> QED
  BY <1>3, <1>5, <1>6 DEF Stage

LEMMA StageStarts ==
  ASSUME NEW d, NEW w, NEW sf
  PROVE  Stage(d, w, sf, Host \ sf)
<1> DEFINE p == [m \in 0 .. 0 |-> Host \ sf]
<1>1. p \in [0 .. 0 -> SUBSET Host] /\ p[0] = Host \ sf /\ \A m \in 0 .. 0 - 1 : FALSE
  OBVIOUS
<1> HIDE DEF p
<1>2. IsMerge(d, w, sf, p, 0)
  BY <1>1 DEF IsMerge
<1> QED
  BY <1>1, <1>2 DEF Stage

(* The order in which hosts are removed is determined. *)
LEMMA MergesAgree ==
  ASSUME NEW d, Network(d), NEW w \in Weighing, NEW sf, NEW n \in Nat, NEW k \in Nat, n <= k,
         NEW p, IsMerge(d, w, sf, p, n), NEW q, IsMerge(d, w, sf, q, k)
  PROVE  p[n] = q[n]
<1> DEFINE T == {m \in 0 .. n : p[m] = q[m]}
<1>1. 0 \in T
  <2>1. p[0] = q[0] /\ 0 \in 0 .. n
    BY DEF IsMerge
  <2> QED
    BY <2>1
<1>2. ASSUME NEW m \in 0 .. n - 1, m \in T PROVE m + 1 \in T
  <2>1. PICK i \in Host : NextRemoved(d, w, p[m], i) /\ p[m + 1] = p[m] \cup {i}
    BY <1>2 DEF IsMerge
  <2>2. PICK j \in Host : NextRemoved(d, w, q[m], j) /\ q[m + 1] = q[m] \cup {j}
    BY <1>2 DEF IsMerge
  <2>3. p[m] = q[m]
    BY <1>2
  <2>4. i = j
    BY <2>1, <2>2, <2>3, NextUnique
  <2>5. p[m + 1] = q[m + 1] /\ m + 1 \in 0 .. n
    BY <2>1, <2>2, <2>3, <2>4
  <2> QED
    BY <2>5
<1>3. 0 .. n \subseteq T
  <2> HIDE DEF T
  <2> QED
    BY <1>1, <1>2, UpTo
<1> QED
  BY <1>3

(* Whoever does the merge ends with the same hosts. *)
LEMMA StagesAgree ==
  ASSUME NEW d, Network(d), NEW w \in Weighing, NEW sf,
         NEW R, Stage(d, w, sf, R), Complete(d, w, R),
         NEW Q, Stage(d, w, sf, Q), Complete(d, w, Q)
  PROVE  R = Q
<1>n. PICK n \in Nat : \E p : IsMerge(d, w, sf, p, n) /\ p[n] = R
  BY DEF Stage
<1>1. PICK p : IsMerge(d, w, sf, p, n) /\ p[n] = R
  BY <1>n
<1>k. PICK k \in Nat : \E q : IsMerge(d, w, sf, q, k) /\ q[k] = Q
  BY DEF Stage
<1>2. PICK q : IsMerge(d, w, sf, q, k) /\ q[k] = Q
  BY <1>k
<1>3. n <= k => p[n] = q[n]
  BY <1>1, <1>2, MergesAgree
<1>4. k <= n => p[k] = q[k]
  BY <1>1, <1>2, MergesAgree
<1>5. ~ (n < k)
  <2> SUFFICES ASSUME n < k PROVE FALSE
    OBVIOUS
  <2>1. n \in 0 .. k - 1
    OBVIOUS
  <2> QED
    BY <1>1, <1>2, <1>3, <2>1 DEF IsMerge
<1>6. ~ (k < n)
  <2> SUFFICES ASSUME k < n PROVE FALSE
    OBVIOUS
  <2>1. k \in 0 .. n - 1
    OBVIOUS
  <2> QED
    BY <1>1, <1>2, <1>4, <2>1 DEF IsMerge
<1> QED
  BY <1>1, <1>2, <1>3, <1>5, <1>6

(* The last host that is left is never removed. *)
LEMMA NextProper ==
  ASSUME NEW d, Network(d), NEW w \in Weighing, NEW R, R \subseteq Host, ~ Complete(d, w, R),
         NEW j \in Host, NextRemoved(d, w, R, j)
  PROVE  R \cup {j} # Host
<1> SUFFICES ASSUME R \cup {j} = Host PROVE FALSE
  OBVIOUS
<1>1. PICK k \in Host : NextRemoved(d, w, R, k) /\ Reduced(d, R)[k] \cup R # Host
  BY DEF Complete
<1>2. k = j
  BY <1>1, NextUnique
<1>3. j \in Reduced(d, R)[j] /\ Reduced(d, R)[j] \subseteq Host
  BY DEF Network, Reduced, NextRemoved
<1> QED
  BY <1>1, <1>2, <1>3

LEMMA StageProper ==
  ASSUME NEW d, Network(d), NEW w \in Weighing, NEW sf, sf \subseteq Host, sf # {},
         NEW R, Stage(d, w, sf, R)
  PROVE  R \subseteq Host /\ R # Host /\ Host \ R \subseteq sf
<1>n. PICK n \in Nat : \E p : IsMerge(d, w, sf, p, n) /\ p[n] = R
  BY DEF Stage
<1>1. PICK p : IsMerge(d, w, sf, p, n) /\ p[n] = R
  BY <1>n
<1> DEFINE T == {m \in 0 .. n : p[m] \subseteq Host /\ p[m] # Host /\ Host \ p[m] \subseteq sf}
<1>2. 0 \in T
  <2>1. p[0] = Host \ sf /\ 0 \in 0 .. n
    BY <1>1 DEF IsMerge
  <2> QED
    BY <2>1
<1>3. ASSUME NEW m \in 0 .. n - 1, m \in T PROVE m + 1 \in T
  <2>1. /\ ~ Complete(d, w, p[m])
        /\ \E j \in Host : NextRemoved(d, w, p[m], j) /\ p[m + 1] = p[m] \cup {j}
    BY <1>1 DEF IsMerge
  <2>2. p[m] \subseteq Host /\ Host \ p[m] \subseteq sf /\ m + 1 \in 0 .. n
    BY <1>3
  <2>3. PICK j \in Host : NextRemoved(d, w, p[m], j) /\ p[m + 1] = p[m] \cup {j}
    BY <2>1
  <2>4. p[m] \cup {j} # Host
    BY <2>1, <2>2, <2>3, NextProper
  <2> QED
    BY <2>2, <2>3, <2>4
<1>4. 0 .. n \subseteq T
  <2> HIDE DEF T
  <2> QED
    BY <1>2, <1>3, UpTo
<1> QED
  BY <1>1, <1>4

(* In a network that is split cleanly, no host of the partition with the   *)
(* highest score is removed.                                               *)
LEMMA CleanNext ==
  ASSUME NEW d, Network(d), \A i, j \in Host : j \in d[i] => d[j] = d[i],
         NEW w \in Weighing, NEW U, U \subseteq Host, NEW R, R \subseteq Host, Host \ R \subseteq U,
         NEW m \in U,
         \A k \in U : get_partition_score(d[k], w) <= get_partition_score(d[m], w),
         R \cap d[m] = {}, ~ Complete(d, w, R), NEW j \in Host, NextRemoved(d, w, R, j)
  PROVE  j \notin d[m]
<1> SUFFICES ASSUME j \in d[m] PROVE FALSE
  OBVIOUS
<1>1. Reduced(d, R)[j] = d[m]
  BY DEF Reduced
<1>2. ASSUME NEW k \in Host \ R PROVE k \in d[m]
  <2>1. Reduced(d, R)[k] = d[k] \ R /\ d[k] \subseteq Host /\ d[m] \subseteq Host /\ k \in U
    BY DEF Reduced, Network
  <2>2. /\ get_partition_score(d[k], w) \in Nat /\ get_partition_score(d[m], w) \in Nat
        /\ get_partition_score(d[k] \ R, w) \in Nat
    BY <2>1, ScoreNat
  <2>3. get_partition_score(d[k] \ R, w) <= get_partition_score(d[k], w)
    BY <2>1, <2>2, ScoreStrict
  <2>4. get_partition_score(d[m], w) <= get_partition_score(d[k] \ R, w)
    <3>1. Score(d, w, R, j) = get_partition_score(d[m], w)
      BY <1>1 DEF Score
    <3>2. Score(d, w, R, k) = get_partition_score(d[k] \ R, w)
      BY <2>1 DEF Score
    <3>3. \/ Score(d, w, R, j) < Score(d, w, R, k)
          \/ Score(d, w, R, j) = Score(d, w, R, k)
      BY DEF NextRemoved
    <3> QED
      BY <2>2, <3>1, <3>2, <3>3
  <2>5. get_partition_score(d[k], w) <= get_partition_score(d[m], w)
    BY <2>1
  <2>6. get_partition_score(d[m], w) = get_partition_score(d[k] \ R, w)
    BY <2>2, <2>3, <2>4, <2>5
  <2>7. k \in d[k] \ R /\ m \in d[m]
    BY DEF Network
  <2>8. (d[k] \ R) \cap d[m] # {}
    BY <2>1, <2>6, <2>7, ScoreTie
  <2>9. PICK i \in Host : i \in d[k] /\ i \in d[m]
    BY <2>1, <2>8
  <2> QED
    BY <2>1, <2>7, <2>9
<1>3. PICK k \in Host : NextRemoved(d, w, R, k) /\ Reduced(d, R)[k] \cup R # Host
  BY DEF Complete
<1>4. k = j
  BY <1>3, NextUnique
<1>5. d[m] \subseteq Host
  BY DEF Network
<1> QED
  BY <1>1, <1>2, <1>3, <1>4, <1>5

LEMMA CleanStage ==
  ASSUME NEW d, Network(d), \A i, j \in Host : j \in d[i] => d[j] = d[i],
         NEW w \in Weighing, NEW U, U \subseteq Host, \A i \in U : d[i] \subseteq U,
         NEW m \in U,
         \A k \in U : get_partition_score(d[k], w) <= get_partition_score(d[m], w),
         NEW R, Stage(d, w, U, R)
  PROVE  R \cap d[m] = {}
<1>n. PICK n \in Nat : \E p : IsMerge(d, w, U, p, n) /\ p[n] = R
  BY DEF Stage
<1>1. PICK p : IsMerge(d, w, U, p, n) /\ p[n] = R
  BY <1>n
<1> DEFINE T == {h \in 0 .. n : /\ p[h] \subseteq Host /\ Host \ p[h] \subseteq U
                                /\ p[h] \cap d[m] = {}}
<1>2. 0 \in T
  <2>1. p[0] = Host \ U /\ 0 \in 0 .. n
    BY <1>1 DEF IsMerge
  <2> QED
    BY <2>1
<1>3. ASSUME NEW h \in 0 .. n - 1, h \in T PROVE h + 1 \in T
  <2>1. /\ ~ Complete(d, w, p[h])
        /\ \E j \in Host : NextRemoved(d, w, p[h], j) /\ p[h + 1] = p[h] \cup {j}
    BY <1>1 DEF IsMerge
  <2>2. p[h] \subseteq Host /\ Host \ p[h] \subseteq U /\ p[h] \cap d[m] = {} /\ h + 1 \in 0 .. n
    BY <1>3
  <2>3. PICK j \in Host : NextRemoved(d, w, p[h], j) /\ p[h + 1] = p[h] \cup {j}
    BY <2>1
  <2>4. j \notin d[m]
    BY <2>1, <2>2, <2>3, CleanNext
  <2> QED
    BY <2>2, <2>3, <2>4
<1>4. 0 .. n \subseteq T
  <2> HIDE DEF T
  <2> QED
    BY <1>2, <1>3, UpTo
<1> QED
  BY <1>1, <1>4

-----------------------------------------------------------------------------
(* What the hosts know in a scenario. *)

Dom == [i \in Host |-> HbDomain(i)]

(* Host i and everybody it hears, on either medium, see the same. *)
Agreed(i) ==
    /\ \A j \in HbDomain(i) : HbDomain(j) = HbDomain(i) /\ (j \in sfhosts <=> i \in sfhosts)
    /\ i \in sfhosts => \A j \in sfhosts : HbDomain(j) = HbDomain(i)

(* The heartbeat domains host i has read from the State-File. *)
RawRead(i) == [j \in Host |-> psf_raw_hbdomain(i, j) \cap Liveset]

LEMMA ScenarioFacts ==
  ASSUME TypeOK
  PROVE  /\ Network(Dom) /\ weight \in Weighing
         /\ \A i \in Host : Dom[i] = HbDomain(i) /\ HbDomain(i) \subseteq Host /\ i \in HbDomain(i)
         /\ \A i \in up : HbDomain(i) \subseteq up
         /\ up \subseteq Liveset /\ sfhosts \subseteq up /\ up \subseteq Host /\ Liveset \subseteq Host
         /\ \A i, j \in Host : j \in HbDomain(i) /\ j # i => {i, j} \in link
         /\ \A i, j \in Host : {i, j} \in link => j \in HbDomain(i)
<1>1. up \subseteq Liveset /\ sfhosts \subseteq up /\ up \subseteq Host /\ Liveset \subseteq Host
  BY DEF TypeOK, Liveset
<1>2. \A i \in Host : Dom[i] = HbDomain(i) /\ HbDomain(i) \subseteq Host /\ i \in HbDomain(i)
  BY DEF Dom, HbDomain
<1>3. \A i, j \in Host : {i, j} = {j, i}
  OBVIOUS
<1>4. \A i, j \in Host : j \in HbDomain(i) => i \in HbDomain(j)
  BY <1>3, Zenon DEF HbDomain
<1>5. Network(Dom)
  <2>1. Dom \in [Host -> SUBSET Host]
    BY DEF Dom, HbDomain
  <2> QED
    BY <1>2, <1>4, <2>1 DEF Network
<1>6. ASSUME NEW i \in up PROVE HbDomain(i) \subseteq up
  <2>1. \A j : {i, j} \in link => j \in up
    BY DEF TypeOK
  <2> QED
    BY <2>1 DEF HbDomain
<1>7. weight \in Weighing
  BY DEF TypeOK, Weighing
<1>8. /\ \A i, j \in Host : j \in HbDomain(i) /\ j # i => {i, j} \in link
      /\ \A i, j \in Host : {i, j} \in link => j \in HbDomain(i)
  BY DEF HbDomain
<1> QED
  BY <1>1, <1>2, <1>5, <1>6, <1>7, <1>8

(* The test of the first phase finds out whether the views agree. *)
LEMMA ConsistentAgreed ==
  ASSUME TypeOK, NEW i \in up, hbdomain[i] = HbDomain(i), sfdomain[i] = SfDomain(i)
  PROVE  Consistent(i) <=> Agreed(i)
<1>1. /\ HbDomain(i) \subseteq up /\ up \subseteq Liveset /\ sfhosts \subseteq up
      /\ up \subseteq Host /\ Liveset \subseteq Host
      /\ \A j \in up : HbDomain(j) \cap Liveset = HbDomain(j)
      /\ \A j \in Host : j \in HbDomain(i) /\ j # i => {i, j} \in link
      /\ \A j \in Host : SfDomain(j) \cap Liveset = SfDomain(j)
      /\ i \in HbDomain(i) /\ i \in Host
  BY ScenarioFacts DEF SfDomain
<1>2. ASSUME NEW j \in HbDomain(i), j # i
      PROVE  /\ phb_raw_hbdomain(i, j) \cap Liveset = HbDomain(j)
             /\ phb_raw_sfdomain(i, j) \cap Liveset = SfDomain(j)
             /\ j \in Liveset \ {i}
  BY <1>1, <1>2 DEF phb_raw_hbdomain, phb_raw_sfdomain
<1>3. ASSUME NEW j \in SfDomain(i), j # i
      PROVE  /\ psf_raw_hbdomain(i, j) \cap Liveset = HbDomain(j)
             /\ psf_raw_sfdomain(i, j) \cap Liveset = SfDomain(i)
             /\ j \in Liveset \ {i} /\ i \in sfhosts /\ j \in sfhosts
  BY <1>1, <1>3 DEF psf_raw_hbdomain, psf_raw_sfdomain, Fresh, SfDomain
<1>4. \A j \in Host : SfDomain(i) = SfDomain(j) <=> (j \in sfhosts <=> i \in sfhosts)
  BY DEF SfDomain
<1>5. SfDomain(i) = sfhosts \/ (i \notin sfhosts /\ SfDomain(i) = {})
  BY DEF SfDomain
<1>6. ASSUME Consistent(i) PROVE Agreed(i)
  <2>1. ASSUME NEW j \in HbDomain(i)
        PROVE  HbDomain(j) = HbDomain(i) /\ (j \in sfhosts <=> i \in sfhosts)
    <3>1. CASE j = i
      BY <3>1
    <3>2. CASE j # i
      <4>1. HbDomain(i) = HbDomain(j) /\ SfDomain(i) = SfDomain(j)
        BY <1>2, <1>6, <3>2 DEF Consistent
      <4> QED
        BY <1>1, <1>4, <4>1
    <3> QED
      BY <3>1, <3>2
  <2>2. ASSUME i \in sfhosts, NEW j \in sfhosts PROVE HbDomain(j) = HbDomain(i)
    <3>1. j \in SfDomain(i)
      BY <1>5, <2>2
    <3>2. CASE j = i
      BY <3>2
    <3>3. CASE j # i
      <4>1. psf_raw_hbdomain(i, j) \cap Liveset = HbDomain(j) /\ j \in Liveset \ {i}
        BY <1>3, <3>1, <3>3
      <4> QED
        BY <1>6, <3>1, <4>1 DEF Consistent
    <3> QED
      BY <3>2, <3>3
  <2> QED
    BY <2>1, <2>2 DEF Agreed
<1>7. ASSUME Agreed(i) PROVE Consistent(i)
  <2> SUFFICES ASSUME NEW j \in Liveset \ {i}
               PROVE  /\ j \in HbDomain(i) =>
                            /\ HbDomain(i) = phb_raw_hbdomain(i, j) \cap Liveset
                            /\ SfDomain(i) = phb_raw_sfdomain(i, j) \cap Liveset
                      /\ j \in SfDomain(i) =>
                            /\ SfDomain(i) = psf_raw_sfdomain(i, j) \cap Liveset
                            /\ HbDomain(i) = psf_raw_hbdomain(i, j) \cap Liveset
    BY DEF Consistent
  <2>1. ASSUME j \in HbDomain(i) PROVE HbDomain(i) = HbDomain(j) /\ SfDomain(i) = SfDomain(j)
    BY <1>1, <1>4, <1>7, <2>1 DEF Agreed
  <2>2. ASSUME j \in SfDomain(i) PROVE HbDomain(i) = HbDomain(j)
    BY <1>3, <1>7, <2>2 DEF Agreed
  <2> QED
    BY <1>2, <1>3, <2>1, <2>2
<1> QED
  BY <1>6, <1>7

(* When a host with State-File finds the views agreed, so do all of them.  *)
LEMMA AgreedSpreads ==
  ASSUME TypeOK, NEW i \in sfhosts, Agreed(i)
  PROVE  HbDomain(i) = sfhosts /\ \A j \in sfhosts : Agreed(j)
<1>1. \A j \in sfhosts : j \in HbDomain(j) /\ HbDomain(j) = HbDomain(i)
  BY ScenarioFacts DEF Agreed
<1>2. HbDomain(i) = sfhosts
  BY <1>1 DEF Agreed
<1> QED
  BY <1>1, <1>2 DEF Agreed

-----------------------------------------------------------------------------
(* The merge of host i is the merge of the network. *)

LEMMA SelectedIsNext ==
  ASSUME NEW i \in Host, raw[i] = Reduced(Dom, removedhost[i]), NEW j
  PROVE  Selected(i, j) <=> NextRemoved(Dom, weight, removedhost[i], j)
  BY DEF Selected, NextRemoved, Score

LEMMA PerfectIsComplete ==
  ASSUME NEW i \in Host, raw[i] = Reduced(Dom, removedhost[i])
  PROVE  Perfect(i) <=> Complete(Dom, weight, removedhost[i])
  BY SelectedIsNext DEF Perfect, Complete

LEMMA ReducedAgain ==
  ASSUME NEW d, NEW R, NEW j
  PROVE  Without(Reduced(d, R), {j}) = Reduced(d, R \cup {j})
<1>1. \A k \in Host : Without(Reduced(d, R), {j})[k] = Reduced(d, R \cup {j})[k]
  BY DEF Without, Reduced
<1> QED
  BY <1>1 DEF Without, Reduced

-----------------------------------------------------------------------------
(* The inductive invariant. *)

(* A host that found the views agreed decides from the domains it has. *)
DecidesAgreed(i) ==
    /\ pc[i] # "merge" /\ hbdomain[i] = HbDomain(i)
    /\ pc[i] = "won" =>
          IF i \in sfhosts THEN proposed[i] = sfhosts
          ELSE sfhosts = {} /\ HbDomain(i) = Liveset /\ proposed[i] = Liveset
    /\ pc[i] = "lost" => i \notin sfhosts /\ HbDomain(i) # Liveset

(* One that reaches the State-File removes the hosts the network's merge   *)
(* removes, in its order, and survives when it is not among them.          *)
DecidesMerged(i) ==
    /\ raw[i] = Reduced(Dom, removedhost[i])
    /\ Stage(Dom, weight, sfhosts, removedhost[i])
    /\ pc[i] # "merge" => Complete(Dom, weight, removedhost[i]) /\ hbdomain[i] = raw[i][i]
    /\ pc[i] = "won" => i \notin removedhost[i] /\ proposed[i] = Host \ removedhost[i]
    /\ pc[i] = "lost" => i \in removedhost[i]

(* One that does not has nobody left, and loses. *)
DecidesAlone(i) ==
    /\ removedhost[i] = Host /\ raw[i][i] = {}
    /\ pc[i] # "merge" => hbdomain[i] = {}
    /\ pc[i] # "won"

HostInv(i) ==
    /\ sfdomain[i] = SfDomain(i)
    /\ pc[i] \in {"view", "merge", "test"} => proposed[i] = Liveset
    /\ pc[i] = "view" => hbdomain[i] = HbDomain(i) /\ raw[i] = RawRead(i)
    /\ pc[i] # "view" =>
          IF Agreed(i) THEN DecidesAgreed(i)
          ELSE IF i \in sfhosts THEN DecidesMerged(i) ELSE DecidesAlone(i)

IInv ==
    /\ TypeOK
    /\ \A i \in Host : pc[i] = "down" <=> i \notin up
    /\ \A i \in up : HostInv(i)

LEMMA InitInv == Init => IInv
<1> SUFFICES ASSUME Init PROVE IInv
  OBVIOUS
<1>1. TypeOK
  BY SurvivalAssumption DEF Init, TypeOK, HbDomain, SfDomain, Liveset, psf_raw_hbdomain
<1>2. \A i \in Host : pc[i] = "down" <=> i \notin up
  BY DEF Init
<1>3. ASSUME NEW i \in up PROVE HostInv(i)
  <2>1. i \in Host /\ HbDomain(i) \cap Liveset = HbDomain(i) /\ SfDomain(i) \cap Liveset = SfDomain(i)
    BY <1>1, ScenarioFacts DEF SfDomain
  <2>2. pc[i] = "view" /\ hbdomain[i] = HbDomain(i) /\ sfdomain[i] = SfDomain(i)
    BY <2>1 DEF Init
  <2>3. raw[i] = RawRead(i) /\ proposed[i] = Liveset
    BY <2>1 DEF Init, RawRead
  <2> QED
    BY <2>2, <2>3 DEF HostInv
<1> QED
  BY <1>1, <1>2, <1>3 DEF IInv

(* The scenario lasts, and so does what follows from it. *)
LEMMA ScenarioKept ==
  ASSUME UNCHANGED scenario
  PROVE  /\ up' = up /\ sfhosts' = sfhosts /\ weight' = weight /\ Liveset' = Liveset /\ Dom' = Dom
         /\ link' = link /\ excluded' = excluded
         /\ \A i \in Host : /\ HbDomain(i)' = HbDomain(i) /\ SfDomain(i)' = SfDomain(i)
                            /\ RawRead(i)' = RawRead(i) /\ (Agreed(i)' <=> Agreed(i))
<1>1. /\ up' = up /\ sfhosts' = sfhosts /\ weight' = weight /\ Liveset' = Liveset
      /\ link' = link /\ excluded' = excluded
  BY DEF scenario, Liveset
<1>2. \A i : HbDomain(i)' = HbDomain(i)
  BY <1>1 DEF HbDomain
<1>3. \A i : SfDomain(i)' = SfDomain(i)
  BY <1>1 DEF SfDomain
<1>4. Dom' = Dom
  BY <1>2 DEF Dom
<1>5. ASSUME NEW i \in Host PROVE RawRead(i)' = RawRead(i)
  BY <1>1, <1>2 DEF RawRead, psf_raw_hbdomain, Fresh
<1>6. ASSUME NEW i \in Host PROVE Agreed(i)' <=> Agreed(i)
  BY <1>1, <1>2 DEF Agreed
<1> QED
  BY <1>1, <1>2, <1>3, <1>4, <1>5, <1>6

(* What host i decides depends on its own copies only. *)
LEMMA HostKept ==
  ASSUME NEW i \in Host, UNCHANGED scenario,
         UNCHANGED <<pc[i], hbdomain[i], sfdomain[i], raw[i], removedhost[i], proposed[i]>>,
         HostInv(i)
  PROVE  HostInv(i)'
<1>1. /\ pc'[i] = pc[i] /\ hbdomain'[i] = hbdomain[i] /\ sfdomain'[i] = sfdomain[i]
      /\ raw'[i] = raw[i] /\ removedhost'[i] = removedhost[i] /\ proposed'[i] = proposed[i]
  OBVIOUS
<1>2. /\ sfhosts' = sfhosts /\ weight' = weight /\ Liveset' = Liveset /\ Dom' = Dom
      /\ HbDomain(i)' = HbDomain(i) /\ SfDomain(i)' = SfDomain(i)
      /\ RawRead(i)' = RawRead(i) /\ (Agreed(i)' <=> Agreed(i))
  BY ScenarioKept
<1>3. DecidesAgreed(i) => DecidesAgreed(i)'
  BY <1>1, <1>2 DEF DecidesAgreed
<1>4. DecidesMerged(i) => DecidesMerged(i)'
  BY <1>1, <1>2 DEF DecidesMerged
<1>5. DecidesAlone(i) => DecidesAlone(i)'
  BY <1>1, <1>2 DEF DecidesAlone
<1> QED
  BY <1>1, <1>2, <1>3, <1>4, <1>5 DEF HostInv

-----------------------------------------------------------------------------
(* What the rules answer. *)

LEMMA AgreedWins ==
  ASSUME TypeOK, NEW i \in sfhosts, Agreed(i), hbdomain[i] = HbDomain(i), sfdomain[i] = SfDomain(i)
  PROVE  FirstRule(i)
<1>1. hbdomain[i] = sfhosts /\ sfdomain[i] = sfhosts
  BY AgreedSpreads DEF SfDomain
<1> QED
  BY <1>1 DEF FirstRule

(* The sizes host i compares after its merge: hosts that were removed have *)
(* none, those that are left have the same.                                *)
LEMMA MergedSizes ==
  ASSUME TypeOK, NEW i \in sfhosts, sfdomain[i] = SfDomain(i), DecidesMerged(i), pc[i] # "merge"
  PROVE  LET size == get_partition_size(sfhosts, Host \ removedhost[i], weight)
         IN  /\ size \in Nat /\ size > 0
             /\ \A j \in Host : IF j \in removedhost[i] THEN partition_size(i, j) = 0
                                ELSE partition_size(i, j) = size
<1> DEFINE R == removedhost[i]
           size == get_partition_size(sfhosts, Host \ R, weight)
<1>1. /\ Network(Dom) /\ weight \in Weighing /\ sfhosts \subseteq Host /\ i \in Host
      /\ sfhosts \cap Liveset = sfhosts
  BY ScenarioFacts
<1>2. R \subseteq Host /\ R # Host /\ Host \ R \subseteq sfhosts
  <2>1. Stage(Dom, weight, sfhosts, R) /\ sfhosts # {}
    BY DEF DecidesMerged
  <2> HIDE DEF R
  <2> QED
    BY <1>1, <2>1, StageProper
<1>3. \A j \in Host \ R : Reduced(Dom, R)[j] = Host \ R
  BY <1>1, <1>2, CompleteClique DEF DecidesMerged
<1>4. \A j \in R : Reduced(Dom, R)[j] = {}
  BY <1>2 DEF Reduced
<1>5. size \in Nat /\ size > 0
  <2>1. sfhosts \cap (Host \ R) # {}
    BY <1>2
  <2> QED
    BY <1>1, <2>1, SizeType
<1>6. get_partition_size(sfhosts, {}, weight) = 0
  <2>1. sfhosts \cap {} = {}
    OBVIOUS
  <2>2. get_partition_size(sfhosts, {}, weight) \in Nat /\ ~ (get_partition_size(sfhosts, {}, weight) > 0)
    BY <1>1, <2>1, SizeType
  <2> QED
    BY <2>2
<1>7. ASSUME NEW j \in sfhosts
      PROVE  partition_size(i, j) = get_partition_size(sfhosts, Reduced(Dom, R)[j], weight)
  <2>1. sfdomain[i] = sfhosts /\ hbdomain[i] = Reduced(Dom, R)[i] /\ raw[i] = Reduced(Dom, R)
    BY DEF SfDomain, DecidesMerged
  <2>2. psf_raw_sfdomain(i, j) \cap Liveset = sfhosts
    BY <1>1 DEF psf_raw_sfdomain, Fresh, SfDomain
  <2> HIDE DEF R
  <2> QED
    BY <2>1, <2>2 DEF partition_size
<1>8. ASSUME NEW j \in Host \ sfhosts PROVE partition_size(i, j) = 0
  BY DEF partition_size, SfDomain
<1>9. ASSUME NEW j \in Host
      PROVE  IF j \in R THEN partition_size(i, j) = 0 ELSE partition_size(i, j) = size
  <2> HIDE DEF R
  <2>1. CASE j \in R
    BY <1>4, <1>6, <1>7, <1>8, <2>1
  <2>2. CASE j \notin R
    BY <1>2, <1>3, <1>7, <2>2
  <2> QED
    BY <2>1, <2>2
<1> QED
  BY <1>5, <1>9

LEMMA MergedWins ==
  ASSUME TypeOK, NEW i \in sfhosts, sfdomain[i] = SfDomain(i), DecidesMerged(i), pc[i] # "merge"
  PROVE  /\ FirstRule(i) <=> i \notin removedhost[i]
         /\ i \notin removedhost[i] => hbdomain[i] = Host \ removedhost[i]
         /\ i \in removedhost[i] => hbdomain[i] = {}
         /\ Host \ removedhost[i] \subseteq sfhosts
<1> DEFINE R == removedhost[i]
           size == get_partition_size(sfhosts, Host \ R, weight)
<1>1. /\ size \in Nat /\ size > 0
      /\ \A j \in Host : IF j \in R THEN partition_size(i, j) = 0 ELSE partition_size(i, j) = size
  BY MergedSizes
<1>2. /\ Network(Dom) /\ weight \in Weighing /\ sfhosts \subseteq Host /\ i \in Host
      /\ sfhosts \cap Liveset = sfhosts
  BY ScenarioFacts
<1>3. R \subseteq Host /\ R # Host /\ Host \ R \subseteq sfhosts
  <2>1. Stage(Dom, weight, sfhosts, R) /\ sfhosts # {}
    BY DEF DecidesMerged
  <2> HIDE DEF R
  <2> QED
    BY <1>2, <2>1, StageProper
<1>4. \A j \in Host \ R : Reduced(Dom, R)[j] = Host \ R
  BY <1>2, <1>3, CompleteClique DEF DecidesMerged
<1>5. sfdomain[i] = sfhosts /\ hbdomain[i] = Reduced(Dom, R)[i] /\ raw[i] = Reduced(Dom, R)
  BY DEF SfDomain, DecidesMerged
<1> HIDE DEF R, size
<1>6. ASSUME i \notin R PROVE FirstRule(i) /\ hbdomain[i] = Host \ R
  <2>1. hbdomain[i] = Host \ R
    BY <1>2, <1>4, <1>5, <1>6
  <2>2. PICK j \in Host \ R : \A k \in Host \ R : j <= k
    <3>1. Host \ R # {}
      BY <1>3
    <3>2. Host \ R \subseteq Nat
      BY SurvivalAssumption DEF Host
    <3> QED
      BY <3>1, <3>2, LeastNatural
  <2>3. WinnerIndex(i, j)
    <3>1. partition_size(i, j) = size
      BY <1>1
    <3>2. ASSUME NEW k \in Host
          PROVE  IF k < j THEN partition_size(i, k) < partition_size(i, j)
                          ELSE partition_size(i, k) <= partition_size(i, j)
      <4>1. CASE k \in R
        BY <1>1, <3>1, <4>1
      <4>2. CASE k \notin R
        <5>1. ~ (k < j)
          BY <2>2, <4>2, SurvivalAssumption DEF Host
        <5>2. partition_size(i, k) = size
          BY <1>1, <4>2
        <5> QED
          BY <1>1, <3>1, <5>1, <5>2
      <4> QED
        BY <4>1, <4>2
    <3> QED
      BY <1>1, <3>1, <3>2 DEF WinnerIndex
  <2>4. j \in sfhosts /\ j \in Host
    BY <1>3
  <2>5. i \in psf_raw_sfdomain(i, j)
    BY <2>4 DEF psf_raw_sfdomain, Fresh, SfDomain
  <2>6. i \in raw[i][j] /\ j \in sfdomain[i] \cap hbdomain[i]
    BY <1>2, <1>4, <1>5, <1>6, <2>1, <2>4
  <2>7. am_I_in_largest_partition(i)
    BY <2>3, <2>4, <2>5, <2>6 DEF am_I_in_largest_partition
  <2> QED
    BY <2>1, <2>7 DEF FirstRule
<1>7. ASSUME i \in R PROVE ~ FirstRule(i) /\ hbdomain[i] = {}
  <2>1. hbdomain[i] = {}
    BY <1>2, <1>5, <1>7 DEF Reduced
  <2>2. ~ WinnerIndex(i, i)
    BY <1>1, <1>2, <1>7 DEF WinnerIndex
  <2>3. ~ am_I_in_largest_partition(i)
    BY <2>1, <2>2 DEF am_I_in_largest_partition
  <2> QED
    BY <1>5, <2>1, <2>3 DEF FirstRule
<1> QED
  BY <1>3, <1>6, <1>7 DEF R

LEMMA NoFileNoFirstRule ==
  ASSUME TypeOK, NEW i \in up, i \notin sfhosts, sfdomain[i] = SfDomain(i)
  PROVE  ~ FirstRule(i)
<1>1. sfdomain[i] = {}
  BY DEF SfDomain
<1>2. \A j \in Host : ~ WinnerIndex(i, j)
  BY <1>1 DEF WinnerIndex, partition_size
<1> QED
  BY <1>1, <1>2 DEF FirstRule, am_I_in_largest_partition

(* A host with nobody left does not survive by the second rule: itself is  *)
(* not heard, and not excluded.                                            *)
LEMMA EmptyLoses ==
  ASSUME TypeOK, NEW i \in up, hbdomain[i] = {}
  PROVE  ~ SurvivalRule2(i)
  BY DEF TypeOK, SurvivalRule2

LEMMA SecondRule ==
  ASSUME TypeOK, NEW i \in up, i \notin sfhosts, Agreed(i), hbdomain[i] = HbDomain(i)
  PROVE  /\ SurvivalRule2(i) <=> HbDomain(i) = Liveset
         /\ HbDomain(i) = Liveset => sfhosts = {}
<1>1. /\ i \in Host /\ HbDomain(i) \subseteq Liveset /\ sfhosts \subseteq Liveset
      /\ \A j \in Host : j \in HbDomain(i) /\ j # i => {i, j} \in link
  BY ScenarioFacts
<1>2. \A j \in HbDomain(i) : j \notin sfhosts
  BY DEF Agreed
<1>3. ASSUME NEW j \in Host, j \in HbDomain(i)
      PROVE  ~ (IF j = i THEN i \in sfhosts ELSE j \in phb_raw_sfdomain(i, j))
  <2>1. CASE j = i
    BY <2>1
  <2>2. CASE j # i
    <3>1. phb_raw_sfdomain(i, j) = {}
      BY <1>1, <1>2, <1>3, <2>2 DEF phb_raw_sfdomain, SfDomain
    <3> QED
      BY <2>2, <3>1
  <2> QED
    BY <2>1, <2>2
<1>4. SurvivalRule2(i) <=> \A j \in Host : j \notin HbDomain(i) => j \in excluded
  BY <1>3 DEF SurvivalRule2
<1>5. (\A j \in Host : j \notin HbDomain(i) => j \in excluded) <=> HbDomain(i) = Liveset
  BY <1>1 DEF Liveset
<1> QED
  BY <1>1, <1>2, <1>4, <1>5

-----------------------------------------------------------------------------
(* Every action of a host keeps its invariant. *)

LEMMA ViewStep ==
  ASSUME IInv, NEW i \in up, ViewConsistent(i)
  PROVE  HostInv(i)'
<1>1. TypeOK /\ HostInv(i) /\ i \in Host /\ pc[i] = "view" /\ Consistent(i) /\ UNCHANGED scenario
  BY DEF IInv, TypeOK, ViewConsistent
<1>2. /\ sfdomain[i] = SfDomain(i) /\ hbdomain[i] = HbDomain(i) /\ proposed[i] = Liveset
  BY <1>1 DEF HostInv
<1>3. Agreed(i)
  BY <1>1, <1>2, ConsistentAgreed
<1>4. /\ pc'[i] = "test" /\ hbdomain' = hbdomain /\ sfdomain' = sfdomain /\ proposed' = proposed
  BY <1>1 DEF ViewConsistent, TypeOK
<1>5. /\ SfDomain(i)' = SfDomain(i) /\ HbDomain(i)' = HbDomain(i) /\ Liveset' = Liveset
      /\ Agreed(i)'
  BY <1>1, <1>3, ScenarioKept
<1>6. DecidesAgreed(i)'
  BY <1>2, <1>4, <1>5 DEF DecidesAgreed
<1> QED
  BY <1>2, <1>4, <1>5, <1>6 DEF HostInv

(* No host of the SF domain is dropped when the time is over. *)
LEMMA TimeoutKeepsDomain ==
  ASSUME TypeOK, NEW i \in up, NEW j \in SfDomain(i)
  PROVE  /\ psf_raw_sfdomain(i, j) \cap Liveset # {}
         /\ phb_raw_sfdomain(i, j) \cap Liveset # {}
<1>1. i \in sfhosts /\ j \in sfhosts /\ i \in Host /\ i \in Liveset
  BY ScenarioFacts DEF SfDomain
<1>2. i \in psf_raw_sfdomain(i, j) /\ i \in phb_raw_sfdomain(i, j)
  BY <1>1 DEF psf_raw_sfdomain, phb_raw_sfdomain, SfDomain
<1> QED
  BY <1>1, <1>2

LEMMA TimeoutStep ==
  ASSUME IInv, NEW i \in up, ViewTimeout(i)
  PROVE  HostInv(i)'
<1>1. TypeOK /\ HostInv(i) /\ i \in Host /\ pc[i] = "view" /\ ~ Consistent(i) /\ UNCHANGED scenario
  BY DEF IInv, TypeOK, ViewTimeout
<1>2. /\ sfdomain[i] = SfDomain(i) /\ hbdomain[i] = HbDomain(i) /\ proposed[i] = Liveset
      /\ raw[i] = RawRead(i)
  BY <1>1 DEF HostInv
<1>3. ~ Agreed(i)
  BY <1>1, <1>2, ConsistentAgreed
<1>4. /\ SfDomain(i)' = SfDomain(i) /\ Liveset' = Liveset /\ ~ Agreed(i)'
      /\ sfhosts' = sfhosts /\ weight' = weight /\ Dom' = Dom
  BY <1>1, <1>3, ScenarioKept
<1> DEFINE lost == {j \in Host \ {i} : \/ psf_raw_sfdomain(i, j) \cap Liveset = {}
                                       \/ phb_raw_sfdomain(i, j) \cap Liveset = {}}
<1>5. sfdomain[i] \ lost = SfDomain(i)
  BY <1>1, <1>2, TimeoutKeepsDomain
<1>6. /\ sfdomain' = [sfdomain EXCEPT ![i] = SfDomain(i)]
      /\ removedhost' = [removedhost EXCEPT ![i] = Host \ SfDomain(i)]
      /\ raw' = [raw EXCEPT ![i] = Without([@ EXCEPT ![i] = hbdomain[i]], Host \ SfDomain(i))]
  <2> HIDE DEF lost
  <2>1. /\ sfdomain' = [sfdomain EXCEPT ![i] = sfdomain[i] \ lost]
        /\ removedhost' = [removedhost EXCEPT ![i] = Host \ (sfdomain[i] \ lost)]
        /\ raw' = [raw EXCEPT ![i] =
              Without([@ EXCEPT ![i] = hbdomain[i]], Host \ (sfdomain[i] \ lost))]
    BY DEF ViewTimeout, lost
  <2> QED
    BY <1>5, <2>1
<1>7. /\ pc'[i] = "merge" /\ sfdomain'[i] = SfDomain(i) /\ removedhost'[i] = Host \ SfDomain(i)
      /\ raw'[i] = Without([RawRead(i) EXCEPT ![i] = HbDomain(i)], Host \ SfDomain(i))
      /\ proposed' = proposed
  BY <1>1, <1>2, <1>6 DEF ViewTimeout, TypeOK
<1>8. ASSUME i \in sfhosts PROVE DecidesMerged(i)'
  <2>1. SfDomain(i) = sfhosts
    BY <1>8 DEF SfDomain
  <2>2. raw'[i] = Reduced(Dom, Host \ sfhosts)
    <3>1. ASSUME NEW j \in Host
          PROVE  raw'[i][j] = IF j \in Host \ sfhosts THEN {} ELSE HbDomain(j) \ (Host \ sfhosts)
      <4>1. CASE j \in sfhosts
        <5>1. RawRead(i)[j] = HbDomain(j)
          BY <1>1, <1>8, <4>1, ScenarioFacts DEF RawRead, psf_raw_hbdomain, Fresh
        <5>2. [RawRead(i) EXCEPT ![i] = HbDomain(i)][j] = HbDomain(j)
          BY <5>1 DEF RawRead
        <5> QED
          BY <1>7, <2>1, <4>1, <5>2 DEF Without
      <4>2. CASE j \notin sfhosts
        BY <1>7, <2>1, <4>2 DEF Without
      <4> QED
        BY <4>1, <4>2
    <3>2. raw'[i] = [j \in Host |-> raw'[i][j]]
      BY <1>7 DEF Without
    <3> QED
      BY <3>1, <3>2 DEF Reduced, Dom
  <2>3. Stage(Dom, weight, sfhosts, Host \ sfhosts)
    BY StageStarts
  <2> QED
    BY <1>4, <1>7, <2>1, <2>2, <2>3 DEF DecidesMerged
<1>9. ASSUME i \notin sfhosts PROVE DecidesAlone(i)'
  <2>1. SfDomain(i) = {}
    BY <1>9 DEF SfDomain
  <2>2. removedhost'[i] = Host /\ raw'[i][i] = {}
    BY <1>1, <1>7, <2>1 DEF Without
  <2> QED
    BY <1>7, <2>2 DEF DecidesAlone
<1> QED
  BY <1>2, <1>4, <1>7, <1>8, <1>9 DEF HostInv

LEMMA RemoveStep ==
  ASSUME IInv, NEW i \in up, MergeRemove(i)
  PROVE  HostInv(i)'
<1>1. TypeOK /\ HostInv(i) /\ i \in Host /\ pc[i] = "merge" /\ ~ Perfect(i) /\ UNCHANGED scenario
  BY DEF IInv, TypeOK, MergeRemove
<1>2. PICK j \in Host : /\ Selected(i, j)
                        /\ raw' = [raw EXCEPT ![i] = Without(@, {j})]
                        /\ removedhost' = [removedhost EXCEPT ![i] = @ \cup {j}]
  BY DEF MergeRemove
<1>3. /\ SfDomain(i)' = SfDomain(i) /\ Liveset' = Liveset /\ (Agreed(i)' <=> Agreed(i))
      /\ sfhosts' = sfhosts /\ weight' = weight /\ Dom' = Dom
  BY <1>1, ScenarioKept
<1>4. ~ Agreed(i) /\ i \in sfhosts /\ DecidesMerged(i)
  <2>1. ~ Agreed(i)
    BY <1>1 DEF HostInv, DecidesAgreed
  <2>2. j \notin removedhost[i]
    BY <1>2 DEF Selected
  <2> QED
    BY <1>1, <2>1, <2>2 DEF HostInv, DecidesAlone
<1>5. /\ raw[i] = Reduced(Dom, removedhost[i]) /\ Stage(Dom, weight, sfhosts, removedhost[i])
      /\ sfdomain[i] = SfDomain(i) /\ proposed[i] = Liveset
  BY <1>1, <1>4 DEF DecidesMerged, HostInv
<1>6. ~ Complete(Dom, weight, removedhost[i]) /\ NextRemoved(Dom, weight, removedhost[i], j)
  BY <1>1, <1>2, <1>5, SelectedIsNext, PerfectIsComplete
<1>7. /\ pc'[i] = "merge" /\ raw'[i] = Without(raw[i], {j}) /\ removedhost'[i] = removedhost[i] \cup {j}
      /\ sfdomain' = sfdomain /\ proposed' = proposed
  BY <1>1, <1>2 DEF MergeRemove, TypeOK
<1>8. raw'[i] = Reduced(Dom, removedhost'[i]) /\ Stage(Dom, weight, sfhosts, removedhost'[i])
  <2>1. Stage(Dom, weight, sfhosts, removedhost[i] \cup {j})
    BY <1>5, <1>6, StageGrows
  <2>2. Without(Reduced(Dom, removedhost[i]), {j}) = Reduced(Dom, removedhost[i] \cup {j})
    BY ReducedAgain
  <2> QED
    BY <1>5, <1>7, <2>1, <2>2
<1>9. DecidesMerged(i)'
  BY <1>3, <1>7, <1>8 DEF DecidesMerged
<1> QED
  BY <1>3, <1>4, <1>5, <1>7, <1>9 DEF HostInv

LEMMA DoneStep ==
  ASSUME IInv, NEW i \in up, MergeDone(i)
  PROVE  HostInv(i)'
<1>1. TypeOK /\ HostInv(i) /\ i \in Host /\ pc[i] = "merge" /\ Perfect(i) /\ UNCHANGED scenario
  BY DEF IInv, TypeOK, MergeDone
<1>2. /\ SfDomain(i)' = SfDomain(i) /\ Liveset' = Liveset /\ (Agreed(i)' <=> Agreed(i))
      /\ sfhosts' = sfhosts /\ weight' = weight /\ Dom' = Dom
  BY <1>1, ScenarioKept
<1>3. ~ Agreed(i) /\ sfdomain[i] = SfDomain(i) /\ proposed[i] = Liveset
  BY <1>1 DEF HostInv, DecidesAgreed
<1>4. /\ pc'[i] = "test" /\ hbdomain'[i] = raw[i][i] /\ raw' = raw /\ removedhost' = removedhost
      /\ sfdomain' = sfdomain /\ proposed' = proposed
  BY <1>1 DEF MergeDone, TypeOK
<1>5. ASSUME i \in sfhosts PROVE DecidesMerged(i)'
  <2>1. DecidesMerged(i)
    BY <1>1, <1>3, <1>5 DEF HostInv
  <2>2. Complete(Dom, weight, removedhost[i])
    BY <1>1, <2>1, PerfectIsComplete DEF DecidesMerged
  <2> QED
    BY <1>2, <1>4, <2>1, <2>2 DEF DecidesMerged
<1>6. ASSUME i \notin sfhosts PROVE DecidesAlone(i)'
  <2>1. DecidesAlone(i)
    BY <1>1, <1>3, <1>6 DEF HostInv
  <2> QED
    BY <1>4, <2>1 DEF DecidesAlone
<1> QED
  BY <1>2, <1>3, <1>4, <1>5, <1>6 DEF HostInv

(* What a host knows in its test, in the three cases. *)
LEMMA TestFacts ==
  ASSUME IInv, NEW i \in up, pc[i] = "test"
  PROVE  /\ TypeOK /\ i \in Host /\ sfdomain[i] = SfDomain(i) /\ proposed[i] = Liveset
         /\ Agreed(i) => DecidesAgreed(i)
         /\ ~ Agreed(i) /\ i \in sfhosts => DecidesMerged(i)
         /\ ~ Agreed(i) /\ i \notin sfhosts => DecidesAlone(i)
  BY DEF IInv, HostInv, TypeOK

LEMMA WinStep ==
  ASSUME IInv, NEW i \in up, WinByFirstRule(i)
  PROVE  HostInv(i)'
<1>1. pc[i] = "test" /\ FirstRule(i) /\ UNCHANGED scenario
  BY DEF WinByFirstRule
<1>2. TypeOK /\ i \in Host /\ sfdomain[i] = SfDomain(i) /\ proposed[i] = Liveset
  BY <1>1, TestFacts
<1>3. i \in sfhosts /\ SfDomain(i) = sfhosts /\ sfhosts \subseteq Liveset /\ sfhosts \subseteq Host
  BY <1>1, <1>2, NoFileNoFirstRule, ScenarioFacts DEF SfDomain
<1>4. /\ pc'[i] = "won" /\ hbdomain' = hbdomain /\ sfdomain' = sfdomain
      /\ raw' = raw /\ removedhost' = removedhost
      /\ proposed'[i] = proposed[i] \cap hbdomain[i] \cap (IF SR2[i] THEN Host ELSE sfdomain[i])
  BY <1>1, <1>2 DEF WinByFirstRule, Survive, TypeOK
<1>5. /\ SfDomain(i)' = SfDomain(i) /\ HbDomain(i)' = HbDomain(i) /\ Liveset' = Liveset
      /\ (Agreed(i)' <=> Agreed(i)) /\ sfhosts' = sfhosts /\ weight' = weight /\ Dom' = Dom
  BY <1>1, <1>2, ScenarioKept
<1>6. CASE Agreed(i)
  <2>1. hbdomain[i] = HbDomain(i) /\ HbDomain(i) = sfhosts
    BY <1>1, <1>2, <1>3, <1>6, TestFacts, AgreedSpreads DEF DecidesAgreed
  <2>2. proposed'[i] = sfhosts
    BY <1>2, <1>3, <1>4, <2>1
  <2>3. DecidesAgreed(i)'
    BY <1>3, <1>4, <1>5, <2>1, <2>2 DEF DecidesAgreed
  <2> QED
    BY <1>2, <1>4, <1>5, <1>6, <2>3 DEF HostInv
<1>7. CASE ~ Agreed(i)
  <2>1. DecidesMerged(i)
    BY <1>1, <1>3, <1>7, TestFacts
  <2>2. /\ i \notin removedhost[i] /\ hbdomain[i] = Host \ removedhost[i]
        /\ Host \ removedhost[i] \subseteq sfhosts
    BY <1>1, <1>2, <1>3, <2>1, MergedWins
  <2>3. proposed'[i] = Host \ removedhost[i]
    BY <1>2, <1>3, <1>4, <2>2
  <2>4. DecidesMerged(i)'
    BY <1>1, <1>4, <1>5, <2>1, <2>2, <2>3 DEF DecidesMerged
  <2> QED
    BY <1>2, <1>3, <1>4, <1>5, <1>7, <2>4 DEF HostInv
<1> QED
  BY <1>6, <1>7

LEMMA SecondWinStep ==
  ASSUME IInv, NEW i \in up, WinBySecondRule(i)
  PROVE  HostInv(i)'
<1>1. pc[i] = "test" /\ ~ FirstRule(i) /\ SurvivalRule2(i) /\ UNCHANGED scenario
  BY DEF WinBySecondRule
<1>2. TypeOK /\ i \in Host /\ sfdomain[i] = SfDomain(i) /\ proposed[i] = Liveset
  BY <1>1, TestFacts
<1>3. hbdomain[i] # {}
  BY <1>1, <1>2, EmptyLoses
<1>4. Agreed(i) /\ i \notin sfhosts
  <2>1. ASSUME i \in sfhosts, Agreed(i) PROVE FALSE
    BY <1>1, <1>2, <2>1, TestFacts, AgreedWins DEF DecidesAgreed
  <2>2. ASSUME i \in sfhosts, ~ Agreed(i) PROVE FALSE
    <3>1. DecidesMerged(i) /\ pc[i] # "merge"
      BY <1>1, <2>2, TestFacts
    <3> QED
      BY <1>1, <1>2, <1>3, <2>2, <3>1, MergedWins
  <2>3. ASSUME i \notin sfhosts, ~ Agreed(i) PROVE FALSE
    BY <1>1, <1>3, <2>3, TestFacts DEF DecidesAlone
  <2> QED
    BY <2>1, <2>2, <2>3
<1>5. hbdomain[i] = HbDomain(i)
  BY <1>1, <1>4, TestFacts DEF DecidesAgreed
<1>6. HbDomain(i) = Liveset /\ sfhosts = {}
  BY <1>1, <1>2, <1>4, <1>5, SecondRule
<1>7. /\ pc'[i] = "won" /\ hbdomain' = hbdomain /\ sfdomain' = sfdomain
      /\ proposed'[i] = proposed[i] \cap hbdomain[i] \cap Host
  BY <1>1, <1>2 DEF WinBySecondRule, Survive, TypeOK
<1>8. proposed'[i] = Liveset
  BY <1>2, <1>5, <1>6, <1>7 DEF Liveset
<1>9. /\ SfDomain(i)' = SfDomain(i) /\ HbDomain(i)' = HbDomain(i) /\ Liveset' = Liveset
      /\ Agreed(i)' /\ sfhosts' = sfhosts
  BY <1>1, <1>2, <1>4, ScenarioKept
<1>10. DecidesAgreed(i)'
  BY <1>4, <1>5, <1>6, <1>7, <1>8, <1>9 DEF DecidesAgreed
<1> QED
  BY <1>2, <1>7, <1>9, <1>10 DEF HostInv

LEMMA LoseStep ==
  ASSUME IInv, NEW i \in up, Lose(i)
  PROVE  HostInv(i)'
<1>1. pc[i] = "test" /\ ~ FirstRule(i) /\ ~ SurvivalRule2(i) /\ UNCHANGED scenario
  BY DEF Lose
<1>2. TypeOK /\ i \in Host /\ sfdomain[i] = SfDomain(i) /\ proposed[i] = Liveset
  BY <1>1, TestFacts
<1>3. /\ pc'[i] = "lost" /\ hbdomain' = hbdomain /\ sfdomain' = sfdomain
      /\ raw' = raw /\ removedhost' = removedhost
  BY <1>1, <1>2 DEF Lose, TypeOK
<1>4. /\ SfDomain(i)' = SfDomain(i) /\ HbDomain(i)' = HbDomain(i) /\ Liveset' = Liveset
      /\ (Agreed(i)' <=> Agreed(i)) /\ sfhosts' = sfhosts /\ weight' = weight /\ Dom' = Dom
  BY <1>1, <1>2, ScenarioKept
<1>5. CASE Agreed(i)
  <2>1. hbdomain[i] = HbDomain(i)
    BY <1>1, <1>5, TestFacts DEF DecidesAgreed
  <2>2. i \notin sfhosts
    BY <1>1, <1>2, <1>5, <2>1, AgreedWins
  <2>3. HbDomain(i) # Liveset
    BY <1>1, <1>2, <1>5, <2>1, <2>2, SecondRule
  <2>4. DecidesAgreed(i)'
    BY <1>3, <1>4, <2>1, <2>2, <2>3 DEF DecidesAgreed
  <2> QED
    BY <1>2, <1>3, <1>4, <1>5, <2>4 DEF HostInv
<1>6. CASE ~ Agreed(i) /\ i \in sfhosts
  <2>1. DecidesMerged(i) /\ pc[i] # "merge"
    BY <1>1, <1>6, TestFacts
  <2>2. i \in removedhost[i]
    BY <1>1, <1>2, <1>6, <2>1, MergedWins
  <2>3. DecidesMerged(i)'
    BY <1>1, <1>3, <1>4, <2>1, <2>2 DEF DecidesMerged
  <2> QED
    BY <1>2, <1>3, <1>4, <1>6, <2>3 DEF HostInv
<1>7. CASE ~ Agreed(i) /\ i \notin sfhosts
  <2>1. DecidesAlone(i)
    BY <1>1, <1>7, TestFacts
  <2>2. DecidesAlone(i)'
    BY <1>1, <1>3, <2>1 DEF DecidesAlone
  <2> QED
    BY <1>2, <1>3, <1>4, <1>7, <2>2 DEF HostInv
<1> QED
  BY <1>5, <1>6, <1>7

(* What an action of host i leaves alone. *)
LEMMA OwnCopies ==
  ASSUME TypeOK, NEW i \in Host, FaultHandler(i)
  PROVE  /\ UNCHANGED scenario /\ pc[i] # "down" /\ pc'[i] # "down"
         /\ \A j \in Host \ {i} :
               UNCHANGED <<pc[j], hbdomain[j], sfdomain[j], raw[j], removedhost[j], proposed[j]>>
<1> USE DEF TypeOK
<1>1. CASE ViewConsistent(i)
  BY <1>1 DEF ViewConsistent
<1>2. CASE ViewTimeout(i)
  BY <1>2 DEF ViewTimeout
<1>3. CASE MergeRemove(i)
  BY <1>3 DEF MergeRemove
<1>4. CASE MergeDone(i)
  BY <1>4 DEF MergeDone
<1>5. CASE WinByFirstRule(i)
  BY <1>5 DEF WinByFirstRule, Survive
<1>6. CASE WinBySecondRule(i)
  BY <1>6 DEF WinBySecondRule, Survive
<1>7. CASE Lose(i)
  BY <1>7 DEF Lose
<1> QED
  BY <1>1, <1>2, <1>3, <1>4, <1>5, <1>6, <1>7 DEF FaultHandler

LEMMA WithoutType ==
  ASSUME NEW d \in [Host -> SUBSET Host], NEW R
  PROVE  Without(d, R) \in [Host -> SUBSET Host]
  BY DEF Without

LEMMA TypeStep ==
  ASSUME TypeOK, NEW i \in Host, FaultHandler(i)
  PROVE  TypeOK'
<1>1. /\ (up \in SUBSET Host /\ excluded \in SUBSET (Host \ up))'
      /\ (link \in SUBSET SUBSET up /\ sfhosts \in SUBSET up)'
      /\ (weight \in [Host -> Weights])'
  <2>1. UNCHANGED <<up, excluded, link, sfhosts, weight>>
    BY OwnCopies DEF scenario
  <2> QED
    BY <2>1 DEF TypeOK
<1>2. CASE ViewConsistent(i)
  BY <1>1, <1>2 DEF TypeOK, ViewConsistent
<1>3. CASE ViewTimeout(i)
  <2>1. PICK mine : /\ mine \subseteq Host
                    /\ sfdomain' = [sfdomain EXCEPT ![i] = mine]
                    /\ removedhost' = [removedhost EXCEPT ![i] = Host \ mine]
                    /\ raw' = [raw EXCEPT ![i] = Without([@ EXCEPT ![i] = hbdomain[i]], Host \ mine)]
    <3> DEFINE lost == {j \in Host \ {i} : \/ psf_raw_sfdomain(i, j) \cap Liveset = {}
                                           \/ phb_raw_sfdomain(i, j) \cap Liveset = {}}
               own == sfdomain[i] \ lost
    <3>1. own \subseteq Host
      BY DEF TypeOK
    <3>2. /\ sfdomain' = [sfdomain EXCEPT ![i] = own]
          /\ removedhost' = [removedhost EXCEPT ![i] = Host \ own]
          /\ raw' = [raw EXCEPT ![i] = Without([@ EXCEPT ![i] = hbdomain[i]], Host \ own)]
      BY <1>3 DEF ViewTimeout
    <3> HIDE DEF own
    <3> QED
      BY <3>1, <3>2
  <2>2. [raw[i] EXCEPT ![i] = hbdomain[i]] \in [Host -> SUBSET Host]
    BY DEF TypeOK
  <2>3. Without([raw[i] EXCEPT ![i] = hbdomain[i]], Host \ mine) \in [Host -> SUBSET Host]
    BY <2>2, WithoutType
  <2>4. /\ sfdomain' \in [Host -> SUBSET Host] /\ removedhost' \in [Host -> SUBSET Host]
        /\ raw' \in [Host -> [Host -> SUBSET Host]]
    BY <2>1, <2>3 DEF TypeOK
  <2> QED
    BY <1>1, <1>3, <2>4 DEF TypeOK, ViewTimeout
<1>4. CASE MergeRemove(i)
  <2>1. PICK j \in Host : /\ raw' = [raw EXCEPT ![i] = Without(@, {j})]
                          /\ removedhost' = [removedhost EXCEPT ![i] = @ \cup {j}]
    BY <1>4 DEF MergeRemove
  <2>2. Without(raw[i], {j}) \in [Host -> SUBSET Host]
    BY WithoutType DEF TypeOK
  <2>3. removedhost' \in [Host -> SUBSET Host] /\ raw' \in [Host -> [Host -> SUBSET Host]]
    <3>1. removedhost' \in [Host -> SUBSET Host]
      BY <2>1, <2>2 DEF TypeOK
    <3>2. raw' \in [Host -> [Host -> SUBSET Host]]
      BY <2>1, <2>2 DEF TypeOK
    <3> QED
      BY <3>1, <3>2
  <2> QED
    BY <1>1, <1>4, <2>3 DEF TypeOK, MergeRemove
<1>5. CASE MergeDone(i)
  BY <1>1, <1>5 DEF TypeOK, MergeDone
<1>6. CASE WinByFirstRule(i)
  BY <1>1, <1>6 DEF TypeOK, WinByFirstRule, Survive
<1>7. CASE WinBySecondRule(i)
  BY <1>1, <1>7 DEF TypeOK, WinBySecondRule, Survive
<1>8. CASE Lose(i)
  BY <1>1, <1>8 DEF TypeOK, Lose
<1> QED
  BY <1>2, <1>3, <1>4, <1>5, <1>6, <1>7, <1>8 DEF FaultHandler

LEMMA NextInv == IInv /\ [Next]_vars => IInv'
<1> SUFFICES ASSUME IInv, [Next]_vars PROVE IInv'
  OBVIOUS
<1>1. TypeOK
  BY DEF IInv
<1>2. CASE UNCHANGED vars
  <2>1. /\ UNCHANGED scenario /\ up' = up
        /\ UNCHANGED <<pc, hbdomain, sfdomain, raw, removedhost, SR2, proposed>>
    BY <1>2 DEF vars, scenario, decision
  <2>2. TypeOK'
    BY <1>1, <2>1 DEF TypeOK, scenario
  <2>3. ASSUME NEW i \in up PROVE HostInv(i)'
    BY <1>1, <2>1, HostKept DEF IInv, TypeOK
  <2> QED
    BY <2>1, <2>2, <2>3 DEF IInv
<1>3. CASE \E i \in Host : FaultHandler(i)
  <2>1. PICK i \in Host : FaultHandler(i)
    BY <1>3
  <2>2. /\ UNCHANGED scenario /\ pc[i] # "down" /\ pc'[i] # "down"
        /\ \A j \in Host \ {i} :
              UNCHANGED <<pc[j], hbdomain[j], sfdomain[j], raw[j], removedhost[j], proposed[j]>>
    BY <1>1, <2>1, OwnCopies
  <2>3. TypeOK'
    BY <1>1, <2>1, TypeStep
  <2>4. i \in up /\ up' = up /\ up \subseteq Host
    BY <1>1, <2>2 DEF IInv, TypeOK, scenario
  <2>5. HostInv(i)'
    BY <2>1, <2>4, ViewStep, TimeoutStep, RemoveStep, DoneStep, WinStep, SecondWinStep, LoseStep
       DEF FaultHandler
  <2>6. ASSUME NEW j \in up, j # i PROVE HostInv(j)'
    <3>1. HostInv(j) /\ j \in Host
      BY <2>4 DEF IInv
    <3> QED
      BY <2>2, <2>6, <3>1, HostKept
  <2>7. \A j \in Host : pc'[j] = "down" <=> j \notin up
    BY <2>2, <2>4 DEF IInv
  <2> QED
    BY <2>3, <2>4, <2>5, <2>6, <2>7 DEF IInv
<1> QED
  BY <1>2, <1>3 DEF Next

LEMMA Invariance == Spec => []IInv
  BY InitInv, NextInv, PTL DEF Spec

-----------------------------------------------------------------------------
(* What the hosts' decisions have to do with each other. *)

LEMMA WonFacts ==
  ASSUME IInv, NEW i \in Host, pc[i] \in {"won", "lost"}
  PROVE  /\ TypeOK /\ i \in up /\ i \in Liveset
         /\ Agreed(i) => DecidesAgreed(i)
         /\ ~ Agreed(i) /\ i \in sfhosts => DecidesMerged(i)
         /\ ~ Agreed(i) /\ i \notin sfhosts => DecidesAlone(i)
<1>1. TypeOK /\ i \in up
  BY DEF IInv
<1> QED
  BY <1>1, ScenarioFacts DEF IInv, HostInv

(* Hosts with State-File that merged have removed the same hosts. *)
LEMMA SameRemoved ==
  ASSUME IInv, NEW i \in sfhosts, NEW j \in sfhosts, i \in Host, j \in Host,
         pc[i] \in {"won", "lost"}, pc[j] \in {"won", "lost"}, ~ Agreed(i)
  PROVE  /\ ~ Agreed(j) /\ DecidesMerged(i) /\ DecidesMerged(j) /\ removedhost[i] = removedhost[j]
         /\ removedhost[i] # Host /\ Host \ removedhost[i] \subseteq sfhosts
         /\ \A k \in Host \ removedhost[i] : HbDomain(k) \ removedhost[i] = Host \ removedhost[i]
<1>1. TypeOK /\ DecidesMerged(i)
  BY WonFacts
<1>2. ~ Agreed(j)
  BY <1>1, AgreedSpreads
<1>3. DecidesMerged(j)
  BY <1>2, WonFacts
<1>4. Network(Dom) /\ weight \in Weighing /\ sfhosts \subseteq Host /\ \A k \in Host : Dom[k] = HbDomain(k)
  BY <1>1, ScenarioFacts
<1> DEFINE R == removedhost[i]
           Q == removedhost[j]
<1>5. /\ Stage(Dom, weight, sfhosts, R) /\ Complete(Dom, weight, R)
      /\ Stage(Dom, weight, sfhosts, Q) /\ Complete(Dom, weight, Q)
  BY <1>1, <1>3 DEF DecidesMerged
<1>6. R = Q /\ R \subseteq Host /\ R # Host /\ Host \ R \subseteq sfhosts
  <2> HIDE DEF R, Q
  <2>1. R = Q
    BY <1>4, <1>5, StagesAgree
  <2> QED
    BY <1>4, <1>5, <2>1, StageProper
<1>7. ASSUME NEW k \in Host \ R PROVE HbDomain(k) \ R = Host \ R
  <2> HIDE DEF R
  <2>1. Reduced(Dom, R)[k] = Host \ R
    BY <1>4, <1>5, <1>6, CompleteClique
  <2>2. Reduced(Dom, R)[k] = HbDomain(k) \ R
    BY <1>4 DEF Reduced
  <2> QED
    BY <2>1, <2>2
<1> QED
  BY <1>1, <1>2, <1>3, <1>6, <1>7

(* A survivor without State-File: nobody has it, and everybody hears       *)
(* everybody.                                                              *)
LEMMA SecondRuleFacts ==
  ASSUME IInv, NEW i \in Host, Won(i), i \notin sfhosts
  PROVE  /\ sfhosts = {} /\ proposed[i] = Liveset /\ HbDomain(i) = Liveset
         /\ \A j \in Liveset : HbDomain(j) = Liveset /\ Agreed(j)
<1>1. Agreed(i) /\ DecidesAgreed(i) /\ pc[i] = "won"
  BY WonFacts DEF Won, DecidesAlone
<1>2. sfhosts = {} /\ proposed[i] = Liveset /\ HbDomain(i) = Liveset
  BY <1>1 DEF DecidesAgreed
<1>3. \A j \in Liveset : HbDomain(j) = Liveset
  BY <1>1, <1>2 DEF Agreed
<1>4. \A j \in Liveset : Agreed(j)
  BY <1>2, <1>3 DEF Agreed
<1> QED
  BY <1>2, <1>3, <1>4

LEMMA Brain == IInv => NoSplitBrain
<1> SUFFICES ASSUME IInv, NEW i \in Host, NEW j \in Host, Won(i), Won(j)
             PROVE  proposed[i] = proposed[j] /\ j \in proposed[i]
  BY DEF NoSplitBrain
<1>1. pc[i] = "won" /\ pc[j] = "won" /\ TypeOK /\ j \in Liveset
  BY WonFacts DEF Won
<1>2. CASE i \notin sfhosts \/ j \notin sfhosts
  <2>1. sfhosts = {}
    BY <1>2, SecondRuleFacts
  <2> QED
    BY <1>1, <2>1, SecondRuleFacts
<1>3. CASE i \in sfhosts /\ j \in sfhosts /\ Agreed(i)
  <2>1. Agreed(j)
    BY <1>1, <1>3, AgreedSpreads
  <2> QED
    BY <1>1, <1>3, <2>1, WonFacts DEF DecidesAgreed
<1>4. CASE i \in sfhosts /\ j \in sfhosts /\ ~ Agreed(i)
  <2>1. DecidesMerged(i) /\ DecidesMerged(j) /\ removedhost[i] = removedhost[j]
    BY <1>1, <1>4, SameRemoved
  <2> QED
    BY <1>1, <2>1 DEF DecidesMerged
<1> QED
  BY <1>2, <1>3, <1>4

LEMMA Connected == IInv => SurvivorsConnected
<1> SUFFICES ASSUME IInv, NEW i \in Host, Won(i), NEW j \in proposed[i], NEW k \in proposed[i], j # k
             PROVE  {j, k} \in link
  BY DEF SurvivorsConnected
<1>1. pc[i] = "won" /\ TypeOK /\ j \in Host /\ k \in Host
  BY WonFacts DEF Won, TypeOK
<1>2. k \in HbDomain(j)
  <2>1. CASE i \notin sfhosts
    BY <2>1, SecondRuleFacts
  <2>2. CASE i \in sfhosts /\ Agreed(i)
    <3>1. proposed[i] = sfhosts /\ HbDomain(i) = sfhosts
      BY <1>1, <2>2, WonFacts, AgreedSpreads DEF DecidesAgreed
    <3> QED
      BY <2>2, <3>1 DEF Agreed
  <2>3. CASE i \in sfhosts /\ ~ Agreed(i)
    <3>1. /\ proposed[i] = Host \ removedhost[i]
          /\ \A l \in Host \ removedhost[i] : HbDomain(l) \ removedhost[i] = Host \ removedhost[i]
      BY <1>1, <2>3, SameRemoved DEF DecidesMerged
    <3> QED
      BY <3>1
  <2> QED
    BY <2>1, <2>2, <2>3
<1> QED
  BY <1>1, <1>2, ScenarioFacts

LEMMA NoLoser == IInv => NoLoserKept
<1> SUFFICES ASSUME IInv, NEW i \in Host, NEW j \in Host, Won(i), pc[j] = "lost", j \in proposed[i]
             PROVE  FALSE
  BY DEF NoLoserKept
<1>1. pc[i] = "won" /\ TypeOK
  BY WonFacts DEF Won
<1>2. CASE i \notin sfhosts
  <2>1. HbDomain(j) = Liveset /\ Agreed(j)
    BY <1>2, SecondRuleFacts
  <2> QED
    BY <2>1, WonFacts DEF DecidesAgreed
<1>3. CASE i \in sfhosts /\ Agreed(i)
  <2>1. proposed[i] = sfhosts
    BY <1>1, <1>3, WonFacts DEF DecidesAgreed
  <2>2. Agreed(j) /\ j \in sfhosts
    BY <1>1, <1>3, <2>1, AgreedSpreads
  <2> QED
    BY <2>2, WonFacts DEF DecidesAgreed
<1>4. CASE i \in sfhosts /\ ~ Agreed(i)
  <2>1. proposed[i] = Host \ removedhost[i] /\ Host \ removedhost[i] \subseteq sfhosts
    BY <1>1, <1>4, SameRemoved DEF DecidesMerged
  <2>2. j \in sfhosts /\ j \notin removedhost[i]
    BY <2>1
  <2>3. DecidesMerged(j) /\ removedhost[i] = removedhost[j]
    BY <1>1, <1>4, <2>2, SameRemoved
  <2> QED
    BY <2>2, <2>3 DEF DecidesMerged
<1> QED
  BY <1>2, <1>3, <1>4

LEMMA Someone == IInv => SomeoneSurvives
<1> SUFFICES ASSUME IInv, Decided, sfhosts # {} PROVE \E i \in Host : Won(i)
  BY DEF SomeoneSurvives
<1>1. TypeOK /\ sfhosts \subseteq up /\ up \subseteq Host
  BY DEF IInv, TypeOK
<1>2. PICK i \in sfhosts : TRUE
  OBVIOUS
<1>3. \A k \in sfhosts : k \in Host /\ pc[k] \in {"won", "lost"}
  BY <1>1 DEF Decided
<1>4. CASE Agreed(i)
  <2>1. DecidesAgreed(i)
    BY <1>2, <1>3, <1>4, WonFacts
  <2> QED
    BY <1>2, <1>3, <2>1 DEF DecidesAgreed, Won
<1>5. CASE ~ Agreed(i)
  <2>1. removedhost[i] # Host /\ Host \ removedhost[i] \subseteq sfhosts
    BY <1>2, <1>3, <1>5, SameRemoved
  <2>2. removedhost[i] \subseteq Host
    BY <1>1, <1>2 DEF TypeOK
  <2>3. PICK k \in Host : k \notin removedhost[i]
    BY <2>1, <2>2
  <2>4. k \in sfhosts
    BY <2>1, <2>3
  <2>5. DecidesMerged(k) /\ removedhost[i] = removedhost[k]
    BY <1>2, <1>3, <1>5, <2>4, SameRemoved
  <2> QED
    BY <1>3, <2>3, <2>4, <2>5 DEF DecidesMerged, Won
<1> QED
  BY <1>4, <1>5

-----------------------------------------------------------------------------
(* The partition that survives a clean split. *)

Largest(i) ==
    \A j \in up : get_partition_score(HbDomain(j), weight) <= get_partition_score(HbDomain(i), weight)

LEMMA CleanDomains ==
  ASSUME TypeOK, CleanPartition, NEW i \in Host, NEW j \in HbDomain(i)
  PROVE  HbDomain(j) = HbDomain(i)
<1>1. \A k, l : {k, l} \in link => k \in up /\ l \in up
  BY DEF TypeOK
<1>2. \A k, l : {k, l} = {l, k}
  OBVIOUS
<1>3. ASSUME NEW k \in Host, NEW l \in HbDomain(k) PROVE HbDomain(l) \subseteq HbDomain(k)
  <2> SUFFICES ASSUME NEW h \in HbDomain(l), l # k, h # l, h # k PROVE h \in HbDomain(k)
    BY <1>3 DEF HbDomain
  <2>1. {k, l} \in link /\ {l, h} \in link /\ h \in Host
    BY <1>3 DEF HbDomain
  <2>2. {k, h} \in link
    BY <1>1, <2>1 DEF CleanPartition
  <2> QED
    BY <2>1, <2>2 DEF HbDomain
<1>4. i \in HbDomain(j) /\ j \in Host
  BY <1>2, Zenon DEF HbDomain
<1> QED
  BY <1>3, <1>4

LEMMA LargestExists ==
  ASSUME TypeOK, up # {}
  PROVE  \E m \in up : Largest(m)
<1>1. /\ weight \in Weighing /\ up \subseteq Host /\ \A i \in Host : HbDomain(i) \subseteq Host
  BY ScenarioFacts
<1> DEFINE sc(i) == get_partition_score(HbDomain(i), weight)
           top == get_partition_score(Host, weight)
           Below == {top - sc(i) : i \in up}
<1>2. top \in Nat /\ \A i \in up : sc(i) \in Nat /\ sc(i) <= top
  <2>1. top \in Nat /\ \A i \in up : sc(i) \in Nat
    BY <1>1, ScoreNat
  <2>2. ASSUME NEW i \in up PROVE sc(i) <= top
    BY <1>1, <2>1, ScoreStrict
  <2> QED
    BY <2>1, <2>2
<1>3. PICK b \in Below : \A c \in Below : b <= c
  <2> HIDE DEF sc, top
  <2>1. Below \subseteq Nat /\ Below # {}
    BY <1>2
  <2> HIDE DEF Below
  <2> QED
    BY <2>1, LeastNatural
<1>4. PICK m \in up : b = top - sc(m)
  BY <1>3
<1>5. ASSUME NEW j \in up PROVE sc(j) <= sc(m)
  <2> HIDE DEF sc, top
  <2>1. top - sc(m) <= top - sc(j)
    BY <1>3, <1>4
  <2> QED
    BY <1>2, <2>1
<1> QED
  BY <1>5 DEF Largest

LEMMA LargestSurvives == IInv => LargestPartitionSurvives
<1> SUFFICES ASSUME IInv, Decided, CleanPartition, sfhosts = up, NEW i \in up
             PROVE  Won(i) <=> Largest(i)
  BY DEF LargestPartitionSurvives, Largest
<1>1. /\ Network(Dom) /\ weight \in Weighing /\ up \subseteq Host /\ i \in Host
      /\ \A j \in Host : Dom[j] = HbDomain(j) /\ HbDomain(j) \subseteq Host /\ j \in HbDomain(j)
      /\ \A j \in up : HbDomain(j) \subseteq up
      /\ TypeOK
  BY ScenarioFacts DEF IInv
<1>2. pc[i] \in {"won", "lost"}
  BY DEF Decided
<1>3. \A j \in up : get_partition_score(HbDomain(j), weight) \in Nat
  BY <1>1, ScoreNat
<1>4. CASE Agreed(i)
  <2>1. DecidesAgreed(i)
    BY <1>1, <1>2, <1>4, WonFacts
  <2>2. Won(i)
    BY <1>2, <2>1 DEF DecidesAgreed, Won
  <2>3. \A j \in up : HbDomain(j) = HbDomain(i)
    BY <1>4 DEF Agreed
  <2>4. Largest(i)
    BY <1>3, <2>3 DEF Largest
  <2> QED
    BY <2>2, <2>4
<1>5. CASE ~ Agreed(i)
  <2> DEFINE R == removedhost[i]
  <2>1. /\ DecidesMerged(i) /\ Host \ R \subseteq up
        /\ \A k \in Host \ R : HbDomain(k) \ R = Host \ R
    BY <1>1, <1>2, <1>5, SameRemoved
  <2>2. PICK m \in up : Largest(m)
    BY <1>1, LargestExists
  <2>3. R \cap HbDomain(m) = {}
    <3>1. Stage(Dom, weight, up, R)
      BY <2>1 DEF DecidesMerged
    <3>2. \A j, k \in Host : k \in Dom[j] => Dom[k] = Dom[j]
      BY <1>1, CleanDomains
    <3>3. /\ \A j \in up : Dom[j] \subseteq up
          /\ \A k \in up : get_partition_score(Dom[k], weight) <= get_partition_score(Dom[m], weight)
      BY <1>1, <2>2 DEF Largest
    <3>4. R \cap Dom[m] = {}
      <4> HIDE DEF R
      <4> QED
        BY <1>1, <3>1, <3>2, <3>3, CleanStage
    <3> QED
      BY <1>1, <3>4
  <2>4. HbDomain(m) = Host \ R
    BY <1>1, <2>1, <2>3
  <2>5. Won(i) <=> i \in HbDomain(m)
    BY <1>1, <1>2, <2>1, <2>4 DEF DecidesMerged, Won
  <2>6. ASSUME i \in HbDomain(m) PROVE Largest(i)
    <3>1. HbDomain(i) = HbDomain(m)
      BY <1>1, <2>6, CleanDomains
    <3> QED
      BY <2>2, <3>1 DEF Largest
  <2>7. ASSUME Largest(i) PROVE i \in HbDomain(m)
    <3>1. get_partition_score(HbDomain(i), weight) = get_partition_score(HbDomain(m), weight)
      BY <1>3, <2>2, <2>7 DEF Largest
    <3>2. HbDomain(i) \cap HbDomain(m) # {}
      BY <1>1, <3>1, ScoreTie
    <3>3. PICK l \in Host : l \in HbDomain(i) /\ l \in HbDomain(m)
      BY <1>1, <3>2
    <3>4. HbDomain(l) = HbDomain(i) /\ HbDomain(l) = HbDomain(m)
      BY <1>1, <3>3, CleanDomains
    <3> QED
      BY <1>1, <3>4
  <2> QED
    BY <2>5, <2>6, <2>7
<1> QED
  BY <1>4, <1>5

-----------------------------------------------------------------------------
(* The copies of the objects and the decisions of the hosts keep their     *)
(* types, in every fault scenario of any number of hosts.                  *)
THEOREM TypeCorrect == Spec => []TypeOK
<1>1. IInv => TypeOK
  BY DEF IInv
<1> QED
  BY <1>1, Invariance, PTL

(* Whatever links the fault cut and whoever lost the State-File, any two   *)
(* hosts that pass test_Survival_Rule propose the same liveset, with both  *)
(* of them in it: the merges they did on their own removed the same hosts. *)
THEOREM SplitBrainNever == Spec => []NoSplitBrain
  BY Brain, Invariance, PTL

(* The hosts a survivor proposes to go on with exchange heartbeats with    *)
(* each other, all with all: the merge does not end before that.           *)
THEOREM SurvivorsStayConnected == Spec => []SurvivorsConnected
  BY Connected, Invariance, PTL

(* No host that a survivor keeps in its proposed liveset fences itself.    *)
THEOREM LosersLeft == Spec => []NoLoserKept
  BY NoLoser, Invariance, PTL

(* As long as one host reaches the State-File, the fault does not make all *)
(* hosts fence themselves: the merge never removes the last one.           *)
THEOREM PoolSurvives == Spec => []SomeoneSurvives
  BY Someone, Invariance, PTL

(* After a clean split with the State-File in reach of all, exactly the    *)
(* hosts of the partition get_partition_score() ranks highest survive.     *)
THEOREM LargestWins == Spec => []LargestPartitionSurvives
  BY LargestSurvives, Invariance, PTL
=============================================================================
