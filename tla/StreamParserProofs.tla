------------------------- MODULE StreamParserProofs -------------------------
(***************************************************************************)
(* ChunkingInvisible, proved for every frame limit and every body.  The    *)
(* reference speaks of a whole text at once and the parser of one piece    *)
(* after another, so most of what follows says how Select, Pieces, Text,   *)
(* Lines, Blocks and Events of a sequence change when it grows at its end; *)
(* what would be an induction over the sequence rests on the least element *)
(* of a set of positions.  ParserInv then relates the variables of the     *)
(* parser to the text it has scanned.                                      *)
(***************************************************************************)
EXTENDS StreamParser, FiniteSetTheorems, SequenceTheorems, TLAPS

(* Most leaves are first-order; those with arithmetic name SMT. *)
USE Zenon

(* Every set of naturals that is not empty has a least element. *)
LEMMA LeastElement ==
    ASSUME NEW T \in SUBSET Nat, T # {}
    PROVE  \E m \in T : \A i \in T : m <= i
<1> DEFINE Less == {pair \in Nat \X Nat : pair[1] < pair[2]}
<1>1. IsWellFoundedOn(Less, Nat)
  BY NatLessThanWellFounded DEF OpToRel
<1> HIDE DEF Less
<1>2. \E m \in T : \A i \in T : ~(<<i, m>> \in Less)
  BY <1>1, WFMin
<1>3. PICK m \in T : \A i \in T : ~(<<i, m>> \in Less)
  BY <1>2
<1>4. ASSUME NEW i \in T PROVE ~(i < m)
  <2>1. (i < m) => <<i, m>> \in Less
    BY SMT DEF Less
  <2> QED BY SMT, <1>3, <2>1
<1> QED BY SMT, <1>4

(* A set of positions is finite, so they can be counted. *)
LEMMA FinitePositions ==
    ASSUME NEW n \in Nat, NEW S \in SUBSET (0..n)
    PROVE  IsFiniteSet(S) /\ Cardinality(S) \in Nat
<1>1. 0 \in Int /\ n \in Int
  BY SMT
<1>2. IsFiniteSet(0..n)
  BY <1>1, FS_Interval
<1> QED BY <1>2, FS_Subset, FS_CardinalityType

LEMMA RankType ==
    ASSUME NEW n \in Nat, NEW S \in SUBSET (0..n), NEW i
    PROVE  IsFiniteSet({j \in S : j <= i}) /\ Rank(S, i) \in Nat
<1>1. {j \in S : j <= i} \in SUBSET (0..n)
  OBVIOUS
<1> QED BY <1>1, FinitePositions DEF Rank

(* The rank of the next number: one more if it is in the set. *)
LEMMA RankStep ==
    ASSUME NEW n \in Nat, NEW S \in SUBSET (0..n), NEW i \in Nat
    PROVE  Rank(S, i + 1) = IF i + 1 \in S THEN Rank(S, i) + 1 ELSE Rank(S, i)
<1> DEFINE B == {j \in S : j <= i}
<1>1. IsFiniteSet(B)
  BY RankType
<1>2. {j \in S : j <= i + 1} = IF i + 1 \in S THEN B \cup {i + 1} ELSE B
  <2>1. \A j \in S : j <= i + 1 <=> j <= i \/ j = i + 1
    BY SMT
  <2> QED BY <2>1
<1>3. i + 1 \notin B
  BY SMT
<1> HIDE DEF B
<1>4. Cardinality(B \cup {i + 1}) = Cardinality(B) + 1
  BY <1>1, <1>3, FS_AddElement
<1> QED BY <1>2, <1>4 DEF Rank, B

LEMMA RankOfZero ==
    ASSUME NEW n \in Nat, NEW S \in SUBSET (0..n)
    PROVE  Rank(S, 0) = IF 0 \in S THEN 1 ELSE 0
<1>1. {j \in S : j <= 0} = IF 0 \in S THEN {0} ELSE {}
  <2>1. \A j \in S : j <= 0 <=> j = 0
    BY SMT
  <2> QED BY <2>1
<1> QED BY <1>1, FS_EmptySet, FS_Singleton DEF Rank

LEMMA RankOfAll ==
    ASSUME NEW n \in Nat, NEW S \in SUBSET (0..n)
    PROVE  Rank(S, n) = Cardinality(S)
<1>1. {j \in S : j <= n} = S
  <2>1. \A j \in S : j <= n
    BY SMT
  <2> QED BY <2>1
<1> QED BY <1>1 DEF Rank

(* A greater position has a greater rank. *)
LEMMA RankGrows ==
    ASSUME NEW n \in Nat, NEW S \in SUBSET (0..n), NEW i \in 0..n, NEW j \in S, i < j
    PROVE  Rank(S, i) < Rank(S, j)
<1> DEFINE B == {x \in S : x <= i}
           C == {x \in S : x <= j}
<1>1. IsFiniteSet(S)
  BY FinitePositions
<1>2. B \in SUBSET C /\ C \in SUBSET S /\ B # C
  <2>1. j \in C /\ j \notin B
    BY SMT
  <2>2. B \in SUBSET C
    <3>1. \A x \in S : x <= i => x <= j
      BY SMT
    <3> QED BY <3>1
  <2> QED BY <2>1, <2>2
<1>3. IsFiniteSet(C)
  BY <1>1, <1>2, FS_Subset
<1>4. IsFiniteSet(B)
  BY <1>2, <1>3, FS_Subset
<1>5. Cardinality(B) <= Cardinality(C) /\ Cardinality(B) # Cardinality(C)
  BY SMT, <1>2, <1>3, FS_Subset
<1>6. Cardinality(B) \in Nat /\ Cardinality(C) \in Nat
  BY SMT, <1>3, <1>4, FS_CardinalityType
<1>7. Rank(S, i) = Cardinality(B) /\ Rank(S, j) = Cardinality(C)
  BY DEF Rank
<1> HIDE DEF B, C
<1> QED BY SMT, <1>5, <1>6, <1>7

(* The k-th position exists, and it is the only one of rank k. *)
LEMMA NthExists ==
    ASSUME NEW n \in Nat, NEW S \in SUBSET (0..n), NEW k \in 1..Cardinality(S)
    PROVE  Nth(S, k) \in S /\ Rank(S, Nth(S, k)) = k
<1> DEFINE T == {i \in 0..n : Rank(S, i) >= k}
<1>1. Cardinality(S) \in Nat /\ k \in Nat
  <2>1. Cardinality(S) \in Nat
    BY FinitePositions
  <2> QED BY SMT, <2>1
<1>2. n \in T
  BY SMT, <1>1, RankOfAll
<1>3. PICK m \in T : \A i \in T : m <= i
  <2>1. T \in SUBSET Nat /\ T # {}
    BY SMT, <1>2
  <2> HIDE DEF T
  <2> QED BY <2>1, LeastElement
<1>4. m \in S /\ Rank(S, m) = k
  <2>1. CASE m = 0
    BY SMT, <1>1, <1>3, <2>1, RankOfZero
  <2>2. CASE m # 0
    <3>1. m - 1 \in Nat /\ m - 1 \in 0..n /\ m = (m - 1) + 1
      BY SMT, <2>2
    <3>2. ~(Rank(S, m - 1) >= k)
      BY SMT, <1>3, <3>1
    <3>3. /\ Rank(S, m) = IF m \in S THEN Rank(S, m - 1) + 1 ELSE Rank(S, m - 1)
          /\ Rank(S, m - 1) \in Nat
      BY <3>1, RankStep, RankType
    <3> QED BY SMT, <1>1, <1>3, <3>2, <3>3
  <2> QED BY SMT, <2>1, <2>2
<1> QED BY <1>4 DEF Nth

LEMMA NthUnique ==
    ASSUME NEW n \in Nat, NEW S \in SUBSET (0..n), NEW i \in S
    PROVE  Nth(S, Rank(S, i)) = i
<1> DEFINE m == Nth(S, Rank(S, i))
<1>1. m \in S /\ Rank(S, m) = Rank(S, i)
  BY DEF Nth
<1> HIDE DEF m
<1>2. m \in Nat /\ i \in Nat /\ m \in 0..n /\ i \in 0..n
  BY SMT, <1>1
<1>3. /\ i < m => Rank(S, i) < Rank(S, m)
      /\ m < i => Rank(S, m) < Rank(S, i)
  BY SMT, <1>1, <1>2, RankGrows
<1>4. Rank(S, m) \in Nat /\ Rank(S, i) \in Nat
  BY RankType
<1>5. m = i
  BY SMT, <1>1, <1>2, <1>3, <1>4
<1> QED BY SMT, <1>5 DEF m

(* A beginning of a set of positions has the same first positions... *)
LEMMA NthBelow ==
    ASSUME NEW m \in Nat, NEW U \in SUBSET (0..m), NEW n \in 0..m,
           NEW S \in SUBSET U, \A u \in U : u \in S <=> u <= n, NEW k \in 1..Cardinality(S)
    PROVE  Nth(U, k) = Nth(S, k) /\ Nth(S, k) \in S
<1> DEFINE i == Nth(S, k)
<1>1. S \in SUBSET (0..n) /\ n \in Nat
  <2>1. n \in Nat /\ \A u \in U : u <= n => u \in 0..n
    BY SMT
  <2> QED BY <2>1
<1>2. i \in S /\ Rank(S, i) = k
  BY <1>1, NthExists
<1> HIDE DEF i
<1>3. Rank(U, i) = Rank(S, i)
  <2>1. \A u \in U : u <= i => u <= n
    BY SMT, <1>1, <1>2
  <2>2. {u \in U : u <= i} = {u \in S : u <= i}
    BY <2>1
  <2> QED BY <2>2 DEF Rank
<1>4. i \in U
  BY <1>2
<1>5. Nth(U, Rank(U, i)) = i
  BY <1>4, NthUnique
<1> QED BY <1>2, <1>3, <1>5 DEF i

LEMMA ShiftedCount ==
    ASSUME NEW n \in Nat, NEW W \in SUBSET Nat, IsFiniteSet(W)
    PROVE  LET V == {n + j : j \in W}
           IN  IsFiniteSet(V) /\ Cardinality(V) = Cardinality(W)
<1> DEFINE V == {n + j : j \in W}
           f == [j \in W |-> n + j]
<1>1. f \in [W -> V]
  OBVIOUS
<1>2. \A a, b \in W : f[a] = f[b] => a = b
  BY SMT
<1>3. \A v \in V : \E j \in W : f[j] = v
  OBVIOUS
<1> HIDE DEF f, V
<1>4. f \in Bijection(W, V)
  BY <1>1, <1>2, <1>3 DEF Bijection, Injection, Surjection, IsInjective
<1>5. ExistsBijection(W, V)
  BY <1>4 DEF ExistsBijection
<1> QED BY <1>5, FS_Bijection DEF V

(* ... and the positions above it follow, in order.  The positions U of a  *)
(* concatenation are those S of its first part, of length n, and those T   *)
(* of its second.                                                          *)
Joined(n, m, S, T, U) ==
    /\ n \in Nat /\ m \in Nat /\ U \in SUBSET (1..n + m)
    /\ S \in SUBSET U /\ \A u \in U : u \in S <=> u <= n
    /\ T \in SUBSET (1..m) /\ \A j \in 1..m : j \in T <=> n + j \in U

LEMMA RankAbove ==
    ASSUME NEW n, NEW m, NEW S, NEW T, NEW U, Joined(n, m, S, T, U),
           NEW i \in 0..m
    PROVE  Rank(U, n + i) = Cardinality(S) + Rank(T, i)
<1> USE DEF Joined
<1>1. /\ S \in SUBSET (0..n) /\ T \in SUBSET (0..m) /\ U \in SUBSET (0..n + m)
      /\ n + m \in Nat /\ T \in SUBSET Nat
  <2>1. /\ \A u \in 1..n + m : u \in 0..n + m /\ (u <= n => u \in 0..n)
        /\ \A j \in 1..m : j \in 0..m /\ j \in Nat
        /\ n + m \in Nat
    BY SMT
  <2> QED BY <2>1
<1>2. /\ IsFiniteSet(S) /\ Cardinality(S) \in Nat
      /\ IsFiniteSet(T) /\ Cardinality(T) \in Nat /\ IsFiniteSet(U)
  BY <1>1, FinitePositions
<1> DEFINE W == {j \in T : j <= i}
           V == {n + j : j \in W}
<1>3. IsFiniteSet(W) /\ W \in SUBSET Nat
  <2>1. W \in SUBSET T
    OBVIOUS
  <2> QED BY <1>1, <1>2, <2>1, FS_Subset
<1>4. IsFiniteSet(V) /\ Cardinality(V) = Cardinality(W)
  BY <1>3, ShiftedCount
<1>5. {u \in U : u <= n + i} = S \cup V
  <2>1. ASSUME NEW u \in U, u <= n + i PROVE u \in S \cup V
    <3>1. CASE u <= n
      BY SMT, <3>1
    <3>2. CASE ~(u <= n)
      <4>1. u - n \in 1..m /\ n + (u - n) = u /\ u - n <= i
        BY SMT, <1>1, <2>1, <3>2
      <4>2. u - n \in W
        BY <4>1
      <4> QED BY <4>1, <4>2
    <3> QED BY <3>1, <3>2
  <2>2. \A u \in S : u \in U /\ u <= n + i
    BY SMT, <1>1
  <2>3. \A u \in V : u \in U /\ u <= n + i
    BY SMT, <1>1
  <2> QED BY <2>1, <2>2, <2>3
<1>6. S \cap V = {}
  <2>1. \A j \in W : ~(n + j <= n)
    BY SMT
  <2> QED BY <2>1
<1> HIDE DEF V
<1>7. Cardinality(S \cup V) = Cardinality(S) + Cardinality(V) - Cardinality(S \cap V)
  BY <1>2, <1>4, FS_Union
<1>8. Cardinality(V) \in Nat /\ Cardinality(S \cap V) = 0
  BY <1>4, <1>6, FS_CardinalityType, FS_EmptySet
<1>9. Cardinality(S \cup V) = Cardinality(S) + Cardinality(W)
  BY SMT, <1>2, <1>4, <1>7, <1>8
<1> QED BY <1>5, <1>9 DEF Rank

LEMMA CountConcat ==
    ASSUME NEW n, NEW m, NEW S, NEW T, NEW U, Joined(n, m, S, T, U)
    PROVE  Cardinality(U) = Cardinality(S) + Cardinality(T)
<1> USE DEF Joined
<1>1. /\ T \in SUBSET (0..m) /\ U \in SUBSET (0..n + m) /\ n + m \in Nat /\ m \in 0..m
  <2>1. /\ \A u \in 1..n + m : u \in 0..n + m
        /\ \A j \in 1..m : j \in 0..m
        /\ n + m \in Nat /\ m \in 0..m
    BY SMT
  <2> QED BY <2>1
<1>2. Rank(U, n + m) = Cardinality(U) /\ Rank(T, m) = Cardinality(T)
  BY <1>1, RankOfAll
<1>3. Rank(U, n + m) = Cardinality(S) + Rank(T, m)
  <2> HIDE DEF Joined
  <2>1. m \in 0..m
    BY <1>1
  <2> QED BY SMT, <2>1, RankAbove
<1> QED BY <1>2, <1>3

LEMMA NthAbove ==
    ASSUME NEW n, NEW m, NEW S, NEW T, NEW U, Joined(n, m, S, T, U),
           NEW k \in 1..Cardinality(T)
    PROVE  Nth(U, Cardinality(S) + k) = n + Nth(T, k)
<1> USE DEF Joined
<1>1. /\ T \in SUBSET (0..m) /\ U \in SUBSET (0..n + m) /\ n + m \in Nat
  <2>1. /\ \A u \in 1..n + m : u \in 0..n + m
        /\ \A j \in 1..m : j \in 0..m
        /\ n + m \in Nat
    BY SMT
  <2> QED BY <2>1
<1>2. Nth(T, k) \in T /\ Rank(T, Nth(T, k)) = k
  BY <1>1, NthExists
<1>3. n + Nth(T, k) \in U /\ Nth(T, k) \in 0..m
  BY <1>1, <1>2
<1>4. Rank(U, n + Nth(T, k)) = Cardinality(S) + k
  <2> HIDE DEF Joined
  <2>1. Nth(T, k) \in 0..m
    BY <1>3
  <2>2. Rank(U, n + Nth(T, k)) = Cardinality(S) + Rank(T, Nth(T, k))
    BY <2>1, RankAbove, SMTT(20)
  <2> QED BY <1>2, <2>2
<1>5. Nth(U, Rank(U, n + Nth(T, k))) = n + Nth(T, k)
  BY <1>1, <1>3, NthUnique
<1> QED BY <1>4, <1>5

(* A function on the first numbers is a sequence. *)
LEMMA FunctionIsSeq ==
    ASSUME NEW A, NEW n \in Nat, NEW f \in [1..n -> A]
    PROVE  f \in Seq(A) /\ Len(f) = n
<1>1. f \in Seq(A)
  BY SeqDef
<1>2. DOMAIN f = 1..n /\ DOMAIN f = 1..Len(f) /\ Len(f) \in Nat
  BY <1>1, LenProperties
<1> QED BY SMT, <1>1, <1>2

LEMMA SelectType ==
    ASSUME NEW A, NEW s \in Seq(A), NEW S \in SUBSET (1..Len(s))
    PROVE  /\ Cardinality(S) \in Nat
           /\ Select(s, S) \in Seq(A) /\ Len(Select(s, S)) = Cardinality(S)
           /\ \A k \in 1..Cardinality(S) : Select(s, S)[k] = s[Nth(S, k)] /\ Nth(S, k) \in S
<1>1. Len(s) \in Nat /\ S \in SUBSET (0..Len(s))
  <2>1. Len(s) \in Nat
    BY LenProperties
  <2>2. \A i \in 1..Len(s) : i \in 0..Len(s)
    BY SMT, <2>1
  <2> QED BY <2>1, <2>2
<1>2. Cardinality(S) \in Nat /\ \A k \in 1..Cardinality(S) : Nth(S, k) \in S
  BY <1>1, FinitePositions, NthExists
<1>3. Select(s, S) \in [1..Cardinality(S) -> A]
  <2>1. \A k \in 1..Cardinality(S) : s[Nth(S, k)] \in A
    BY <1>2, ElementOfSeq
  <2> QED BY <2>1 DEF Select
<1> QED BY <1>2, <1>3, FunctionIsSeq DEF Select

(* Selecting from a concatenation selects from its parts. *)
Shared(n, m, S, T, U) ==
    /\ S \in SUBSET (1..n) /\ T \in SUBSET (1..m) /\ U \in SUBSET (1..n + m)
    /\ \A i \in 1..n : i \in U <=> i \in S
    /\ \A j \in 1..m : n + j \in U <=> j \in T

LEMMA SelectConcat ==
    ASSUME NEW A, NEW s \in Seq(A), NEW r \in Seq(A), NEW S, NEW T, NEW U,
           Shared(Len(s), Len(r), S, T, U)
    PROVE  Select(s \o r, U) = Select(s, S) \o Select(r, T)
<1> /\ S \in SUBSET (1..Len(s)) /\ T \in SUBSET (1..Len(r)) /\ U \in SUBSET (1..Len(s) + Len(r))
    /\ \A i \in 1..Len(s) : i \in U <=> i \in S
    /\ \A j \in 1..Len(r) : Len(s) + j \in U <=> j \in T
  BY DEF Shared
<1> DEFINE n == Len(s)
           m == Len(r)
           p == Select(s, S)
           q == Select(r, T)
           w == Select(s \o r, U)
<1>1. n \in Nat /\ m \in Nat /\ n + m \in Nat /\ U \in SUBSET (1..n + m) /\ n \in 0..n + m
  BY SMT, LenProperties
<1>2. U \in SUBSET (0..n + m)
  <2>1. \A i \in 1..n + m : i \in 0..n + m
    BY SMT, <1>1
  <2> QED BY <2>1
<1>3. S \in SUBSET U /\ \A u \in U : u \in S <=> u <= n
  <2>1. \A u \in 1..n + m : u <= n <=> u \in 1..n
    BY SMT, <1>1
  <2> QED BY <2>1
<1>4. T \in SUBSET (1..m) /\ \A j \in 1..m : j \in T <=> n + j \in U
  OBVIOUS
<1>5. /\ s \o r \in Seq(A) /\ Len(s \o r) = n + m
      /\ \A i \in 1..n + m : (s \o r)[i] = IF i <= n THEN s[i] ELSE r[i - n]
  BY ConcatProperties
<1>6. /\ Cardinality(S) \in Nat /\ p \in Seq(A) /\ Len(p) = Cardinality(S)
      /\ \A k \in 1..Cardinality(S) : p[k] = s[Nth(S, k)] /\ Nth(S, k) \in S
  BY SelectType
<1>7. /\ Cardinality(T) \in Nat /\ q \in Seq(A) /\ Len(q) = Cardinality(T)
      /\ \A k \in 1..Cardinality(T) : q[k] = r[Nth(T, k)] /\ Nth(T, k) \in T
  BY SelectType
<1>8. /\ w \in Seq(A) /\ Len(w) = Cardinality(U)
      /\ \A k \in 1..Cardinality(U) : w[k] = (s \o r)[Nth(U, k)]
  BY <1>1, <1>5, SelectType, ZenonT(40)
<1>9. /\ p \o q \in Seq(A) /\ Len(p \o q) = Len(p) + Len(q)
      /\ \A k \in 1..Len(p) + Len(q) : (p \o q)[k] = IF k <= Len(p) THEN p[k] ELSE q[k - Len(p)]
  BY <1>6, <1>7, ConcatProperties
<1> HIDE DEF n, m, p, q, w
<1>10. /\ Cardinality(U) = Cardinality(S) + Cardinality(T)
       /\ \A k \in 1..Cardinality(T) : Nth(U, Cardinality(S) + k) = n + Nth(T, k)
  <2>1. Joined(n, m, S, T, U)
    BY <1>1, <1>3, <1>4 DEF Joined
  <2> QED BY <2>1, CountConcat, NthAbove, SMTT(20)
<1>11. \A k \in 1..Cardinality(S) : Nth(U, k) = Nth(S, k)
  BY <1>1, <1>2, <1>3, NthBelow
<1>12. ASSUME NEW k \in 1..Len(w) PROVE w[k] = (p \o q)[k]
  <2>1. CASE k <= Cardinality(S)
    <3>1. k \in 1..Cardinality(S) /\ k \in 1..Len(p) + Len(q)
      BY SMT, <1>6, <1>7, <1>8, <1>10, <2>1
    <3>2. Nth(S, k) \in 1..n + m /\ Nth(S, k) <= n
      BY <1>1, <1>3, <1>6, <3>1
    <3>3. w[k] = s[Nth(S, k)]
      BY <1>5, <1>8, <1>10, <1>11, <3>1, <3>2
    <3>4. (p \o q)[k] = p[k]
      BY <1>6, <1>9, <2>1, <3>1
    <3> QED BY <1>6, <3>1, <3>3, <3>4
  <2>2. CASE ~(k <= Cardinality(S))
    <3> DEFINE j == k - Cardinality(S)
    <3>1. /\ j \in 1..Cardinality(T) /\ k = Cardinality(S) + j
          /\ k \in 1..Len(p) + Len(q)
      BY SMT, <1>6, <1>7, <1>8, <1>10, <2>2
    <3>2. /\ Nth(T, j) \in 1..m /\ n + Nth(T, j) \in 1..n + m
          /\ ~(n + Nth(T, j) <= n) /\ (n + Nth(T, j)) - n = Nth(T, j)
      <4> HIDE DEF j
      <4>1. Nth(T, j) \in 1..m
        BY <1>4, <1>7, <3>1
      <4> QED BY SMT, <1>1, <4>1
    <3>3. (p \o q)[k] = q[j]
      BY <1>6, <1>9, <2>2, <3>1
    <3> HIDE DEF j
    <3>4. w[k] = (s \o r)[n + Nth(T, j)]
      BY <1>8, <1>10, <3>1
    <3>5. (s \o r)[n + Nth(T, j)] = r[Nth(T, j)]
      BY <1>5, <3>2
    <3> QED BY <1>7, <3>1, <3>3, <3>4, <3>5
  <2> QED BY <2>1, <2>2
<1>13. w = p \o q
  BY <1>6, <1>7, <1>8, <1>9, <1>10, <1>12, SeqEqual
<1> QED BY <1>13 DEF p, q, w

----------------------------------------------------------------------------
(* The pieces of a sequence. *)

Count(s, separator) == Cardinality(Cuts(s, separator))
Starts(s, separator) == Cuts(s, separator) \cup {0}
From(s, separator, k) == Nth(Bounds(s, separator), k)

(* The k-th positions of a set are in order. *)
LEMMA NthIncreases ==
    ASSUME NEW n \in Nat, NEW S \in SUBSET (0..n),
           NEW k \in 1..Cardinality(S), NEW l \in 1..Cardinality(S), k < l
    PROVE  Nth(S, k) < Nth(S, l)
<1> DEFINE a == Nth(S, k)
           b == Nth(S, l)
<1>1. a \in S /\ b \in S /\ Rank(S, a) = k /\ Rank(S, b) = l
  BY NthExists
<1> HIDE DEF a, b
<1>2. a \in 0..n /\ b \in 0..n /\ Cardinality(S) \in Nat
  BY <1>1, FinitePositions
<1>3. b < a => Rank(S, b) < Rank(S, a)
  BY SMT, <1>1, <1>2, RankGrows
<1>4. a < b
  BY SMT, <1>1, <1>2, <1>3
<1> QED BY SMT, <1>4 DEF a, b

LEMMA BoundsFacts ==
    ASSUME NEW A, NEW s \in Seq(A), NEW sep
    PROVE  /\ Len(s) \in Nat /\ Len(s) + 1 \in Nat
           /\ Count(s, sep) \in Nat
           /\ Bounds(s, sep) \in SUBSET (0..Len(s) + 1)
           /\ Starts(s, sep) \in SUBSET (0..Len(s))
           /\ Cardinality(Starts(s, sep)) = Count(s, sep) + 1
           /\ Cardinality(Bounds(s, sep)) = Count(s, sep) + 2
<1> DEFINE n == Len(s)
           C == Cuts(s, sep)
<1>1. n \in Nat /\ n + 1 \in Nat
  BY SMT, LenProperties
<1>2. C \in SUBSET (1..n)
  BY DEF Cuts
<1> HIDE DEF n, C
<1>3. /\ \A i \in 1..n : i \in 0..n /\ i \in 0..n + 1 /\ i # 0 /\ i # n + 1
      /\ 0 \in 0..n /\ 0 \in 0..n + 1 /\ n + 1 \in 0..n + 1 /\ n + 1 # 0
  BY SMT, <1>1
<1>4. C \in SUBSET (0..n) /\ C \cup {0} \in SUBSET (0..n) /\ C \cup {0, n + 1} \in SUBSET (0..n + 1)
  BY <1>2, <1>3
<1>5. IsFiniteSet(C) /\ Cardinality(C) \in Nat
  BY <1>1, <1>4, FinitePositions
<1>6. 0 \notin C /\ n + 1 \notin C \cup {0}
  BY <1>2, <1>3
<1>7. IsFiniteSet(C \cup {0}) /\ Cardinality(C \cup {0}) = Cardinality(C) + 1
  BY <1>5, <1>6, FS_AddElement
<1>8. Cardinality((C \cup {0}) \cup {n + 1}) = Cardinality(C \cup {0}) + 1
  BY <1>6, <1>7, FS_AddElement
<1>9. (C \cup {0}) \cup {n + 1} = C \cup {0, n + 1}
  OBVIOUS
<1>10. Cardinality(C \cup {0, n + 1}) = Cardinality(C) + 2
  <2>1. Cardinality(C \cup {0, n + 1}) = (Cardinality(C) + 1) + 1
    BY <1>7, <1>8, <1>9
  <2>2. (Cardinality(C) + 1) + 1 = Cardinality(C) + 2
    BY SMT, <1>5
  <2> QED BY <2>1, <2>2
<1> QED BY <1>1, <1>4, <1>5, <1>7, <1>10 DEF Count, Bounds, Starts, n, C

(* Where the k-th piece of a sequence lies. *)
LEMMA PieceBounds ==
    ASSUME NEW A, NEW s \in Seq(A), NEW sep, NEW k \in 1..Count(s, sep) + 1
    PROVE  /\ From(s, sep, k) \in 0..Len(s) /\ From(s, sep, k + 1) \in 1..Len(s) + 1
           /\ From(s, sep, k) < From(s, sep, k + 1)
           /\ Pieces(s, sep)[k] = SubSeq(s, From(s, sep, k) + 1, From(s, sep, k + 1) - 1)
           /\ Pieces(s, sep)[k] \in Seq(A)
<1> DEFINE B == Bounds(s, sep)
           lo == From(s, sep, k)
           hi == From(s, sep, k + 1)
<1>1. /\ Len(s) \in Nat /\ Len(s) + 1 \in Nat /\ Count(s, sep) \in Nat
      /\ B \in SUBSET (0..Len(s) + 1)
      /\ Cardinality(B) = Count(s, sep) + 2
  BY BoundsFacts
<1> HIDE DEF B
<1>2. k \in 1..Cardinality(B) /\ k + 1 \in 1..Cardinality(B) /\ k < k + 1
  BY SMT, <1>1
<1>3. lo \in B /\ hi \in B
  BY <1>1, <1>2, NthExists DEF From, B
<1>4. lo < hi
  BY <1>1, <1>2, NthIncreases DEF From, B
<1> HIDE DEF lo, hi
<1>5. lo \in 0..Len(s) /\ hi \in 1..Len(s) + 1
  BY SMT, <1>1, <1>3, <1>4
<1>6. Pieces(s, sep)[k] = SubSeq(s, lo + 1, hi - 1)
  BY DEF Pieces, Count, lo, hi, From
<1>7. SubSeq(s, lo + 1, hi - 1) \in Seq(A)
  <2>1. lo + 1 \in Int /\ hi - 1 \in Int /\ \A i \in lo + 1..hi - 1 : i \in 1..Len(s)
    BY SMT, <1>1, <1>5
  <2>2. \A i \in lo + 1..hi - 1 : s[i] \in A
    BY <2>1, ElementOfSeq
  <2> QED BY <2>1, <2>2, SubSeqProperties
<1> QED BY <1>4, <1>5, <1>6, <1>7 DEF lo, hi

(* The pieces of a sequence are sequences of its elements. *)
LEMMA PiecesType ==
    ASSUME NEW A, NEW s \in Seq(A), NEW sep
    PROVE  /\ Pieces(s, sep) \in Seq(Seq(A))
           /\ Len(Pieces(s, sep)) = Count(s, sep) + 1
<1>1. Count(s, sep) + 1 \in Nat
  <2>1. Count(s, sep) \in Nat
    BY BoundsFacts
  <2> QED BY SMT, <2>1
<1>2. \A k \in 1..Count(s, sep) + 1 : Pieces(s, sep)[k] \in Seq(A)
  BY PieceBounds
<1>3. Pieces(s, sep) \in [1..Count(s, sep) + 1 -> Seq(A)]
  BY <1>2 DEF Pieces, Count
<1> QED BY <1>1, <1>3, FunctionIsSeq

(* The bounds of a beginning are those of the whole, up to its end. *)
LEMMA BoundsOfBeginning ==
    ASSUME NEW A, NEW s \in Seq(A), NEW r \in Seq(A), NEW sep,
           NEW k \in 1..Count(s, sep) + 1
    PROVE  /\ From(s \o r, sep, k) = Nth(Starts(s, sep), k)
           /\ Nth(Starts(s, sep), k) \in 0..Len(s)
<1> DEFINE w == s \o r
           S == Starts(s, sep)
           n == Len(s)
           m == Len(r)
<1>1. /\ n \in Nat /\ m \in Nat /\ w \in Seq(A) /\ Len(w) = n + m
      /\ \A i \in 1..n + m : w[i] = IF i <= n THEN s[i] ELSE r[i - n]
  BY LenProperties, ConcatProperties
<1>2. /\ Len(w) + 1 \in Nat
      /\ Bounds(w, sep) \in SUBSET (0..Len(w) + 1)
  BY <1>1, BoundsFacts
<1>3. S \in SUBSET (0..n) /\ Cardinality(S) = Count(s, sep) + 1
  BY BoundsFacts
<1>4. n \in 0..Len(w) + 1
  BY SMT, <1>1
<1>5. /\ \A i \in 1..n : i \in 1..Len(w) /\ i <= n /\ w[i] = s[i]
      /\ \A i \in 1..Len(w) : i <= n => i \in 1..n
      /\ 0 <= n /\ ~(Len(w) + 1 <= n)
  BY SMT, <1>1
<1>6. S \in SUBSET Bounds(w, sep)
  BY <1>5 DEF Bounds, Cuts, Starts
<1>7. \A u \in Bounds(w, sep) : u \in S <=> u <= n
  <2>1. ASSUME NEW u \in Bounds(w, sep), u <= n PROVE u \in S
    BY <1>5, <2>1 DEF Bounds, Cuts, Starts
  <2>2. \A u \in S : u <= n
    BY SMT, <1>1, <1>3
  <2> QED BY <2>1, <2>2
<1> HIDE DEF w, S, n, m
<1>8. k \in 1..Cardinality(S)
  BY <1>3 DEF S
<1>9. Nth(Bounds(w, sep), k) = Nth(S, k) /\ Nth(S, k) \in S
  BY <1>2, <1>4, <1>6, <1>7, <1>8, NthBelow
<1> QED BY <1>3, <1>9 DEF From, w, S, n

LEMMA SubSeqOfBeginning ==
    ASSUME NEW A, NEW s \in Seq(A), NEW r \in Seq(A),
           NEW a \in Nat \ {0}, NEW b \in 0..Len(s)
    PROVE  SubSeq(s \o r, a, b) = SubSeq(s, a, b)
<1> DEFINE p == SubSeq(s \o r, a, b)
           q == SubSeq(s, a, b)
           l == IF a <= b THEN b - a + 1 ELSE 0
<1>1. /\ Len(s) \in Nat /\ Len(r) \in Nat
      /\ \A i \in 1..Len(s) + Len(r) : (s \o r)[i] = IF i <= Len(s) THEN s[i] ELSE r[i - Len(s)]
  BY LenProperties, ConcatProperties
<1>2. /\ a \in Int /\ b \in Int
      /\ \A i \in a..b : i \in 1..Len(s) /\ i \in 1..Len(s) + Len(r) /\ i <= Len(s)
  BY SMT, <1>1
<1>3. \A i \in a..b : s[i] \in A /\ (s \o r)[i] = s[i]
  BY <1>1, <1>2, ElementOfSeq
<1>4. /\ q \in Seq(A) /\ Len(q) = l
      /\ \A i \in 1..b - a + 1 : q[i] = s[a + i - 1]
  BY <1>2, <1>3, SubSeqProperties, SMTT(20)
<1>5. /\ p \in Seq(A) /\ Len(p) = l
      /\ \A i \in 1..b - a + 1 : p[i] = (s \o r)[a + i - 1]
  <2>1. \A i \in a..b : (s \o r)[i] \in A
    BY <1>3
  <2> QED BY <1>2, <2>1, SubSeqProperties, SMTT(20)
<1>6. \A i \in 1..l : i \in 1..b - a + 1 /\ a + i - 1 \in a..b
  BY SMT, <1>2
<1> HIDE DEF p, q, l
<1>7. \A i \in 1..Len(p) : p[i] = q[i]
  BY <1>3, <1>4, <1>5, <1>6
<1>8. p = q
  BY <1>4, <1>5, <1>7, SeqEqual
<1> QED BY <1>8 DEF p, q

LEMMA CountGrows ==
    ASSUME NEW A, NEW s \in Seq(A), NEW r \in Seq(A), NEW sep
    PROVE  /\ Count(s, sep) \in Nat /\ Count(s \o r, sep) \in Nat
           /\ Count(s, sep) <= Count(s \o r, sep)
<1>1. /\ Len(s) \in Nat /\ Len(r) \in Nat /\ s \o r \in Seq(A) /\ Len(s \o r) = Len(s) + Len(r)
      /\ \A i \in 1..Len(s) + Len(r) : (s \o r)[i] = IF i <= Len(s) THEN s[i] ELSE r[i - Len(s)]
  BY LenProperties, ConcatProperties
<1>2. \A i \in 1..Len(s) : i \in 1..Len(s \o r) /\ (s \o r)[i] = s[i]
  BY SMT, <1>1
<1>3. Cuts(s, sep) \in SUBSET Cuts(s \o r, sep)
  BY <1>2 DEF Cuts
<1>4. Cuts(s \o r, sep) \in SUBSET (0..Len(s \o r)) /\ Len(s \o r) \in Nat
  <2>1. Starts(s \o r, sep) \in SUBSET (0..Len(s \o r))
    BY <1>1, BoundsFacts
  <2> QED BY <1>1, <2>1, LenProperties DEF Starts
<1>5. IsFiniteSet(Cuts(s \o r, sep))
  BY <1>4, FinitePositions
<1>6. Count(s, sep) <= Count(s \o r, sep)
  BY <1>3, <1>5, FS_Subset DEF Count
<1> QED BY <1>1, <1>6, BoundsFacts

(* The finished pieces of a beginning are pieces of the whole. *)
LEMMA OwnBounds ==
    ASSUME NEW A, NEW s \in Seq(A), NEW sep, NEW k \in 1..Count(s, sep) + 1
    PROVE  From(s, sep, k) = Nth(Starts(s, sep), k)
<1>1. PICK e \in Seq(A) : e = <<>>
  BY EmptySeq
<1>2. s \o e = s
  BY SMT, <1>1, ConcatEqualIffEmpty
<1>3. From(s \o e, sep, k) = Nth(Starts(s, sep), k)
  BY BoundsOfBeginning
<1> QED BY <1>2, <1>3

LEMMA PiecesShared ==
    ASSUME NEW A, NEW s \in Seq(A), NEW r \in Seq(A), NEW sep,
           NEW k \in 1..Count(s, sep)
    PROVE  Pieces(s \o r, sep)[k] = Pieces(s, sep)[k]
<1> DEFINE w == s \o r
           lo == From(s, sep, k)
           hi == From(s, sep, k + 1)
<1>1. /\ Count(s, sep) \in Nat /\ Count(w, sep) \in Nat
      /\ Count(s, sep) <= Count(w, sep)
  BY CountGrows
<1>2. /\ k \in 1..Count(s, sep) + 1 /\ k + 1 \in 1..Count(s, sep) + 1
      /\ k \in 1..Count(w, sep) + 1
  BY SMT, <1>1
<1>3. w \in Seq(A) /\ Len(s) \in Nat
  BY ConcatProperties, LenProperties
<1>4. ASSUME NEW j \in 1..Count(s, sep) + 1
      PROVE  From(w, sep, j) = From(s, sep, j) /\ From(s, sep, j) \in 0..Len(s)
  <2>1. From(w, sep, j) = Nth(Starts(s, sep), j) /\ Nth(Starts(s, sep), j) \in 0..Len(s)
    BY BoundsOfBeginning
  <2>2. From(s, sep, j) = Nth(Starts(s, sep), j)
    BY OwnBounds
  <2> QED BY <2>1, <2>2
<1>5. From(w, sep, k) = lo /\ From(w, sep, k + 1) = hi /\ lo \in 0..Len(s) /\ hi \in 0..Len(s)
  BY <1>2, <1>4
<1> HIDE DEF w
<1>6. Pieces(s, sep)[k] = SubSeq(s, lo + 1, hi - 1) /\ lo < hi
  BY <1>2, PieceBounds
<1>7. Pieces(w, sep)[k] = SubSeq(w, From(w, sep, k) + 1, From(w, sep, k + 1) - 1)
  BY <1>2, <1>3, PieceBounds
<1> HIDE DEF lo, hi
<1>8. lo + 1 \in Nat \ {0} /\ hi - 1 \in 0..Len(s)
  BY SMT, <1>3, <1>5, <1>6
<1>9. SubSeq(s \o r, lo + 1, hi - 1) = SubSeq(s, lo + 1, hi - 1)
  BY <1>8, SubSeqOfBeginning
<1> QED BY <1>5, <1>6, <1>7, <1>9 DEF w

LEMMA LastBound ==
    ASSUME NEW A, NEW s \in Seq(A), NEW sep
    PROVE  From(s, sep, Count(s, sep) + 2) = Len(s) + 1
<1> DEFINE B == Bounds(s, sep)
           n == Len(s) + 1
<1>1. n \in Nat /\ B \in SUBSET (0..n) /\ Cardinality(B) = Count(s, sep) + 2
  BY BoundsFacts
<1>2. n \in B
  BY DEF Bounds
<1>3. Rank(B, n) = Cardinality(B)
  BY <1>1, RankOfAll
<1>4. Nth(B, Rank(B, n)) = n
  BY <1>1, <1>2, NthUnique
<1> QED BY <1>1, <1>3, <1>4 DEF From

(* The last piece of a beginning is the start of a piece of the whole. *)
LEMMA LastPiece ==
    ASSUME NEW A, NEW s \in Seq(A), NEW r \in Seq(A), NEW sep
    PROVE  LET k  == Count(s, sep) + 1
               hi == From(s \o r, sep, k + 1)
           IN  /\ hi \in Len(s) + 1..Len(s) + Len(r) + 1
               /\ Pieces(s \o r, sep)[k] = Pieces(s, sep)[k] \o SubSeq(s \o r, Len(s) + 1, hi - 1)
<1> DEFINE k == Count(s, sep) + 1
           w == s \o r
           n == Len(s)
           lo == From(s, sep, k)
           hi == From(w, sep, k + 1)
<1>1. /\ Count(s, sep) \in Nat /\ Count(w, sep) \in Nat /\ Count(s, sep) <= Count(w, sep)
  BY CountGrows
<1>2. k \in 1..Count(s, sep) + 1 /\ k \in 1..Count(w, sep) + 1
  BY SMT, <1>1
<1>3. w \in Seq(A) /\ n \in Nat /\ Len(r) \in Nat /\ Len(w) = n + Len(r)
  BY ConcatProperties, LenProperties
<1>4. From(w, sep, k) = lo
  <2> HIDE DEF k
  <2>1. From(w, sep, k) = Nth(Starts(s, sep), k)
    BY <1>2, BoundsOfBeginning
  <2>2. lo = Nth(Starts(s, sep), k)
    BY <1>2, OwnBounds
  <2> QED BY <2>1, <2>2
<1>5. k + 1 = Count(s, sep) + 2
  BY SMT, <1>1
<1>6. From(s, sep, k + 1) = n + 1
  BY <1>5, LastBound
<1> HIDE DEF k
<1>7. Pieces(s, sep)[k] = SubSeq(s, lo + 1, From(s, sep, k + 1) - 1) /\ lo \in 0..n
  BY <1>2, PieceBounds
<1> HIDE DEF w
<1>8. /\ Pieces(w, sep)[k] = SubSeq(w, From(w, sep, k) + 1, hi - 1)
      /\ hi \in 1..Len(w) + 1
  BY <1>2, <1>3, PieceBounds
<1>9. ~(hi <= n)
  <2>1. /\ Len(w) + 1 \in Nat /\ Bounds(w, sep) \in SUBSET (0..Len(w) + 1)
        /\ Cardinality(Bounds(w, sep)) = Count(w, sep) + 2
    BY <1>3, BoundsFacts
  <2>2. k + 1 \in 1..Cardinality(Bounds(w, sep)) /\ k + 1 > k
    BY SMT, <1>1, <1>2, <2>1
  <2>3. hi \in Bounds(w, sep) /\ Rank(Bounds(w, sep), hi) = k + 1
    BY <2>1, <2>2, NthExists DEF From
  <2>4. \A u \in Bounds(w, sep) : u <= n => u \in Starts(s, sep)
    <3>1. \A i \in 1..Len(w) : i <= n => i \in 1..n /\ w[i] = s[i]
      <4>1. \A i \in 1..n + Len(r) : w[i] = IF i <= n THEN s[i] ELSE r[i - n]
        BY ConcatProperties DEF w
      <4> QED BY SMT, <1>3, <4>1
    <3>2. ~(Len(w) + 1 <= n)
      BY SMT, <1>3
    <3> QED BY <3>1, <3>2 DEF Bounds, Cuts, Starts
  <2>5. SUFFICES ASSUME hi <= n PROVE FALSE
    OBVIOUS
  <2> HIDE DEF hi
  <2>6. \A u \in Bounds(w, sep) : u <= hi => u <= n
    BY SMT, <1>3, <2>1, <2>3, <2>5
  <2>7. {u \in Bounds(w, sep) : u <= hi} \in SUBSET Starts(s, sep)
    BY <2>4, <2>6
  <2>8. /\ Starts(s, sep) \in SUBSET (0..n)
        /\ Cardinality(Starts(s, sep)) = k
    BY BoundsFacts DEF k
  <2>9. Rank(Bounds(w, sep), hi) <= Cardinality(Starts(s, sep))
    <3>1. IsFiniteSet(Starts(s, sep))
      BY <1>3, <2>8, FinitePositions
    <3> QED BY <2>7, <3>1, FS_Subset DEF Rank
  <2> QED BY SMT, <1>2, <2>3, <2>8, <2>9
<1> HIDE DEF lo, hi
<1>10. /\ lo + 1 \in 1..Len(w) + 1 /\ n \in (lo + 1) - 1..Len(w) /\ hi - 1 \in n..Len(w)
       /\ lo + 1 \in Nat \ {0} /\ n \in 0..Len(s) /\ (n + 1) - 1 = n
       /\ hi \in n + 1..n + Len(r) + 1
  BY SMT, <1>3, <1>7, <1>8, <1>9
<1>11. SubSeq(w, lo + 1, n) = SubSeq(s, lo + 1, n)
  BY <1>10, SubSeqOfBeginning DEF w
<1>12. SubSeq(w, lo + 1, n) \o SubSeq(w, n + 1, hi - 1) = SubSeq(w, lo + 1, hi - 1)
  <2> DEFINE a == lo + 1
             b == hi - 1
  <2>1. a \in 1..Len(w) + 1 /\ n \in a - 1..Len(w) /\ b \in n..Len(w)
    BY <1>10
  <2> HIDE DEF a, b
  <2>2. SubSeq(w, a, n) \o SubSeq(w, n + 1, b) = SubSeq(w, a, b)
    <3> HIDE DEF n
    <3> QED BY <1>3, <2>1, ConcatAdjacentSubSeq, SMTT(60)
  <2> QED BY <2>2 DEF a, b
<1>13. Pieces(w, sep)[k] = Pieces(s, sep)[k] \o SubSeq(w, n + 1, hi - 1)
  BY <1>4, <1>6, <1>7, <1>8, <1>10, <1>11, <1>12
<1> QED BY <1>10, <1>13 DEF k, w, n, hi

LEMMA EndOfConcat ==
    ASSUME NEW A, NEW s \in Seq(A), NEW r \in Seq(A)
    PROVE  SubSeq(s \o r, Len(s) + 1, Len(s) + Len(r)) = r
<1> DEFINE w == s \o r
           n == Len(s)
           m == Len(r)
           p == SubSeq(w, n + 1, n + m)
<1>1. /\ n \in Nat /\ m \in Nat /\ w \in Seq(A) /\ Len(w) = n + m
      /\ \A i \in 1..n + m : w[i] = IF i <= n THEN s[i] ELSE r[i - n]
  BY LenProperties, ConcatProperties
<1> HIDE DEF w, n, m
<1>2. \A i \in n + 1..n + m : i \in 1..Len(w)
  BY SMT, <1>1
<1>3. \A i \in n + 1..n + m : w[i] \in A
  BY <1>1, <1>2, ElementOfSeq
<1>4. n + 1 \in Int /\ n + m \in Int
  BY SMT, <1>1
<1>5. /\ p \in Seq(A) /\ Len(p) = IF n + 1 <= n + m THEN (n + m) - (n + 1) + 1 ELSE 0
      /\ \A i \in 1..(n + m) - (n + 1) + 1 : p[i] = w[(n + 1) + i - 1]
  <2> DEFINE a == n + 1
             b == n + m
  <2>1. a \in Int /\ b \in Int /\ \A i \in a..b : w[i] \in A
    BY <1>3, <1>4
  <2> HIDE DEF a, b
  <2>2. /\ SubSeq(w, a, b) \in Seq(A) /\ Len(SubSeq(w, a, b)) = IF a <= b THEN b - a + 1 ELSE 0
        /\ \A i \in 1..b - a + 1 : SubSeq(w, a, b)[i] = w[a + i - 1]
    BY <2>1, SubSeqProperties, SMTT(20)
  <2> QED BY <2>2 DEF a, b
<1> HIDE DEF p
<1>6. Len(p) = m /\ \A i \in 1..m : p[i] = r[i]
  <2>1. Len(p) = m
    BY SMT, <1>1, <1>5
  <2>2. ASSUME NEW i \in 1..m PROVE p[i] = r[i]
    <3>1. i \in 1..(n + m) - (n + 1) + 1 /\ (n + 1) + i - 1 = n + i
      BY SMT, <1>1
    <3>2. n + i \in 1..n + m /\ ~(n + i <= n) /\ (n + i) - n = i
      BY SMT, <1>1
    <3>3. p[i] = w[n + i]
      BY <1>5, <3>1
    <3>4. w[n + i] = r[i]
      BY <1>1, <3>2
    <3> QED BY <3>3, <3>4
  <2> QED BY <2>1, <2>2
<1>7. p = r
  BY <1>5, <1>6, SeqEqual DEF m
<1> QED BY <1>7 DEF p, w, n, m

(* What has no separator in it only makes the last piece longer... *)
LEMMA PiecesPlain ==
    ASSUME NEW A, NEW s \in Seq(A), NEW r \in Seq(A), NEW sep,
           \A i \in 1..Len(r) : r[i] # sep
    PROVE  /\ Count(s \o r, sep) = Count(s, sep)
           /\ \A k \in 1..Count(s, sep) : Pieces(s \o r, sep)[k] = Pieces(s, sep)[k]
           /\ Pieces(s \o r, sep)[Count(s, sep) + 1] = Pieces(s, sep)[Count(s, sep) + 1] \o r
<1> DEFINE w == s \o r
           n == Len(s)
           m == Len(r)
           k == Count(s, sep) + 1
<1>1. /\ n \in Nat /\ m \in Nat /\ w \in Seq(A) /\ Len(w) = n + m
      /\ \A i \in 1..n + m : w[i] = IF i <= n THEN s[i] ELSE r[i - n]
  BY LenProperties, ConcatProperties
<1>2. Count(w, sep) = Count(s, sep) /\ Count(s, sep) \in Nat
  <2>1. /\ \A i \in 1..n : i \in 1..Len(w) /\ w[i] = s[i]
        /\ \A i \in 1..Len(w) : i \notin 1..n => i - n \in 1..m /\ w[i] = r[i - n]
    BY SMT, <1>1
  <2>2. Cuts(w, sep) = Cuts(s, sep)
    BY <2>1 DEF Cuts
  <2> QED BY <2>2, BoundsFacts DEF Count
<1>3. From(w, sep, k + 1) = Len(w) + 1
  <2>1. k + 1 = Count(w, sep) + 2
    BY SMT, <1>2
  <2> HIDE DEF w, k
  <2> QED BY <1>1, <2>1, LastBound
<1>4. Pieces(w, sep)[k] = Pieces(s, sep)[k] \o SubSeq(w, n + 1, From(w, sep, k + 1) - 1)
  BY LastPiece
<1>5. From(w, sep, k + 1) - 1 = n + m
  BY SMT, <1>1, <1>3
<1>6. SubSeq(w, n + 1, n + m) = r
  BY EndOfConcat
<1>7. Pieces(w, sep)[k] = Pieces(s, sep)[k] \o r
  BY <1>4, <1>5, <1>6
<1>8. ASSUME NEW j \in 1..Count(s, sep) PROVE Pieces(w, sep)[j] = Pieces(s, sep)[j]
  BY PiecesShared, SMTT(20)
<1> QED BY <1>2, <1>7, <1>8

(* ... and a separator ends it. *)
LEMMA PiecesCut ==
    ASSUME NEW A, NEW s \in Seq(A), NEW sep \in A
    PROVE  Pieces(s \o <<sep>>, sep) = Append(Pieces(s, sep), <<>>)
<1>0. <<sep>> \in Seq(A)
  BY SMT
<1> PICK r \in Seq(A) : r = <<sep>>
  BY <1>0
<1> DEFINE w == s \o r
           n == Len(s)
           k == Count(s, sep) + 1
           p == Pieces(s, sep)
           q == Pieces(w, sep)
<1>1. Len(r) = 1 /\ r[1] = sep
  BY SMT
<1>2. /\ n \in Nat /\ w \in Seq(A) /\ Len(w) = n + Len(r)
      /\ \A i \in 1..n + Len(r) : w[i] = IF i <= n THEN s[i] ELSE r[i - n]
  BY <1>1, LenProperties, ConcatProperties
<1>3. Len(w) = n + 1 /\ w[n + 1] = sep /\ \A i \in 1..n : w[i] = s[i]
  BY SMT, <1>1, <1>2
<1>4. Count(s, sep) \in Nat /\ k \in Nat /\ k + 1 = Count(s, sep) + 2 /\ k \in 1..k
  <2>1. Count(s, sep) \in Nat
    BY BoundsFacts
  <2> QED BY SMT, <2>1
<1>5. Count(w, sep) = k
  <2>1. /\ \A i \in 1..n : i \in 1..Len(w)
        /\ \A i \in 1..Len(w) : i \in 1..n \/ i = n + 1
        /\ n + 1 \in 1..Len(w) /\ n + 1 \notin 1..n
    BY SMT, <1>2, <1>3
  <2>2. Cuts(w, sep) = Cuts(s, sep) \cup {n + 1} /\ n + 1 \notin Cuts(s, sep)
    BY <1>3, <2>1 DEF Cuts
  <2>3. Starts(s, sep) \in SUBSET (0..n)
    BY BoundsFacts
  <2>4. Cuts(s, sep) \in SUBSET (0..n)
    BY <2>3 DEF Starts
  <2>5. IsFiniteSet(Cuts(s, sep))
    BY <1>2, <2>4, FinitePositions
  <2> QED BY <2>2, <2>5, FS_AddElement DEF Count
<1>6. /\ From(w, sep, k + 1) \in n + 1..n + Len(r) + 1
      /\ q[k] = p[k] \o SubSeq(w, n + 1, From(w, sep, k + 1) - 1)
  <2>1. From(w, sep, k + 1) \in n + 1..n + Len(r) + 1
    BY LastPiece
  <2>2. q[k] = p[k] \o SubSeq(w, n + 1, From(w, sep, k + 1) - 1)
    BY LastPiece
  <2> QED BY <2>1, <2>2
<1> HIDE DEF w, k
<1>7. From(w, sep, (k + 1) + 1) = n + 2
  <2>1. From(w, sep, k + 2) = Len(w) + 1
    BY <1>2, <1>5, LastBound
  <2> QED BY SMT, <1>2, <1>3, <1>4, <2>1
<1>8. /\ From(w, sep, k + 1) < From(w, sep, (k + 1) + 1)
      /\ q[k + 1] = SubSeq(w, From(w, sep, k + 1) + 1, From(w, sep, (k + 1) + 1) - 1)
  <2>1. k + 1 \in 1..Count(w, sep) + 1
    BY SMT, <1>4, <1>5
  <2> DEFINE l == k + 1
  <2> HIDE DEF l
  <2>2. l \in 1..Count(w, sep) + 1
    BY <2>1 DEF l
  <2>3. /\ From(w, sep, l) < From(w, sep, l + 1)
        /\ q[l] = SubSeq(w, From(w, sep, l) + 1, From(w, sep, l + 1) - 1)
    <3>1. w \in Seq(A)
      BY <1>2
    <3> QED BY <2>2, <3>1, PieceBounds, SMTT(20)
  <2> QED BY <2>3 DEF l
<1>9. From(w, sep, k + 1) = n + 1
  BY SMT, <1>1, <1>2, <1>6, <1>7, <1>8
<1>10. /\ (n + 1) - 1 < n + 1 /\ (n + 2) - 1 < (n + 1) + 1
       /\ {n + 1, (n + 1) - 1, (n + 1) + 1, (n + 2) - 1} \subseteq Int
  BY SMT, <1>2
<1> PICK e \in Seq(A) : e = <<>>
  BY EmptySeq
<1>11. q[k] = p[k] \o e /\ q[k + 1] = e
  <2>1. SubSeq(w, n + 1, (n + 1) - 1) = e /\ SubSeq(w, (n + 1) + 1, (n + 2) - 1) = e
    BY <1>10, SubSeqEmpty, SMTT(20)
  <2> QED BY <1>6, <1>7, <1>8, <1>9, <2>1
<1>12. /\ p \in Seq(Seq(A)) /\ Len(p) = k /\ q \in Seq(Seq(A)) /\ Len(q) = k + 1
  BY <1>2, <1>5, PiecesType DEF k
<1>13. q[k] = p[k]
  <2>1. p[k] \in Seq(A)
    BY <1>4, <1>12, ElementOfSeq
  <2> QED BY <1>11, <2>1, ConcatEqualIffEmpty, SMTT(20)
<1>14. ASSUME NEW j \in 1..Count(s, sep) PROVE q[j] = p[j]
  BY PiecesShared, SMTT(20) DEF w
<1>15. /\ Append(p, e) \in Seq(Seq(A)) /\ Len(Append(p, e)) = Len(p) + 1
       /\ \A i \in 1..Len(p) : Append(p, e)[i] = p[i]
       /\ Append(p, e)[Len(p) + 1] = e
  BY <1>12, AppendProperties, SMTT(20)
<1> HIDE DEF p, q
<1>16. \A i \in 1..Len(q) : i \in 1..Count(s, sep) \/ i = k \/ i = k + 1
  BY SMT, <1>4, <1>12 DEF k
<1>17. k \in 1..Len(p) /\ \A i \in 1..Count(s, sep) : i \in 1..Len(p)
  BY SMT, <1>4, <1>12 DEF k
<1>18. \A i \in 1..Len(q) : q[i] = Append(p, e)[i]
  BY <1>11, <1>12, <1>13, <1>14, <1>15, <1>16, <1>17
<1>19. q = Append(p, e)
  BY <1>12, <1>15, <1>18, SeqEqual
<1> QED BY <1>19 DEF p, q, w

----------------------------------------------------------------------------
(* The last element of a sequence, what comes before it, and beginnings. *)
LEMMA FirstPart ==
    ASSUME NEW A, NEW t \in Seq(A), NEW n \in 0..Len(t)
    PROVE  /\ SubSeq(t, 1, n) \in Seq(A) /\ Len(SubSeq(t, 1, n)) = n
           /\ \A i \in 1..n : SubSeq(t, 1, n)[i] = t[i]
<1>1. Len(t) \in Nat
  BY LenProperties
<1>2. \A i \in 1..n : i \in 1..Len(t)
  BY SMT, <1>1
<1>3. n \in Int /\ 1 \in Int /\ \A i \in 1..n : t[i] \in A
  BY <1>1, <1>2, ElementOfSeq, SMTT(20)
<1> DEFINE f == SubSeq(t, 1, n)
<1>4. f \in Seq(A)
  BY <1>3, SubSeqProperties, SMTT(20)
<1>5. Len(f) = IF 1 <= n THEN n - 1 + 1 ELSE 0
  BY <1>3, SubSeqProperties, SMTT(20)
<1>6. \A i \in 1..n - 1 + 1 : f[i] = t[1 + i - 1]
  BY <1>3, SubSeqProperties, SMTT(20)
<1> HIDE DEF f
<1>7. Len(f) = n /\ \A i \in 1..n : f[i] = t[i]
  BY SMT, <1>1, <1>5, <1>6
<1> QED BY <1>4, <1>7 DEF f

LEMMA FrontFacts ==
    ASSUME NEW A, NEW p \in Seq(A), NEW n \in Nat, Len(p) = n + 1
    PROVE  /\ Front(p) \in Seq(A) /\ Len(Front(p)) = n
           /\ \A i \in 1..n : Front(p)[i] = p[i]
           /\ Last(p) = p[n + 1] /\ Last(p) \in A
<1> DEFINE f == SubSeq(p, 1, n)
<1>1. n + 1 \in 1..Len(p) /\ Len(p) - 1 = n /\ n \in 0..Len(p)
  BY SMT
<1>4. f \in Seq(A) /\ Len(f) = n /\ \A i \in 1..n : f[i] = p[i]
  BY <1>1, FirstPart
<1> HIDE DEF f
<1>6. Front(p) = f
  BY <1>1 DEF Front, f
<1>7. Last(p) = p[n + 1] /\ Last(p) \in A
  BY <1>1, ElementOfSeq DEF Last
<1> QED BY <1>4, <1>6, <1>7

LEMMA FrontAppend ==
    ASSUME NEW A, NEW s \in Seq(A), NEW x \in A
    PROVE  Front(Append(s, x)) = s /\ Last(Append(s, x)) = x
<1> DEFINE p == Append(s, x)
           n == Len(s)
<1>1. /\ p \in Seq(A) /\ Len(p) = n + 1 /\ n \in Nat
      /\ \A i \in 1..n : p[i] = s[i]
      /\ p[n + 1] = x
  BY AppendProperties, LenProperties, SMTT(20)
<1> HIDE DEF p, n
<1>2. /\ Front(p) \in Seq(A) /\ Len(Front(p)) = n
      /\ \A i \in 1..n : Front(p)[i] = p[i]
      /\ Last(p) = p[n + 1]
  BY <1>1, FrontFacts
<1>3. \A i \in 1..Len(Front(p)) : Front(p)[i] = s[i]
  BY <1>1, <1>2
<1>4. Front(p) = s
  <2>1. Len(Front(p)) = Len(s)
    BY <1>2 DEF n
  <2> QED BY <1>2, <1>3, <2>1, SeqEqual
<1> QED BY <1>1, <1>2, <1>4 DEF p

LEMMA FrontLast ==
    ASSUME NEW A, NEW s \in Seq(A), s # <<>>
    PROVE  Front(s) \in Seq(A) /\ Last(s) \in A /\ s = Append(Front(s), Last(s))
<1> PICK p \in Seq(A), x \in A : s = Append(p, x)
  BY SequenceEmptyOrAppend
<1>1. Front(s) = p /\ Last(s) = x
  BY FrontAppend
<1> QED BY <1>1

(* A beginning is what something more has been appended to. *)
LEMMA PrefixSplit ==
    ASSUME NEW A, NEW s \in Seq(A), NEW t \in Seq(A), IsPrefix(s, t)
    PROVE  \E z \in Seq(A) : t = s \o z
<1> DEFINE n == Len(s)
           m == Len(t)
           z == SubSeq(t, n + 1, m)
           f == SubSeq(t, 1, n)
<1>1. n \in Nat /\ m \in Nat /\ n <= m /\ \A i \in 1..n : s[i] = t[i]
  BY LenProperties DEF IsPrefix
<1> HIDE DEF n, m
<1>2. /\ 1 \in 1..m + 1 /\ n \in 1 - 1..m /\ m \in n..m /\ n + 1 \in Int /\ m \in Int
      /\ 1 \in Int /\ n \in Int
      /\ \A i \in n + 1..m : i \in 1..m
      /\ \A i \in 1..n : i \in 1..m /\ 1 + i - 1 = i
  BY SMT, <1>1
<1>3. (\A i \in n + 1..m : t[i] \in A) /\ (\A i \in 1..n : t[i] \in A)
  BY <1>2, ElementOfSeq DEF m
<1>4. z \in Seq(A)
  BY <1>2, <1>3, SubSeqProperties, SMTT(20)
<1>5. f \in Seq(A) /\ Len(f) = n /\ \A i \in 1..n : f[i] = t[i]
  <2>1. n \in 0..Len(t)
    BY SMT, <1>1 DEF m
  <2> QED BY <2>1, FirstPart
<1>8. f = s
  <2>1. Len(f) = Len(s) /\ \A i \in 1..Len(f) : f[i] = s[i]
    BY <1>1, <1>5 DEF n
  <2> QED BY <1>5, <2>1, SeqEqual
<1>9. f \o z = SubSeq(t, 1, m)
  BY <1>2, ConcatAdjacentSubSeq DEF f, m
<1>10. SubSeq(t, 1, m) = t
  BY SubSeqFull DEF m
<1>11. t = s \o z
  BY <1>8, <1>9, <1>10
<1> HIDE DEF z
<1> QED BY <1>4, <1>11

LEMMA PrefixConcat ==
    ASSUME NEW A, NEW s \in Seq(A), NEW z \in Seq(A)
    PROVE  IsPrefix(s, s \o z)
<1>1. /\ Len(s) \in Nat /\ Len(z) \in Nat /\ Len(s \o z) = Len(s) + Len(z)
      /\ \A i \in 1..Len(s) + Len(z) : (s \o z)[i] = IF i <= Len(s) THEN s[i] ELSE z[i - Len(s)]
  BY LenProperties, ConcatProperties
<1>2. Len(s) <= Len(s \o z) /\ \A i \in 1..Len(s) : s[i] = (s \o z)[i]
  BY SMT, <1>1
<1> QED BY <1>2 DEF IsPrefix

(* The finished pieces of a sequence, and the open one. *)
LEMMA PiecesFacts ==
    ASSUME NEW A, NEW s \in Seq(A), NEW sep
    PROVE  /\ Count(s, sep) \in Nat
           /\ Pieces(s, sep) \in Seq(Seq(A)) /\ Len(Pieces(s, sep)) = Count(s, sep) + 1
           /\ Front(Pieces(s, sep)) \in Seq(Seq(A)) /\ Len(Front(Pieces(s, sep))) = Count(s, sep)
           /\ \A i \in 1..Count(s, sep) : Front(Pieces(s, sep))[i] = Pieces(s, sep)[i]
           /\ Last(Pieces(s, sep)) = Pieces(s, sep)[Count(s, sep) + 1]
           /\ Last(Pieces(s, sep)) \in Seq(A)
           /\ Pieces(s, sep) = Append(Front(Pieces(s, sep)), Last(Pieces(s, sep)))
<1> DEFINE p == Pieces(s, sep)
           n == Count(s, sep)
<1>1. n \in Nat
  BY BoundsFacts
<1>2. p \in Seq(Seq(A)) /\ Len(p) = n + 1
  BY PiecesType
<1> HIDE DEF p, n
<1>3. /\ Front(p) \in Seq(Seq(A)) /\ Len(Front(p)) = n
      /\ \A i \in 1..n : Front(p)[i] = p[i]
      /\ Last(p) = p[n + 1] /\ Last(p) \in Seq(A)
  BY <1>1, <1>2, FrontFacts
<1>4. p # <<>>
  <2>1. Len(p) # 0
    BY SMT, <1>1, <1>2
  <2> QED BY <2>1, EmptySeq
<1>5. p = Append(Front(p), Last(p))
  BY <1>2, <1>4, FrontLast
<1> QED BY <1>1, <1>2, <1>3, <1>5 DEF p, n

(* Whatever follows, finished pieces stay, and the open one only grows. *)
Continued(p, q, A) == \E k \in 1..Len(q), y \in Seq(A) : q[k] = p \o y

LEMMA PiecesGrow ==
    ASSUME NEW A, NEW s \in Seq(A), NEW r \in Seq(A), NEW sep
    PROVE  /\ IsPrefix(Front(Pieces(s, sep)), Front(Pieces(s \o r, sep)))
           /\ IsPrefix(Front(Pieces(s, sep)), Pieces(s \o r, sep))
           /\ Continued(Last(Pieces(s, sep)), Pieces(s \o r, sep), A)
<1> DEFINE w == s \o r
           p == Pieces(s, sep)
           q == Pieces(w, sep)
           n == Count(s, sep)
           m == Count(w, sep)
           y == SubSeq(w, Len(s) + 1, From(w, sep, n + 1 + 1) - 1)
<1>1. w \in Seq(A) /\ n <= m
  BY ConcatProperties, CountGrows
<1>2. /\ n \in Nat /\ Len(Front(p)) = n /\ \A i \in 1..n : Front(p)[i] = p[i]
      /\ Last(p) = p[n + 1]
  BY PiecesFacts, SMTT(20)
<1>3. ASSUME NEW i \in 1..n PROVE q[i] = p[i]
  BY PiecesShared, SMTT(20)
<1>4. From(w, sep, n + 1 + 1) \in Len(s) + 1..Len(s) + Len(r) + 1
  BY LastPiece
<1>5. q[n + 1] = p[n + 1] \o y
  BY LastPiece
<1> HIDE DEF w
<1>6. /\ m \in Nat /\ Len(Front(q)) = m /\ \A i \in 1..m : Front(q)[i] = q[i]
      /\ Len(q) = m + 1
  BY <1>1, PiecesFacts, SMTT(20)
<1>7. y \in Seq(A)
  <2>1. Len(s) \in Nat /\ Len(r) \in Nat /\ Len(w) = Len(s) + Len(r)
    BY LenProperties, ConcatProperties DEF w
  <2>2. /\ Len(s) + 1 \in Int /\ From(w, sep, n + 1 + 1) - 1 \in Int
        /\ \A i \in Len(s) + 1..From(w, sep, n + 1 + 1) - 1 : i \in 1..Len(w)
    BY SMT, <1>4, <2>1
  <2>3. \A i \in Len(s) + 1..From(w, sep, n + 1 + 1) - 1 : w[i] \in A
    BY <1>1, <2>2, ElementOfSeq
  <2> QED BY <2>2, <2>3, SubSeqProperties, SMTT(20)
<1> HIDE DEF p, q, n, m, y
<1>8. n <= Len(Front(q)) /\ n <= Len(q) /\ n + 1 \in 1..Len(q) /\ \A i \in 1..n : i \in 1..m
  BY SMT, <1>1, <1>2, <1>6
<1>9. \A i \in 1..Len(Front(p)) : Front(p)[i] = q[i] /\ Front(p)[i] = Front(q)[i]
  BY <1>2, <1>3, <1>6, <1>8
<1>10. IsPrefix(Front(p), Front(q)) /\ IsPrefix(Front(p), q)
  BY <1>2, <1>8, <1>9 DEF IsPrefix
<1>11. \E k \in 1..Len(q), z \in Seq(A) : q[k] = Last(p) \o z
  BY <1>2, <1>5, <1>7, <1>8
<1> QED BY <1>10, <1>11 DEF p, q, w, Continued

(* The same, said of the finished pieces and the open one. *)
LEMMA OpenPlain ==
    ASSUME NEW A, NEW s \in Seq(A), NEW r \in Seq(A), NEW sep,
           \A i \in 1..Len(r) : r[i] # sep
    PROVE  /\ Front(Pieces(s \o r, sep)) = Front(Pieces(s, sep))
           /\ Last(Pieces(s \o r, sep)) = Last(Pieces(s, sep)) \o r
<1> DEFINE w == s \o r
           p == Pieces(s, sep)
           q == Pieces(w, sep)
           n == Count(s, sep)
<1>1. w \in Seq(A)
  BY ConcatProperties
<1>2. /\ n \in Nat /\ Front(p) \in Seq(Seq(A)) /\ Len(Front(p)) = n
      /\ \A i \in 1..n : Front(p)[i] = p[i]
      /\ Last(p) = p[n + 1]
  BY PiecesFacts, SMTT(20)
<1>3. Count(w, sep) = n /\ (\A i \in 1..n : q[i] = p[i]) /\ q[n + 1] = p[n + 1] \o r
  BY PiecesPlain, SMTT(20)
<1> HIDE DEF w
<1>4. /\ Front(q) \in Seq(Seq(A)) /\ Len(Front(q)) = n
      /\ \A i \in 1..n : Front(q)[i] = q[i]
      /\ Last(q) = q[n + 1]
  <2>1. /\ Front(q) \in Seq(Seq(A)) /\ Len(Front(q)) = Count(w, sep)
        /\ \A i \in 1..Count(w, sep) : Front(q)[i] = q[i]
        /\ Last(q) = q[Count(w, sep) + 1]
    BY <1>1, PiecesFacts, SMTT(20)
  <2> QED BY <1>3, <2>1
<1> HIDE DEF p, q, n
<1>5. \A i \in 1..Len(Front(q)) : Front(q)[i] = Front(p)[i]
  BY <1>2, <1>3, <1>4
<1>6. Front(q) = Front(p)
  BY <1>2, <1>4, <1>5, SeqEqual
<1> QED BY <1>2, <1>3, <1>4, <1>6 DEF p, q, w

LEMMA OpenCut ==
    ASSUME NEW A, NEW s \in Seq(A), NEW sep \in A
    PROVE  /\ Front(Pieces(s \o <<sep>>, sep))
                = Append(Front(Pieces(s, sep)), Last(Pieces(s, sep)))
           /\ Last(Pieces(s \o <<sep>>, sep)) = <<>>
<1> PICK e \in Seq(A) : e = <<>>
  BY EmptySeq
<1>1. Pieces(s \o <<sep>>, sep) = Append(Pieces(s, sep), e)
  BY PiecesCut
<1>2. /\ Pieces(s, sep) \in Seq(Seq(A))
      /\ Pieces(s, sep) = Append(Front(Pieces(s, sep)), Last(Pieces(s, sep)))
  BY PiecesFacts, ZenonT(40)
<1>3. Front(Append(Pieces(s, sep), e)) = Pieces(s, sep) /\ Last(Append(Pieces(s, sep), e)) = e
  BY <1>2, FrontAppend
<1> QED BY <1>1, <1>2, <1>3

LEMMA PiecesOfNone ==
    ASSUME NEW sep
    PROVE  Front(Pieces(<<>>, sep)) = <<>> /\ Last(Pieces(<<>>, sep)) = <<>>
<1> PICK s \in Seq({}) : s = <<>>
  BY EmptySeq
<1> DEFINE p == Pieces(s, sep)
<1>1. Len(s) = 0
  BY EmptySeq
<1>2. Count(s, sep) = 0
  <2>1. \A i : i \notin 1..Len(s)
    BY SMT, <1>1
  <2>2. Cuts(s, sep) = {}
    BY <2>1 DEF Cuts
  <2> QED BY <2>2, FS_EmptySet DEF Count
<1>3. /\ Front(p) \in Seq(Seq({})) /\ Len(Front(p)) = 0
      /\ Last(p) \in Seq({})
  <2>1. /\ Front(p) \in Seq(Seq({})) /\ Len(Front(p)) = Count(s, sep)
        /\ Last(p) \in Seq({})
    BY PiecesFacts
  <2> QED BY <1>2, <2>1
<1>4. Front(p) = <<>>
  BY <1>3, EmptySeq, SMTT(20)
<1>5. Last(p) = <<>>
  BY <1>3, SMTT(20)
<1> QED BY <1>4, <1>5

----------------------------------------------------------------------------
(* Sequences mapped by a function, and their elements in a set. *)

Mapped(f, s) == [i \in 1..Len(s) |-> f[s[i]]]
Maps(f, A, B) == f \in [A -> B]
Same(a, b) == a = b
IsImage(z, f, s, B) == z \in Seq(B) /\ Len(z) = Len(s) /\ \A i \in 1..Len(s) : z[i] = f[s[i]]
Keep(s, C) == Select(s, {i \in 1..Len(s) : s[i] \in C})

(* What is mapped has the length of the sequence and an image at each place. *)
LEMMA MappedType ==
    ASSUME NEW A, NEW B, NEW f, Maps(f, A, B), NEW s \in Seq(A)
    PROVE  IsImage(Mapped(f, s), f, s, B)
<1>1. Len(s) \in Nat /\ \A i \in 1..Len(s) : s[i] \in A
  BY LenProperties, ElementOfSeq
<1>2. Mapped(f, s) \in [1..Len(s) -> B]
  BY <1>1 DEF Mapped, Maps
<1>3. Mapped(f, s) \in Seq(B) /\ Len(Mapped(f, s)) = Len(s)
  BY <1>1, <1>2, FunctionIsSeq
<1> QED BY <1>3 DEF Mapped, IsImage

LEMMA MappedPrefix ==
    ASSUME NEW A, NEW B, NEW f, Maps(f, A, B), NEW s \in Seq(A), NEW t \in Seq(A), IsPrefix(s, t)
    PROVE  IsPrefix(Mapped(f, s), Mapped(f, t))
<1>1. Len(s) \in Nat /\ Len(t) \in Nat /\ Len(s) <= Len(t) /\ \A i \in 1..Len(s) : s[i] = t[i]
  BY LenProperties DEF IsPrefix
<1>2. \A i \in 1..Len(s) : i \in 1..Len(t)
  BY SMT, <1>1
<1>3. IsImage(Mapped(f, s), f, s, B) /\ IsImage(Mapped(f, t), f, t, B)
  BY MappedType
<1> QED BY <1>1, <1>2, <1>3 DEF IsPrefix, IsImage

LEMMA MappedConcat ==
    ASSUME NEW A, NEW B, NEW f, Maps(f, A, B), NEW s \in Seq(A), NEW r \in Seq(A)
    PROVE  Same(Mapped(f, s \o r), Mapped(f, s) \o Mapped(f, r))
<1> DEFINE w == s \o r
           x == Mapped(f, s)
           y == Mapped(f, r)
           z == Mapped(f, w)
<1>1. /\ Len(s) \in Nat /\ Len(r) \in Nat /\ w \in Seq(A) /\ Len(w) = Len(s) + Len(r)
      /\ \A i \in 1..Len(s) + Len(r) : w[i] = IF i <= Len(s) THEN s[i] ELSE r[i - Len(s)]
  BY LenProperties, ConcatProperties
<1> HIDE DEF w
<1>2. IsImage(x, f, s, B) /\ IsImage(y, f, r, B) /\ IsImage(z, f, w, B)
  BY <1>1, MappedType
<1>3. /\ x \in Seq(B) /\ Len(x) = Len(s) /\ \A i \in 1..Len(s) : x[i] = f[s[i]]
      /\ y \in Seq(B) /\ Len(y) = Len(r) /\ \A i \in 1..Len(r) : y[i] = f[r[i]]
      /\ z \in Seq(B) /\ Len(z) = Len(w) /\ \A i \in 1..Len(w) : z[i] = f[w[i]]
  BY <1>2 DEF IsImage
<1> HIDE DEF x, y, z
<1>5. /\ x \o y \in Seq(B) /\ Len(x \o y) = Len(x) + Len(y)
      /\ \A i \in 1..Len(x) + Len(y) : (x \o y)[i] = IF i <= Len(x) THEN x[i] ELSE y[i - Len(x)]
  <2>1. x \in Seq(B) /\ y \in Seq(B)
    BY <1>3
  <2> QED BY <2>1, ConcatProperties
<1>6. ASSUME NEW i \in 1..Len(z) PROVE z[i] = (x \o y)[i]
  <2>1. i \in 1..Len(s) + Len(r) /\ i \in 1..Len(w)
    BY <1>1, <1>3
  <2>2. CASE i <= Len(s)
    <3>1. i \in 1..Len(s)
      BY SMT, <1>1, <2>1, <2>2
    <3>2. z[i] = f[w[i]] /\ (x \o y)[i] = x[i] /\ w[i] = s[i]
      BY <1>1, <1>3, <1>5, <2>1, <2>2
    <3> QED BY <1>1, <1>3, <2>1, <2>2, <3>1, <3>2
  <2>3. CASE ~(i <= Len(s))
    <3>1. i - Len(s) \in 1..Len(r)
      BY SMT, <1>1, <2>1, <2>3
    <3>2. z[i] = f[w[i]] /\ (x \o y)[i] = y[i - Len(s)] /\ w[i] = r[i - Len(s)]
      BY <1>1, <1>3, <1>5, <2>1, <2>3
    <3> QED BY <1>1, <1>3, <2>1, <2>3, <3>1, <3>2
  <2> QED BY <2>2, <2>3
<1>7. Len(z) = Len(x \o y)
  BY <1>1, <1>3, <1>5
<1>8. z = x \o y
  BY <1>3, <1>5, <1>6, <1>7, SeqEqual
<1> QED BY <1>8 DEF x, y, z, w, Same

LEMMA MappedAppend ==
    ASSUME NEW A, NEW B, NEW f, Maps(f, A, B), NEW s \in Seq(A), NEW x \in A
    PROVE  Same(Mapped(f, Append(s, x)), Append(Mapped(f, s), f[x]))
<1>0. ASSUME NEW r \in Seq(A) PROVE Same(Mapped(f, s \o r), Mapped(f, s) \o Mapped(f, r))
  BY MappedConcat
<1> PICK o \in Seq(A) : o = <<x>>
  <2>1. <<x>> \in Seq(A)
    BY SMT
  <2> QED BY <2>1
<1>1. Mapped(f, o) = <<f[x]>>
  <2>1. Len(o) = 1 /\ o[1] = x
    BY SMT
  <2>0. IsImage(Mapped(f, o), f, o, B)
    BY MappedType
  <2>2. /\ Mapped(f, o) \in Seq(B) /\ Len(Mapped(f, o)) = 1
        /\ \A i \in 1..1 : Mapped(f, o)[i] = f[o[i]]
    BY <2>0, <2>1 DEF IsImage
  <2>3. f[x] \in B
    BY DEF Maps
  <2>4. Mapped(f, o)[1] = f[x] /\ <<f[x]>> \in Seq(B) /\ Len(<<f[x]>>) = 1 /\ <<f[x]>>[1] = f[x]
    BY SMT, <2>1, <2>2, <2>3
  <2> HIDE DEF Mapped
  <2>5. \A i \in 1..1 : Mapped(f, o)[i] = <<f[x]>>[i]
    BY SMT, <2>4
  <2> QED BY <2>2, <2>4, <2>5, SeqEqual
<1>2. Append(s, x) = s \o o
  BY AppendIsConcat
<1>3. Mapped(f, s \o o) = Mapped(f, s) \o Mapped(f, o)
  BY <1>0 DEF Same
<1>4. Mapped(f, s) \in Seq(B) /\ f[x] \in B
  <2>1. IsImage(Mapped(f, s), f, s, B)
    BY MappedType
  <2> QED BY <2>1 DEF Maps, IsImage
<1>5. Append(Mapped(f, s), f[x]) = Mapped(f, s) \o <<f[x]>>
  BY <1>4, AppendIsConcat
<1> QED BY <1>1, <1>2, <1>3, <1>5 DEF Same

(* What is kept of a sequence are elements of it, and of the set. *)
LEMMA KeepType ==
    ASSUME NEW A, NEW s \in Seq(A), NEW C
    PROVE  Keep(s, C) \in Seq(A) /\ \A i \in 1..Len(Keep(s, C)) : Keep(s, C)[i] \in C
<1> DEFINE S == {i \in 1..Len(s) : s[i] \in C}
<1>1. S \in SUBSET (1..Len(s)) /\ \A i \in S : s[i] \in C
  OBVIOUS
<1> HIDE DEF S
<1>2. /\ Select(s, S) \in Seq(A) /\ Len(Select(s, S)) = Cardinality(S)
      /\ \A k \in 1..Cardinality(S) : Select(s, S)[k] = s[Nth(S, k)] /\ Nth(S, k) \in S
  BY <1>1, SelectType
<1>3. \A i \in 1..Len(Select(s, S)) : Select(s, S)[i] \in C
  BY <1>1, <1>2
<1> QED BY <1>2, <1>3 DEF Keep, S

LEMMA KeepConcat ==
    ASSUME NEW A, NEW s \in Seq(A), NEW r \in Seq(A), NEW C
    PROVE  Same(Keep(s \o r, C), Keep(s, C) \o Keep(r, C))
<1> DEFINE w == s \o r
           S == {i \in 1..Len(s) : s[i] \in C}
           T == {i \in 1..Len(r) : r[i] \in C}
           U == {i \in 1..Len(w) : w[i] \in C}
<1>1. /\ Len(s) \in Nat /\ Len(r) \in Nat /\ Len(w) = Len(s) + Len(r)
      /\ \A i \in 1..Len(s) + Len(r) : w[i] = IF i <= Len(s) THEN s[i] ELSE r[i - Len(s)]
  BY LenProperties, ConcatProperties
<1> HIDE DEF w
<1>2. /\ \A i \in 1..Len(s) : i \in 1..Len(w) /\ w[i] = s[i]
      /\ \A j \in 1..Len(r) : Len(s) + j \in 1..Len(w) /\ w[Len(s) + j] = r[j]
  BY SMT, <1>1
<1>3. S \in SUBSET (1..Len(s)) /\ T \in SUBSET (1..Len(r))
  OBVIOUS
<1>4. U \in SUBSET (1..Len(s) + Len(r))
  BY <1>1
<1>5. \A i \in 1..Len(s) : i \in U <=> i \in S
  BY <1>2
<1>6. \A j \in 1..Len(r) : Len(s) + j \in U <=> j \in T
  BY <1>2
<1> HIDE DEF S, T, U
<1>7. Shared(Len(s), Len(r), S, T, U)
  BY <1>3, <1>4, <1>5, <1>6 DEF Shared
<1>8. Select(s \o r, U) = Select(s, S) \o Select(r, T)
  BY <1>7, SelectConcat, SMTT(20)
<1> QED BY <1>8 DEF Keep, S, T, U, w, Same

LEMMA KeepOne ==
    ASSUME NEW A, NEW x \in A, NEW o \in Seq(A), o = <<x>>, NEW C
    PROVE  (x \in C => Same(Keep(o, C), o)) /\ (x \notin C => Same(Keep(o, C), <<>>))
<1> DEFINE S == {i \in 1..Len(o) : o[i] \in C}
           p == Select(o, S)
<1>1. Len(o) = 1 /\ o[1] = x /\ 1 \in 1..Len(o) /\ \A i \in 1..Len(o) : i = 1
  BY SMT
<1>2. S \in SUBSET (1..Len(o)) /\ (x \in C => S = {1}) /\ (x \notin C => S = {})
  BY <1>1
<1> HIDE DEF S
<1>3. /\ p \in Seq(A) /\ Len(p) = Cardinality(S)
      /\ \A k \in 1..Cardinality(S) : p[k] = o[Nth(S, k)] /\ Nth(S, k) \in S
  BY <1>2, SelectType
<1> HIDE DEF p
<1>4. ASSUME x \in C PROVE p = o
  <2>1. S = {1} /\ Cardinality(S) = 1
    BY <1>2, <1>4, FS_Singleton
  <2>2. 1 \in 1..Cardinality(S)
    BY SMT, <2>1
  <2>3. p[1] = o[1] /\ Len(p) = Len(o)
    BY <1>1, <1>3, <2>1, <2>2
  <2>4. \A i \in 1..Len(p) : p[i] = o[i]
    BY <1>1, <2>3
  <2> QED BY <1>3, <2>3, <2>4, SeqEqual
<1>5. ASSUME x \notin C PROVE p = <<>>
  <2>1. Len(p) = 0
    BY <1>2, <1>3, <1>5, FS_EmptySet
  <2> QED BY <1>3, <2>1, EmptySeq, SMTT(20)
<1> QED BY <1>4, <1>5 DEF Keep, p, S, Same

LEMMA KeepAppend ==
    ASSUME NEW A, NEW s \in Seq(A), NEW x \in A, NEW C
    PROVE  /\ x \in C => Same(Keep(Append(s, x), C), Append(Keep(s, C), x))
           /\ x \notin C => Same(Keep(Append(s, x), C), Keep(s, C))
<1>0. <<x>> \in Seq(A)
  BY SMT
<1> PICK o \in Seq(A) : o = <<x>>
  BY <1>0
<1>1. Append(s, x) = s \o o
  BY AppendIsConcat
<1>2. Same(Keep(s \o o, C), Keep(s, C) \o Keep(o, C))
  BY KeepConcat
<1>3. Keep(s, C) \in Seq(A)
  BY KeepType
<1>4. ASSUME x \in C PROVE Keep(Append(s, x), C) = Append(Keep(s, C), x)
  <2>1. Same(Keep(o, C), o)
    BY <1>4, KeepOne
  <2>2. Append(Keep(s, C), x) = Keep(s, C) \o o
    BY <1>3, AppendIsConcat
  <2> QED BY <1>1, <1>2, <2>1, <2>2 DEF Same
<1>5. ASSUME x \notin C PROVE Keep(Append(s, x), C) = Keep(s, C)
  <2>1. Same(Keep(o, C), <<>>)
    BY <1>5, KeepOne
  <2>2. Keep(o, C) \in Seq(A) /\ Keep(o, C) = <<>>
    BY <2>1, KeepType DEF Same
  <2>3. Keep(s, C) \o Keep(o, C) = Keep(s, C)
    BY <1>3, <2>2, ConcatEqualIffEmpty, SMTT(20)
  <2> QED BY <1>1, <1>2, <2>3 DEF Same
<1> QED BY <1>4, <1>5 DEF Same

LEMMA KeepNone == ASSUME NEW C PROVE Keep(<<>>, C) = <<>>
<1> PICK e \in Seq({}) : e = <<>>
  BY EmptySeq
<1>1. Keep(e, C) \in Seq({})
  BY KeepType
<1>2. Keep(e, C) = <<>>
  BY <1>1, SMTT(20)
<1> QED BY <1>2

LEMMA KeepPrefix ==
    ASSUME NEW A, NEW s \in Seq(A), NEW t \in Seq(A), IsPrefix(s, t), NEW C
    PROVE  IsPrefix(Keep(s, C), Keep(t, C))
<1> PICK z \in Seq(A) : t = s \o z
  BY PrefixSplit
<1>1. Same(Keep(s \o z, C), Keep(s, C) \o Keep(z, C))
  BY KeepConcat
<1>2. Keep(s, C) \in Seq(A) /\ Keep(z, C) \in Seq(A)
  BY KeepType
<1>3. IsPrefix(Keep(s, C), Keep(s, C) \o Keep(z, C))
  BY <1>2, PrefixConcat
<1> QED BY <1>1, <1>3 DEF Same

----------------------------------------------------------------------------
(* Decoding a chunk after the bytes before it. *)

Chars == Bytes \cup {"u"}
Shown == [b \in Bytes |-> IF b = "cont" THEN "u" ELSE b]
Whole == Bytes \ {"lead"}

LEMMA ShownMaps == Maps(Shown, Bytes, Chars)
<1>1. \A b \in Bytes : (IF b = "cont" THEN "u" ELSE b) \in Chars
  BY DEF Chars
<1> QED BY <1>1 DEF Maps, Shown

(* Text keeps the bytes that end a character and shows them. *)
LEMMA TextIs ==
    ASSUME NEW bytes \in Seq(Bytes)
    PROVE  /\ Same(Text(bytes), Mapped(Shown, Keep(bytes, Whole)))
           /\ Text(bytes) \in Seq(Chars)
           /\ Keep(bytes, Whole) \in Seq(Bytes)
<1> DEFINE k == Keep(bytes, Whole)
<1>1. Maps(Shown, Bytes, Chars)
  BY SMT, ShownMaps
<1>2. \A i \in 1..Len(bytes) : bytes[i] \in Bytes
  BY ElementOfSeq
<1>3. {i \in 1..Len(bytes) : bytes[i] # "lead"} = {i \in 1..Len(bytes) : bytes[i] \in Whole}
  BY <1>2 DEF Whole
<1>4. Select(bytes, {i \in 1..Len(bytes) : bytes[i] # "lead"}) = k
  BY <1>3 DEF Keep
<1>5. k \in Seq(Bytes)
  BY KeepType
<1> HIDE DEF k
<1>6. \A i \in 1..Len(k) : k[i] \in Bytes
  BY <1>5, ElementOfSeq
<1>7. [i \in 1..Len(k) |-> IF k[i] = "cont" THEN "u" ELSE k[i]] = Mapped(Shown, k)
  BY <1>6 DEF Mapped, Shown
<1>8. Text(bytes) = Mapped(Shown, k)
  BY <1>4, <1>7 DEF Text
<1>9. IsImage(Mapped(Shown, k), Shown, k, Chars)
  BY <1>1, <1>5, MappedType
<1> QED BY <1>5, <1>8, <1>9 DEF k, Same, IsImage

(* Chunks that are decoded one after another make the text of both. *)
LEMMA TextConcat ==
    ASSUME NEW a \in Seq(Bytes), NEW b \in Seq(Bytes)
    PROVE  Same(Text(a \o b), Text(a) \o Text(b))
<1> DEFINE x == Keep(a, Whole)
           y == Keep(b, Whole)
<1>1. a \o b \in Seq(Bytes)
  BY ConcatProperties
<1>2. /\ Same(Text(a), Mapped(Shown, x)) /\ x \in Seq(Bytes)
      /\ Same(Text(b), Mapped(Shown, y)) /\ y \in Seq(Bytes)
  BY TextIs
<1>3. Same(Text(a \o b), Mapped(Shown, Keep(a \o b, Whole)))
  BY <1>1, TextIs
<1>4. Same(Keep(a \o b, Whole), x \o y)
  BY KeepConcat
<1> HIDE DEF x, y
<1>5. Same(Mapped(Shown, x \o y), Mapped(Shown, x) \o Mapped(Shown, y))
  BY <1>2, ShownMaps, MappedConcat
<1> QED BY <1>2, <1>3, <1>4, <1>5 DEF Same

LEMMA TextEmpty ==
    ASSUME NEW bytes \in Seq(Bytes), Keep(bytes, Whole) = <<>>
    PROVE  Text(bytes) = <<>>
<1> DEFINE k == Keep(bytes, Whole)
           m == Mapped(Shown, k)
<1>1. Same(Text(bytes), m) /\ k \in Seq(Bytes) /\ k = <<>>
  BY TextIs
<1> HIDE DEF k
<1>2. IsImage(m, Shown, k, Chars)
  BY <1>1, ShownMaps, MappedType
<1> HIDE DEF m
<1>3. m \in Seq(Chars) /\ Len(m) = Len(k) /\ Len(k) = 0
  BY <1>1, <1>2, EmptySeq DEF IsImage
<1>4. m = <<>>
  BY <1>3, EmptySeq, SMTT(20)
<1> QED BY <1>1, <1>4 DEF Same

LEMMA TextOfNone == Text(<<>>) = <<>>
<1>1. <<>> \in Seq(Bytes) /\ Keep(<<>>, Whole) = <<>>
  BY EmptySeq, KeepNone
<1> QED BY <1>1, TextEmpty

LEMMA TextOfLead == Text(<<"lead">>) = <<>>
<1>1. "lead" \in Bytes /\ "lead" \notin Whole
  BY DEF Bytes, Whole
<1>2. <<"lead">> \in Seq(Bytes)
  BY SMT, <1>1
<1> PICK o \in Seq(Bytes) : o = <<"lead">>
  BY <1>2
<1>3. Same(Keep(o, Whole), <<>>)
  BY <1>1, KeepOne
<1>4. Text(o) = <<>>
  BY <1>3, TextEmpty DEF Same
<1> QED BY <1>4

(* The half of a character that the decoder holds adds nothing yet. *)
LEMMA UndecodedText ==
    ASSUME NEW chunk \in Seq(Bytes)
    PROVE  Undecoded(chunk) \in Seq(Bytes) /\ Same(Text(Undecoded(chunk)), Text(chunk))
<1>1. <<"lead">> \in Seq(Bytes)
  BY SMT DEF Bytes
<1> PICK o \in Seq(Bytes) : o = <<"lead">>
  BY <1>1
<1>2. o \o chunk \in Seq(Bytes) /\ Same(Text(o \o chunk), Text(o) \o Text(chunk))
  BY ConcatProperties, TextConcat
<1>3. Text(o) = <<>> /\ Text(o) \in Seq(Chars) /\ Text(chunk) \in Seq(Chars)
  BY TextOfLead, TextIs
<1>4. Text(o) \o Text(chunk) = Text(chunk)
  BY <1>3, ConcatEqualIffEmpty, SMTT(20)
<1>5. CASE split
  BY <1>2, <1>4, <1>5 DEF Undecoded, Same
<1>6. CASE ~split
  BY <1>6 DEF Undecoded, Same
<1> QED BY <1>5, <1>6

(* The bytes of a chunk are judged as they would be in the whole body. *)
LEMMA ValidChunk ==
    ASSUME NEW bytes \in Seq(Bytes), NEW chunk \in Seq(Bytes),
           Valid(bytes), split <=> EndsSplit(bytes)
    PROVE  /\ Valid(bytes \o chunk) <=> Valid(Undecoded(chunk))
           /\ EndsSplit(bytes \o chunk) <=> EndsSplit(Undecoded(chunk))
<1> DEFINE w == bytes \o chunk
           n == Len(bytes)
           m == Len(chunk)
           u == Undecoded(chunk)
<1>1. <<"lead">> \in Seq(Bytes)
  BY SMT DEF Bytes
<1> PICK o \in Seq(Bytes) : o = <<"lead">>
  BY <1>1
<1>2. /\ n \in Nat /\ m \in Nat /\ w \in Seq(Bytes) /\ Len(w) = n + m
      /\ \A i \in 1..n + m : w[i] = IF i <= n THEN bytes[i] ELSE chunk[i - n]
  BY LenProperties, ConcatProperties
<1>3. /\ o \o chunk \in Seq(Bytes) /\ Len(o \o chunk) = Len(o) + m
      /\ \A i \in 1..Len(o) + m : (o \o chunk)[i] = IF i <= Len(o) THEN o[i] ELSE chunk[i - Len(o)]
  BY LenProperties, ConcatProperties
<1>4. Len(o) = 1 /\ o[1] = "lead"
  BY SMT
<1>5. (bytes # <<>> <=> n # 0) /\ (w # <<>> <=> Len(w) # 0)
  BY <1>2, EmptySeq, SMTT(20)
<1> HIDE DEF w
<1>6. /\ EndsSplit(bytes) <=> n # 0 /\ bytes[n] = "lead"
      /\ EndsSplit(w) <=> n + m # 0 /\ w[n + m] = "lead"
  BY <1>2, <1>5 DEF EndsSplit, Last
<1>7. \A i \in 1..n : bytes[i] = "cont" <=> i > 1 /\ bytes[i - 1] = "lead"
  BY DEF Valid, n
<1>8. /\ \A i \in 1..n : w[i] = bytes[i]
      /\ \A j \in 1..m : w[n + j] = chunk[j]
  BY SMT, <1>2
<1> HIDE DEF n, m
<1>9. Valid(w) <=> \A j \in 1..m : chunk[j] = "cont" <=>
                      IF j > 1 THEN chunk[j - 1] = "lead" ELSE n # 0 /\ bytes[n] = "lead"
  <2> DEFINE Good(i) == w[i] = "cont" <=> i > 1 /\ w[i - 1] = "lead"
             Fit(j) == chunk[j] = "cont" <=>
                         IF j > 1 THEN chunk[j - 1] = "lead" ELSE n # 0 /\ bytes[n] = "lead"
  <2>1. \A i \in 1..n : Good(i)
    BY SMT, <1>2, <1>7, <1>8
  <2>2. ASSUME NEW j \in 1..m PROVE Good(n + j) <=> Fit(j)
    <3>1. CASE j > 1
      <4>1. j - 1 \in 1..m /\ (n + j) - 1 = n + (j - 1) /\ n + j > 1
        BY SMT, <1>2, <3>1
      <4>2. w[n + j] = chunk[j] /\ w[(n + j) - 1] = chunk[j - 1]
        BY SMT, <1>8, <4>1
      <4>3. Good(n + j) <=> (chunk[j] = "cont" <=> chunk[j - 1] = "lead")
        BY <4>1, <4>2
      <4>4. Fit(j) <=> (chunk[j] = "cont" <=> chunk[j - 1] = "lead")
        BY <3>1
      <4> QED BY <4>3, <4>4
    <3>2. CASE ~(j > 1)
      <4>1. j = 1 /\ (n + j) - 1 = n /\ (n + j > 1 <=> n # 0) /\ (n # 0 => n \in 1..n)
        BY SMT, <1>2, <3>2
      <4>2. w[n + j] = chunk[j] /\ (n # 0 => w[n] = bytes[n])
        BY <1>8, <4>1
      <4> QED BY <3>2, <4>1, <4>2, SMTT(20)
    <3> QED BY <3>1, <3>2
  <2>3. /\ \A i \in 1..Len(w) : i \in 1..n \/ \E j \in 1..m : i = n + j
        /\ \A j \in 1..m : n + j \in 1..Len(w)
    <3>1. ASSUME NEW i \in 1..Len(w) PROVE i \in 1..n \/ (i - n \in 1..m /\ i = n + (i - n))
      BY SMT, <1>2
    <3>2. \A j \in 1..m : n + j \in 1..Len(w)
      BY SMT, <1>2
    <3> QED BY <3>1, <3>2
  <2>4. Valid(w) <=> \A i \in 1..Len(w) : Good(i)
    BY DEF Valid
  <2> HIDE DEF Good, Fit
  <2>5. Valid(w) <=> \A j \in 1..m : Fit(j)
    BY <2>1, <2>2, <2>3, <2>4
  <2> QED BY <2>5 DEF Fit
<1>10. CASE split
  <2>1. u = o \o chunk /\ Len(u) = 1 + m /\ n # 0 /\ bytes[n] = "lead"
    BY <1>3, <1>4, <1>6, <1>10 DEF Undecoded
  <2>2. u[1] = "lead" /\ \A j \in 1..m : u[j + 1] = chunk[j]
    BY SMT, <1>2, <1>3, <1>4, <2>1
  <2>3. u # <<>>
    BY <1>2, <2>1, EmptySeq, SMTT(20)
  <2> HIDE DEF u
  <2>4. Valid(u) <=> \A j \in 1..m : chunk[j] = "cont" <=>
                        IF j > 1 THEN chunk[j - 1] = "lead" ELSE TRUE
    <3>1. ASSUME Valid(u), NEW j \in 1..m
          PROVE  chunk[j] = "cont" <=> IF j > 1 THEN chunk[j - 1] = "lead" ELSE TRUE
      <4>1. j + 1 \in 1..Len(u)
        BY SMT, <1>2, <2>1
      <4>2. \A i \in 1..Len(u) : u[i] = "cont" <=> i > 1 /\ u[i - 1] = "lead"
        BY <3>1 DEF Valid
      <4>3. (u[j + 1] = "cont" <=> u[j] = "lead") /\ u[j + 1] = chunk[j]
        BY SMT, <1>2, <2>2, <4>1, <4>2
      <4>4. u[j] = IF j > 1 THEN chunk[j - 1] ELSE "lead"
        BY SMT, <1>2, <2>2
      <4> QED BY <4>3, <4>4
    <3>2. ASSUME NEW i \in 1..Len(u),
                 \A j \in 1..m : chunk[j] = "cont" <=>
                    IF j > 1 THEN chunk[j - 1] = "lead" ELSE TRUE
          PROVE  u[i] = "cont" <=> i > 1 /\ u[i - 1] = "lead"
      BY SMT, <1>2, <2>1, <2>2, <3>2
    <3> QED BY <3>1, <3>2 DEF Valid
  <2>5. Valid(w) <=> Valid(u)
    BY <1>9, <2>1, <2>4
  <2>6. EndsSplit(u) <=> u[1 + m] = "lead"
    BY <2>1, <2>3 DEF EndsSplit, Last
  <2>7. (n + m # 0 /\ w[n + m] = "lead") <=> u[1 + m] = "lead"
    <3>1. CASE m = 0
      <4>1. n + m # 0 /\ w[n + m] = bytes[n] /\ u[1 + m] = u[1]
        BY SMT, <1>2, <1>8, <2>1, <3>1
      <4> QED BY <2>1, <2>2, <4>1
    <3>2. CASE m # 0
      <4>1. n + m # 0 /\ w[n + m] = chunk[m] /\ u[m + 1] = chunk[m] /\ m + 1 = 1 + m
        BY SMT, <1>2, <1>8, <2>2, <3>2
      <4> QED BY <4>1
    <3> QED BY <3>1, <3>2
  <2> QED BY <1>6, <2>5, <2>6, <2>7 DEF w, u
<1>11. CASE ~split
  <2>1. u = chunk /\ ~(n # 0 /\ bytes[n] = "lead")
    BY <1>6, <1>11 DEF Undecoded
  <2>2. chunk # <<>> <=> m # 0
    BY <1>2, EmptySeq, SMTT(20) DEF m
  <2>3. EndsSplit(u) <=> m # 0 /\ chunk[m] = "lead"
    BY <2>1, <2>2 DEF EndsSplit, Last, m
  <2>4. (n + m # 0 /\ w[n + m] = "lead") <=> m # 0 /\ chunk[m] = "lead"
    BY SMT, <1>2, <1>8, <2>1
  <2>5. (\A j \in 1..m : chunk[j] = "cont" <=>
            IF j > 1 THEN chunk[j - 1] = "lead" ELSE n # 0 /\ bytes[n] = "lead")
        <=> \A j \in 1..m : chunk[j] = "cont" <=> j > 1 /\ chunk[j - 1] = "lead"
    BY <2>1
  <2>6. Valid(u) <=> \A j \in 1..m : chunk[j] = "cont" <=> j > 1 /\ chunk[j - 1] = "lead"
    BY <2>1 DEF Valid, m
  <2> QED BY <1>6, <1>9, <2>3, <2>4, <2>5, <2>6 DEF w, u
<1> QED BY <1>10, <1>11

----------------------------------------------------------------------------
(* The lines of a text that grows. *)

LineType == Seq(Chars)
Strip == [line \in LineType |-> StripCr(line)]
Frames(text) == Pieces(text, "lf")

LEMMA StripCrType == ASSUME NEW line \in LineType PROVE StripCr(line) \in LineType
<1>1. line # <<>> => Front(line) \in LineType
  BY FrontLast DEF LineType
<1> QED BY <1>1 DEF StripCr

LEMMA StripMaps == Maps(Strip, LineType, LineType)
<1>1. \A line \in LineType : StripCr(line) \in LineType
  BY StripCrType
<1> QED BY <1>1 DEF Maps, Strip

LEMMA StripImage ==
    ASSUME NEW raw \in Seq(LineType)
    PROVE  Same([k \in 1..Len(raw) |-> StripCr(raw[k])], Mapped(Strip, raw))
<1>1. \A k \in 1..Len(raw) : raw[k] \in LineType
  BY ElementOfSeq
<1> QED BY <1>1 DEF Mapped, Strip, Same

LEMMA FramesFacts ==
    ASSUME NEW text \in Seq(Chars)
    PROVE  /\ Frames(text) \in Seq(LineType)
           /\ Front(Frames(text)) \in Seq(LineType) /\ Last(Frames(text)) \in LineType
           /\ Frames(text) = Append(Front(Frames(text)), Last(Frames(text)))
<1>1. Pieces(text, "lf") \in Seq(Seq(Chars)) /\ Front(Pieces(text, "lf")) \in Seq(Seq(Chars))
  BY PiecesFacts
<1>2. Last(Pieces(text, "lf")) \in Seq(Chars)
  BY PiecesFacts
<1>3. Pieces(text, "lf") = Append(Front(Pieces(text, "lf")), Last(Pieces(text, "lf")))
  BY PiecesFacts
<1> QED BY <1>1, <1>2, <1>3 DEF Frames, LineType

(* The finished lines of a text are its finished frames, stripped. *)
LEMMA LinesOpen ==
    ASSUME NEW text \in Seq(Chars)
    PROVE  /\ Same(Lines(text, FALSE), Mapped(Strip, Front(Frames(text))))
           /\ Lines(text, FALSE) \in Seq(LineType)
<1> DEFINE raw == Front(Frames(text))
<1>1. raw \in Seq(LineType)
  BY FramesFacts
<1>2. Lines(text, FALSE) = [k \in 1..Len(raw) |-> StripCr(raw[k])]
  BY DEF Lines, Frames
<1> HIDE DEF raw
<1>3. Same([k \in 1..Len(raw) |-> StripCr(raw[k])], Mapped(Strip, raw))
  BY <1>1, StripImage
<1>4. IsImage(Mapped(Strip, raw), Strip, raw, LineType)
  BY <1>1, StripMaps, MappedType
<1> QED BY <1>2, <1>3, <1>4 DEF Same, IsImage, raw

(* At the end, what is pending is a last line unless it is empty. *)
LEMMA LinesEnded ==
    ASSUME NEW text \in Seq(Chars)
    PROVE  /\ Last(Frames(text)) = <<>> => Same(Lines(text, TRUE), Lines(text, FALSE))
           /\ Last(Frames(text)) # <<>> =>
                 Same(Lines(text, TRUE), Append(Lines(text, FALSE), StripCr(Last(Frames(text)))))
<1> DEFINE raw == Front(Frames(text))
           last == Last(Frames(text))
           all == Frames(text)
<1>1. raw \in Seq(LineType) /\ last \in LineType /\ all \in Seq(LineType) /\ all = Append(raw, last)
  BY FramesFacts
<1>2. Same(Lines(text, FALSE), Mapped(Strip, raw))
  BY LinesOpen
<1>3. ASSUME last = <<>> PROVE Same(Lines(text, TRUE), Lines(text, FALSE))
  BY <1>3 DEF Lines, Frames, Same
<1>4. ASSUME last # <<>> PROVE Same(Lines(text, TRUE), Append(Lines(text, FALSE), StripCr(last)))
  <2>1. Lines(text, TRUE) = [k \in 1..Len(all) |-> StripCr(all[k])]
    BY <1>4 DEF Lines, Frames
  <2> HIDE DEF raw, last, all
  <2>2. Same([k \in 1..Len(all) |-> StripCr(all[k])], Mapped(Strip, all))
    BY <1>1, StripImage
  <2>3. Same(Mapped(Strip, Append(raw, last)), Append(Mapped(Strip, raw), Strip[last]))
    BY <1>1, StripMaps, MappedAppend
  <2>4. Strip[last] = StripCr(last)
    BY <1>1 DEF Strip
  <2> QED BY <1>1, <1>2, <2>1, <2>2, <2>3, <2>4 DEF Same
<1> QED BY <1>3, <1>4

(* Text without a newline adds no line and only extends the open one... *)
LEMMA LinesPlain ==
    ASSUME NEW text \in Seq(Chars), NEW more \in Seq(Chars),
           \A i \in 1..Len(more) : more[i] # "lf"
    PROVE  /\ Same(Lines(text \o more, FALSE), Lines(text, FALSE))
           /\ Same(Last(Frames(text \o more)), Last(Frames(text)) \o more)
<1>1. /\ Front(Frames(text \o more)) = Front(Frames(text))
      /\ Last(Frames(text \o more)) = Last(Frames(text)) \o more
  BY OpenPlain DEF Frames
<1>2. text \o more \in Seq(Chars)
  BY ConcatProperties
<1>3. Same(Lines(text, FALSE), Mapped(Strip, Front(Frames(text))))
  BY LinesOpen
<1>4. Same(Lines(text \o more, FALSE), Mapped(Strip, Front(Frames(text \o more))))
  BY <1>2, LinesOpen
<1> QED BY <1>1, <1>3, <1>4 DEF Same

(* ... which a newline makes a line. *)
LEMMA LinesCut ==
    ASSUME NEW text \in Seq(Chars)
    PROVE  /\ Same(Lines(text \o <<"lf">>, FALSE),
                   Append(Lines(text, FALSE), StripCr(Last(Frames(text)))))
           /\ Same(Last(Frames(text \o <<"lf">>)), <<>>)
<1> DEFINE raw == Front(Frames(text))
           last == Last(Frames(text))
           cut == text \o <<"lf">>
<1>0. "lf" \in Chars
  BY DEF Chars, Bytes
<1>1. Front(Frames(cut)) = Append(raw, last) /\ Last(Frames(cut)) = <<>>
  BY <1>0, OpenCut DEF Frames
<1>2. cut \in Seq(Chars)
  <2>1. <<"lf">> \in Seq(Chars)
    BY SMT, <1>0
  <2> QED BY <2>1, ConcatProperties
<1>3. raw \in Seq(LineType) /\ last \in LineType
  BY FramesFacts
<1>4. Same(Lines(text, FALSE), Mapped(Strip, raw))
  BY LinesOpen
<1> HIDE DEF raw, last, cut
<1>5. Same(Lines(cut, FALSE), Mapped(Strip, Front(Frames(cut))))
  BY <1>2, LinesOpen
<1>6. Same(Mapped(Strip, Append(raw, last)), Append(Mapped(Strip, raw), Strip[last]))
  BY <1>3, StripMaps, MappedAppend
<1>7. Strip[last] = StripCr(last)
  BY <1>3 DEF Strip
<1> QED BY <1>1, <1>4, <1>5, <1>6, <1>7 DEF Same, raw, last, cut

(* Lines once read stay, whatever follows. *)
LEMMA LinesPrefix ==
    ASSUME NEW text \in Seq(Chars), NEW more \in Seq(Chars), NEW ended \in BOOLEAN
    PROVE  IsPrefix(Lines(text, FALSE), Lines(text \o more, ended))
<1> DEFINE raw == Front(Frames(text))
           w == text \o more
           all == IF ended /\ Last(Frames(w)) # <<>> THEN Frames(w) ELSE Front(Frames(w))
<1>1. IsPrefix(raw, Front(Frames(w))) /\ IsPrefix(raw, Frames(w))
  BY PiecesGrow DEF Frames
<1>2. w \in Seq(Chars)
  BY ConcatProperties
<1>3. raw \in Seq(LineType)
  BY FramesFacts
<1>4. Same(Lines(text, FALSE), Mapped(Strip, raw))
  BY LinesOpen
<1> HIDE DEF w, raw
<1>5. Frames(w) \in Seq(LineType) /\ Front(Frames(w)) \in Seq(LineType)
  BY <1>2, FramesFacts
<1>6. all \in Seq(LineType) /\ IsPrefix(raw, all)
  BY <1>1, <1>5
<1>7. Lines(w, ended) = [k \in 1..Len(all) |-> StripCr(all[k])]
  BY DEF Lines, Frames
<1> HIDE DEF all
<1>8. Same([k \in 1..Len(all) |-> StripCr(all[k])], Mapped(Strip, all))
  BY <1>6, StripImage
<1>9. IsPrefix(Mapped(Strip, raw), Mapped(Strip, all))
  BY <1>3, <1>6, StripMaps, MappedPrefix
<1>10. IsPrefix(Lines(text, FALSE), Lines(w, ended))
  BY <1>4, <1>7, <1>8, <1>9 DEF Same
<1> QED BY <1>10 DEF w

LEMMA LinesType ==
    ASSUME NEW text \in Seq(Chars), NEW ended \in BOOLEAN
    PROVE  Lines(text, ended) \in Seq(LineType)
<1> DEFINE all == IF ended /\ Last(Frames(text)) # <<>> THEN Frames(text) ELSE Front(Frames(text))
<1>1. all \in Seq(LineType)
  BY FramesFacts
<1>2. Lines(text, ended) = [k \in 1..Len(all) |-> StripCr(all[k])]
  BY DEF Lines, Frames
<1> HIDE DEF all
<1>3. Same([k \in 1..Len(all) |-> StripCr(all[k])], Mapped(Strip, all))
  BY <1>1, StripImage
<1>4. IsImage(Mapped(Strip, all), Strip, all, LineType)
  BY <1>1, StripMaps, MappedType
<1> QED BY <1>2, <1>3, <1>4 DEF Same, IsImage

----------------------------------------------------------------------------
(* The data of a block of lines. *)

DataLines == {line \in LineType : IsData(line)}
ValueOf == [line \in LineType |-> Value(line)]

LEMMA ValueMaps == Maps(ValueOf, LineType, LineType)
<1>1. ASSUME NEW line \in LineType PROVE Value(line) \in LineType
  <2> DEFINE v == SubSeq(line, 2, Len(line))
  <2>1. Len(line) \in Nat
    BY LenProperties DEF LineType
  <2>2. Len(line) \in Int /\ 2 \in Int /\ \A i \in 2..Len(line) : i \in 1..Len(line)
    BY SMT, <2>1
  <2>3. \A i \in 2..Len(line) : line[i] \in Chars
    BY <2>2, ElementOfSeq DEF LineType
  <2>4. v \in Seq(Chars)
    BY <2>2, <2>3, SubSeqProperties, SMTT(20)
  <2> HIDE DEF v
  <2>5. v # <<>> => Tail(v) \in Seq(Chars)
    BY <2>4, HeadTailProperties
  <2> QED BY <2>4, <2>5 DEF Value, StripSpace, LineType, v
<1> QED BY <1>1 DEF Maps, ValueOf

(* The values of a block are those of its data fields, in order. *)
LEMMA ValuesIs ==
    ASSUME NEW block \in Seq(LineType)
    PROVE  /\ Same(Values(block), Mapped(ValueOf, Keep(block, DataLines)))
           /\ Values(block) \in Seq(LineType)
           /\ Keep(block, DataLines) \in Seq(LineType)
<1> DEFINE k == Keep(block, DataLines)
<1>1. \A i \in 1..Len(block) : block[i] \in LineType
  BY ElementOfSeq
<1>2. {i \in 1..Len(block) : IsData(block[i])} = {i \in 1..Len(block) : block[i] \in DataLines}
  BY <1>1 DEF DataLines
<1>3. Select(block, {i \in 1..Len(block) : IsData(block[i])}) = k
  BY <1>2 DEF Keep
<1>4. k \in Seq(LineType)
  BY KeepType
<1> HIDE DEF k
<1>5. \A i \in 1..Len(k) : k[i] \in LineType
  BY <1>4, ElementOfSeq
<1>6. [i \in 1..Len(k) |-> Value(k[i])] = Mapped(ValueOf, k)
  BY <1>5 DEF Mapped, ValueOf
<1>7. Values(block) = Mapped(ValueOf, k)
  BY <1>3, <1>6 DEF Values
<1>8. IsImage(Mapped(ValueOf, k), ValueOf, k, LineType)
  BY <1>4, ValueMaps, MappedType
<1> QED BY <1>4, <1>7, <1>8 DEF k, Same, IsImage

LEMMA ValuesConcat ==
    ASSUME NEW a \in Seq(LineType), NEW b \in Seq(LineType)
    PROVE  Same(Values(a \o b), Values(a) \o Values(b))
<1> DEFINE x == Keep(a, DataLines)
           y == Keep(b, DataLines)
<1>1. a \o b \in Seq(LineType)
  BY ConcatProperties
<1>2. /\ Same(Values(a), Mapped(ValueOf, x)) /\ x \in Seq(LineType)
      /\ Same(Values(b), Mapped(ValueOf, y)) /\ y \in Seq(LineType)
  BY ValuesIs
<1>3. Same(Values(a \o b), Mapped(ValueOf, Keep(a \o b, DataLines)))
  BY <1>1, ValuesIs
<1>4. Same(Keep(a \o b, DataLines), x \o y)
  BY KeepConcat
<1> HIDE DEF x, y
<1>5. Same(Mapped(ValueOf, x \o y), Mapped(ValueOf, x) \o Mapped(ValueOf, y))
  BY <1>2, ValueMaps, MappedConcat
<1> QED BY <1>2, <1>3, <1>4, <1>5 DEF Same

LEMMA ValuesAppend ==
    ASSUME NEW block \in Seq(LineType), NEW line \in LineType
    PROVE  /\ IsData(line) => Same(Values(Append(block, line)), Append(Values(block), Value(line)))
           /\ ~IsData(line) => Same(Values(Append(block, line)), Values(block))
<1> DEFINE k == Keep(block, DataLines)
           w == Append(block, line)
<1>1. w \in Seq(LineType)
  BY AppendProperties
<1>2. Same(Values(block), Mapped(ValueOf, k)) /\ k \in Seq(LineType)
  BY ValuesIs
<1>3. /\ line \in DataLines => Same(Keep(w, DataLines), Append(k, line))
      /\ line \notin DataLines => Same(Keep(w, DataLines), k)
  BY KeepAppend
<1> HIDE DEF k, w
<1>4. Same(Values(w), Mapped(ValueOf, Keep(w, DataLines)))
  BY <1>1, ValuesIs
<1>5. Same(Mapped(ValueOf, Append(k, line)), Append(Mapped(ValueOf, k), ValueOf[line]))
  BY <1>2, ValueMaps, MappedAppend
<1>6. ValueOf[line] = Value(line) /\ (line \in DataLines <=> IsData(line))
  BY DEF ValueOf, DataLines
<1> QED BY <1>2, <1>3, <1>4, <1>5, <1>6 DEF Same, w

LEMMA ValuesOfNone == Values(<<>>) = <<>>
<1> PICK e \in Seq(LineType) : e = <<>>
  BY EmptySeq
<1> DEFINE k == Keep(e, DataLines)
           m == Mapped(ValueOf, k)
<1>1. Same(Values(e), m) /\ k \in Seq(LineType) /\ k = <<>>
  BY ValuesIs, KeepNone
<1> HIDE DEF k
<1>2. IsImage(m, ValueOf, k, LineType)
  BY <1>1, ValueMaps, MappedType
<1> HIDE DEF m
<1>3. m \in Seq(LineType) /\ Len(m) = Len(k) /\ Len(k) = 0
  BY <1>1, <1>2, EmptySeq DEF IsImage
<1>4. m = <<>>
  BY <1>3, EmptySeq, SMTT(20)
<1> QED BY <1>1, <1>4 DEF Same

----------------------------------------------------------------------------
(* The blocks and the events of lines that grow. *)

BlockType == Seq(LineType)
ValuesOf == [block \in BlockType |-> Values(block)]
Groups(lines) == Pieces(lines, <<>>)
Full == BlockType \ {<<>>}

LEMMA ValuesMap == Maps(ValuesOf, BlockType, BlockType)
<1>1. \A block \in BlockType : Values(block) \in BlockType
  BY ValuesIs DEF BlockType
<1> QED BY <1>1 DEF Maps, ValuesOf

LEMMA GroupsFacts ==
    ASSUME NEW lines \in Seq(LineType)
    PROVE  /\ Groups(lines) \in Seq(BlockType)
           /\ Front(Groups(lines)) \in Seq(BlockType) /\ Last(Groups(lines)) \in BlockType
           /\ Groups(lines) = Append(Front(Groups(lines)), Last(Groups(lines)))
<1>1. /\ Pieces(lines, <<>>) \in Seq(Seq(LineType))
      /\ Front(Pieces(lines, <<>>)) \in Seq(Seq(LineType))
  BY PiecesFacts
<1>2. Last(Pieces(lines, <<>>)) \in Seq(LineType)
  BY PiecesFacts
<1>3. Pieces(lines, <<>>) = Append(Front(Pieces(lines, <<>>)), Last(Pieces(lines, <<>>)))
  BY PiecesFacts
<1> QED BY <1>1, <1>2, <1>3 DEF Groups, BlockType

(* The blocks are the data of the groups; the last is still open. *)
LEMMA BlocksFacts ==
    ASSUME NEW lines \in Seq(LineType)
    PROVE  /\ Same(Blocks(lines), Mapped(ValuesOf, Groups(lines)))
           /\ Blocks(lines) \in Seq(BlockType) /\ Len(Blocks(lines)) = Len(Groups(lines))
           /\ Same(Front(Blocks(lines)), Mapped(ValuesOf, Front(Groups(lines))))
           /\ Front(Blocks(lines)) \in Seq(BlockType)
           /\ Same(Last(Blocks(lines)), Values(Last(Groups(lines))))
           /\ Last(Blocks(lines)) \in BlockType
           /\ Same(Blocks(lines), Append(Front(Blocks(lines)), Last(Blocks(lines))))
<1> DEFINE g == Groups(lines)
           f == Front(g)
           l == Last(g)
           b == Blocks(lines)
<1>1. g \in Seq(BlockType) /\ f \in Seq(BlockType) /\ l \in BlockType /\ g = Append(f, l)
  BY GroupsFacts
<1>2. b = [k \in 1..Len(g) |-> Values(g[k])]
  BY DEF Blocks, Groups
<1> HIDE DEF g, f, l, b
<1>3. \A k \in 1..Len(g) : g[k] \in BlockType
  BY <1>1, ElementOfSeq
<1>4. b = Mapped(ValuesOf, g)
  BY <1>2, <1>3 DEF Mapped, ValuesOf
<1>5. IsImage(Mapped(ValuesOf, g), ValuesOf, g, BlockType)
  BY <1>1, ValuesMap, MappedType
<1>6. IsImage(Mapped(ValuesOf, f), ValuesOf, f, BlockType)
  BY <1>1, ValuesMap, MappedType
<1>7. Same(Mapped(ValuesOf, Append(f, l)), Append(Mapped(ValuesOf, f), ValuesOf[l]))
  BY <1>1, ValuesMap, MappedAppend
<1>8. ValuesOf[l] = Values(l) /\ Values(l) \in BlockType
  BY <1>1, ValuesIs DEF ValuesOf, BlockType
<1>9. b = Append(Mapped(ValuesOf, f), Values(l))
  BY <1>1, <1>4, <1>7, <1>8 DEF Same
<1>10. Mapped(ValuesOf, f) \in Seq(BlockType) /\ b \in Seq(BlockType) /\ Len(b) = Len(g)
  BY <1>4, <1>5, <1>6 DEF IsImage
<1>11. Front(b) = Mapped(ValuesOf, f) /\ Last(b) = Values(l)
  BY <1>8, <1>9, <1>10, FrontAppend
<1> QED BY <1>4, <1>8, <1>9, <1>10, <1>11 DEF Same, g, f, l, b

(* A blank line finishes the open block. *)
LEMMA BlankLine ==
    ASSUME NEW lines \in Seq(LineType)
    PROVE  /\ Same(Front(Blocks(Append(lines, <<>>))), Blocks(lines))
           /\ Same(Last(Blocks(Append(lines, <<>>))), <<>>)
<1> PICK e \in LineType : e = <<>>
  BY EmptySeq DEF LineType
<1> DEFINE w == Append(lines, e)
           g == Groups(lines)
<1>1. w \in Seq(LineType) /\ w = lines \o <<e>>
  BY AppendProperties, AppendIsConcat
<1>2. Front(Groups(w)) = Append(Front(g), Last(g)) /\ Last(Groups(w)) = <<>>
  <2>1. /\ Front(Pieces(lines \o <<e>>, e)) =
              Append(Front(Pieces(lines, e)), Last(Pieces(lines, e)))
        /\ Last(Pieces(lines \o <<e>>, e)) = <<>>
    BY OpenCut
  <2> QED BY <1>1, <2>1 DEF Groups
<1> HIDE DEF w
<1>3. Front(Groups(w)) = g
  BY <1>2, GroupsFacts
<1>4. /\ Same(Front(Blocks(w)), Mapped(ValuesOf, Front(Groups(w))))
      /\ Same(Last(Blocks(w)), Values(Last(Groups(w))))
  BY <1>1, BlocksFacts
<1>5. Same(Blocks(lines), Mapped(ValuesOf, g))
  BY BlocksFacts
<1> QED BY <1>2, <1>3, <1>4, <1>5, ValuesOfNone DEF Same, w

LEMMA FullLine ==
    ASSUME NEW lines \in Seq(LineType), NEW line \in LineType, line # <<>>
    PROVE  /\ Same(Front(Blocks(Append(lines, line))), Front(Blocks(lines)))
           /\ IsData(line) => Same(Last(Blocks(Append(lines, line))),
                                   Append(Last(Blocks(lines)), Value(line)))
           /\ ~IsData(line) => Same(Last(Blocks(Append(lines, line))), Last(Blocks(lines)))
<1> DEFINE w == Append(lines, line)
           g == Groups(lines)
           l == Last(g)
<1>0. <<line>> \in Seq(LineType)
  BY SMT
<1> PICK o \in Seq(LineType) : o = <<line>>
  BY <1>0
<1>1. w \in Seq(LineType) /\ w = lines \o o
  BY AppendProperties, AppendIsConcat
<1>2. \A i \in 1..Len(o) : o[i] # <<>>
  <2>1. \A i \in 1..Len(o) : o[i] = line
    BY SMT
  <2> QED BY <2>1
<1>3. /\ Front(Groups(w)) = Front(g)
      /\ Last(Groups(w)) = l \o o
  <2>1. /\ Front(Pieces(lines \o o, <<>>)) = Front(Pieces(lines, <<>>))
        /\ Last(Pieces(lines \o o, <<>>)) = Last(Pieces(lines, <<>>)) \o o
    BY <1>2, OpenPlain
  <2> QED BY <1>1, <2>1 DEF Groups
<1>4. l \in BlockType
  BY GroupsFacts
<1>5. /\ Same(Front(Blocks(lines)), Mapped(ValuesOf, Front(g)))
      /\ Same(Last(Blocks(lines)), Values(l))
  BY BlocksFacts
<1> HIDE DEF w, g, l
<1>6. /\ Same(Front(Blocks(w)), Mapped(ValuesOf, Front(Groups(w))))
      /\ Same(Last(Blocks(w)), Values(Last(Groups(w))))
  BY <1>1, BlocksFacts
<1>7. Last(Groups(w)) = Append(l, line)
  BY <1>3, <1>4, AppendIsConcat DEF BlockType
<1>8. /\ IsData(line) => Same(Values(Append(l, line)), Append(Values(l), Value(line)))
      /\ ~IsData(line) => Same(Values(Append(l, line)), Values(l))
  BY <1>4, ValuesAppend DEF BlockType
<1> QED BY <1>3, <1>5, <1>6, <1>7, <1>8 DEF Same, w

LEMMA EventsIs ==
    ASSUME NEW lines \in Seq(LineType)
    PROVE  /\ Same(Events(lines), Keep(Front(Blocks(lines)), Full))
           /\ Events(lines) \in Seq(BlockType)
<1> DEFINE f == Front(Blocks(lines))
<1>1. f \in Seq(BlockType)
  BY BlocksFacts
<1>2. Events(lines) = Select(f, {k \in 1..Len(f) : f[k] # <<>>})
  BY DEF Events
<1> HIDE DEF f
<1>3. \A k \in 1..Len(f) : f[k] \in BlockType
  BY <1>1, ElementOfSeq
<1>4. {k \in 1..Len(f) : f[k] # <<>>} = {k \in 1..Len(f) : f[k] \in Full}
  BY <1>3 DEF Full
<1>5. Events(lines) = Keep(f, Full)
  BY <1>2, <1>4 DEF Keep
<1>6. Keep(f, Full) \in Seq(BlockType)
  BY <1>1, KeepType
<1> QED BY <1>5, <1>6 DEF Same, f

(* A blank line behind some data makes an event, and none otherwise. *)
LEMMA EventsBlank ==
    ASSUME NEW lines \in Seq(LineType)
    PROVE  /\ Last(Blocks(lines)) = <<>> => Same(Events(Append(lines, <<>>)), Events(lines))
           /\ Last(Blocks(lines)) # <<>> =>
                 Same(Events(Append(lines, <<>>)), Append(Events(lines), Last(Blocks(lines))))
<1> PICK e \in LineType : e = <<>>
  BY EmptySeq DEF LineType
<1> DEFINE w == Append(lines, e)
           f == Front(Blocks(lines))
           l == Last(Blocks(lines))
<1>1. w \in Seq(LineType)
  BY AppendProperties
<1>2. Same(Front(Blocks(w)), Blocks(lines))
  BY BlankLine
<1>3. f \in Seq(BlockType) /\ l \in BlockType /\ Same(Blocks(lines), Append(f, l))
  BY BlocksFacts
<1>4. Same(Events(lines), Keep(f, Full))
  BY EventsIs
<1> HIDE DEF w, f, l
<1>5. Same(Events(w), Keep(Front(Blocks(w)), Full))
  BY <1>1, EventsIs
<1>6. /\ l \in Full => Same(Keep(Append(f, l), Full), Append(Keep(f, Full), l))
      /\ l \notin Full => Same(Keep(Append(f, l), Full), Keep(f, Full))
  BY <1>3, KeepAppend
<1>7. l \in Full <=> l # <<>>
  BY <1>3 DEF Full
<1> QED BY <1>2, <1>3, <1>4, <1>5, <1>6, <1>7 DEF Same, w, l

LEMMA EventsFull ==
    ASSUME NEW lines \in Seq(LineType), NEW line \in LineType, line # <<>>
    PROVE  Same(Events(Append(lines, line)), Events(lines))
<1>1. Append(lines, line) \in Seq(LineType)
  BY AppendProperties
<1>2. Same(Front(Blocks(Append(lines, line))), Front(Blocks(lines)))
  BY FullLine
<1>3. Same(Events(lines), Keep(Front(Blocks(lines)), Full))
  BY EventsIs
<1>4. Same(Events(Append(lines, line)), Keep(Front(Blocks(Append(lines, line))), Full))
  BY <1>1, EventsIs
<1> QED BY <1>2, <1>3, <1>4 DEF Same

(* Whatever follows, events stay, and the open block only grows. *)
LEMMA BlocksGrow ==
    ASSUME NEW lines \in Seq(LineType), NEW more \in Seq(LineType)
    PROVE  /\ IsPrefix(Events(lines), Events(lines \o more))
           /\ Continued(Last(Blocks(lines)), Blocks(lines \o more), LineType)
<1> DEFINE w == lines \o more
           g == Groups(lines)
           h == Groups(w)
<1>1. w \in Seq(LineType)
  BY ConcatProperties
<1>2. IsPrefix(Front(g), Front(h))
  BY PiecesGrow DEF Groups
<1>3. PICK k \in 1..Len(h), y \in BlockType : h[k] = Last(g) \o y
  <2>1. Continued(Last(Pieces(lines, <<>>)), Pieces(w, <<>>), LineType)
    BY PiecesGrow
  <2> QED BY <2>1 DEF Continued, Groups, BlockType
<1>4. Front(g) \in Seq(BlockType) /\ Last(g) \in BlockType
  BY GroupsFacts
<1>5. /\ Same(Front(Blocks(lines)), Mapped(ValuesOf, Front(g)))
      /\ Same(Last(Blocks(lines)), Values(Last(g)))
      /\ Front(Blocks(lines)) \in Seq(BlockType)
  BY BlocksFacts
<1>6. Same(Events(lines), Keep(Front(Blocks(lines)), Full))
  BY EventsIs
<1> HIDE DEF w, g
<1>7. h \in Seq(BlockType) /\ Front(h) \in Seq(BlockType)
  BY <1>1, GroupsFacts
<1>8. /\ Same(Front(Blocks(w)), Mapped(ValuesOf, Front(h)))
      /\ Same(Blocks(w), Mapped(ValuesOf, h)) /\ Len(Blocks(w)) = Len(h)
      /\ Front(Blocks(w)) \in Seq(BlockType)
  BY <1>1, BlocksFacts
<1>9. Same(Events(w), Keep(Front(Blocks(w)), Full))
  BY <1>1, EventsIs
<1> HIDE DEF h
<1>10. IsPrefix(Mapped(ValuesOf, Front(g)), Mapped(ValuesOf, Front(h)))
  BY <1>2, <1>4, <1>7, ValuesMap, MappedPrefix
<1>11. IsPrefix(Front(Blocks(lines)), Front(Blocks(w)))
  BY <1>5, <1>8, <1>10 DEF Same
<1>12. IsPrefix(Keep(Front(Blocks(lines)), Full), Keep(Front(Blocks(w)), Full))
  BY <1>5, <1>8, <1>11, KeepPrefix
<1>13. IsPrefix(Events(lines), Events(w))
  BY <1>6, <1>9, <1>12 DEF Same
<1>14. Blocks(w)[k] = Last(Blocks(lines)) \o Values(y) /\ Values(y) \in BlockType
  <2>1. Same(Values(Last(g) \o y), Values(Last(g)) \o Values(y))
    BY <1>4, ValuesConcat DEF BlockType
  <2>2. Values(y) \in BlockType /\ h[k] \in BlockType
    BY <1>7, ValuesIs, ElementOfSeq DEF BlockType
  <2>3. Mapped(ValuesOf, h)[k] = Values(h[k])
    BY <2>2 DEF Mapped, ValuesOf
  <2> QED BY <1>3, <1>5, <1>8, <2>1, <2>2, <2>3 DEF Same
<1>15. \E j \in 1..Len(Blocks(w)), z \in BlockType : Blocks(w)[j] = Last(Blocks(lines)) \o z
  BY <1>8, <1>14
<1> QED BY <1>13, <1>15 DEF w, Continued, BlockType

----------------------------------------------------------------------------
(* The size of a block. *)

Row(values, k) == {k} \X (0..Len(values[k]))
Cells(values) == UNION {Row(values, k) : k \in 1..Len(values)}

LEMMA RowFacts ==
    ASSUME NEW values \in BlockType, NEW k \in 1..Len(values)
    PROVE  /\ IsFiniteSet(Row(values, k)) /\ Len(values[k]) \in Nat
           /\ Cardinality(Row(values, k)) = Len(values[k]) + 1
<1>1. values[k] \in LineType
  BY ElementOfSeq DEF BlockType
<1>2. Len(values[k]) \in Nat
  BY <1>1, LenProperties DEF LineType
<1> DEFINE n == Len(values[k])
<1> HIDE DEF n
<1>3. n \in Nat /\ n \in Int /\ 0 \in Int
  BY SMT, <1>2 DEF n
<1>4. IsFiniteSet(0..n) /\ Cardinality(0..n) = IF 0 > n THEN 0 ELSE n - 0 + 1
  BY <1>3, FS_Interval
<1>5. IsFiniteSet({k}) /\ Cardinality({k}) = 1
  BY FS_Singleton
<1>6. /\ IsFiniteSet({k} \X (0..n))
      /\ Cardinality({k} \X (0..n)) = Cardinality({k}) * Cardinality(0..n)
  BY <1>4, <1>5, FS_Product
<1> DEFINE c == Cardinality({k} \X (0..n))
           d == Cardinality(0..n)
<1>7. c = 1 * d /\ d = IF 0 > n THEN 0 ELSE n - 0 + 1
  BY <1>4, <1>5, <1>6
<1> HIDE DEF c, d
<1>8. c = n + 1
  BY SMT, <1>3, <1>7
<1> QED BY <1>3, <1>6, <1>8 DEF c, n, Row

LEMMA CellsFinite ==
    ASSUME NEW values \in BlockType
    PROVE  IsFiniteSet(Cells(values)) /\ BlockSize(values) = Cardinality(Cells(values))
<1> DEFINE n == Len(values)
           T == {Row(values, k) : k \in 1..n}
           f == [k \in 1..n |-> Row(values, k)]
<1>1. n \in Nat
  BY LenProperties DEF BlockType
<1>2. IsFiniteSet(1..n)
  BY SMT, <1>1, FS_Interval
<1>3. f \in Surjection(1..n, T)
  BY DEF Surjection
<1>4. IsFiniteSet(T)
  <2> HIDE DEF f, T
  <2> QED BY <1>2, <1>3, FS_Surjection
<1>5. \A S \in T : IsFiniteSet(S)
  BY RowFacts
<1>6. IsFiniteSet(UNION T)
  <2> HIDE DEF T
  <2> QED BY <1>4, <1>5, FS_UNION
<1> QED BY <1>6 DEF Cells, BlockSize, Row

LEMMA BlockSizeNone == BlockSize(<<>>) = 0
<1> PICK e \in BlockType : e = <<>>
  BY EmptySeq DEF BlockType
<1>1. Len(e) = 0
  BY EmptySeq
<1>2. \A k : k \notin 1..Len(e)
  BY SMT, <1>1
<1>3. Cells(e) = {}
  BY <1>2 DEF Cells
<1>4. BlockSize(e) = 0
  BY <1>3, CellsFinite, FS_EmptySet
<1> QED BY <1>4

(* The size of a block only grows. *)
LEMMA BlockSizeGrows ==
    ASSUME NEW values \in BlockType, NEW more \in BlockType
    PROVE  /\ BlockSize(values) \in Nat /\ BlockSize(values \o more) \in Nat
           /\ BlockSize(values) <= BlockSize(values \o more)
<1> DEFINE w == values \o more
<1>1. /\ w \in BlockType /\ Len(w) = Len(values) + Len(more)
      /\ Len(values) \in Nat /\ Len(more) \in Nat
      /\ \A i \in 1..Len(values) + Len(more) :
            w[i] = IF i <= Len(values) THEN values[i] ELSE more[i - Len(values)]
  BY LenProperties, ConcatProperties DEF BlockType
<1> HIDE DEF w
<1>2. \A k \in 1..Len(values) : k \in 1..Len(w) /\ w[k] = values[k]
  BY SMT, <1>1
<1>3. Cells(values) \subseteq Cells(w)
  <2>1. \A k \in 1..Len(values) : Row(w, k) = Row(values, k)
    BY <1>2 DEF Row
  <2> QED BY <1>2, <2>1 DEF Cells
<1>4. IsFiniteSet(Cells(values)) /\ BlockSize(values) = Cardinality(Cells(values))
  BY CellsFinite
<1>5. IsFiniteSet(Cells(w)) /\ BlockSize(w) = Cardinality(Cells(w))
  BY <1>1, CellsFinite
<1>6. /\ Cardinality(Cells(values)) \in Nat /\ Cardinality(Cells(w)) \in Nat
      /\ Cardinality(Cells(values)) <= Cardinality(Cells(w))
  BY <1>3, <1>4, <1>5, FS_Subset, FS_CardinalityType
<1> QED BY <1>4, <1>5, <1>6 DEF w

LEMMA BlockSizeAppend ==
    ASSUME NEW values \in BlockType, NEW value \in LineType
    PROVE  /\ BlockSize(values) \in Nat /\ Len(value) \in Nat
           /\ BlockSize(Append(values, value)) = BlockSize(values) + Len(value) + 1
<1> DEFINE w == Append(values, value)
           n == Len(values)
<1>1. /\ n \in Nat /\ w \in BlockType /\ Len(w) = n + 1
      /\ \A i \in 1..n : w[i] = values[i]
      /\ w[n + 1] = value
  BY LenProperties, AppendProperties, SMTT(20) DEF BlockType
<1> HIDE DEF w
<1>2. /\ \A k \in 1..n : k \in 1..Len(w)
      /\ n + 1 \in 1..Len(w) /\ n + 1 \notin 1..n
      /\ \A k \in 1..Len(w) : k \in 1..n \/ k = n + 1
  BY SMT, <1>1
<1>3. \A k \in 1..n : Row(w, k) = Row(values, k)
  BY <1>1 DEF Row
<1>4. Cells(w) = Cells(values) \cup Row(w, n + 1)
  BY <1>2, <1>3 DEF Cells
<1>5. Cells(values) \cap Row(w, n + 1) = {}
  <2>1. ASSUME NEW p, p \in Cells(values), p \in Row(w, n + 1) PROVE FALSE
    <3>1. PICK k \in 1..n : p \in Row(values, k)
      BY <2>1 DEF Cells
    <3>2. p[1] = k /\ p[1] = n + 1
      BY <2>1, <3>1 DEF Row
    <3> QED BY <1>2, <3>2
  <2> QED BY <2>1
<1>6. IsFiniteSet(Cells(values)) /\ BlockSize(values) = Cardinality(Cells(values))
  BY CellsFinite
<1>7. IsFiniteSet(Cells(w)) /\ BlockSize(w) = Cardinality(Cells(w))
  BY <1>1, CellsFinite
<1>8. /\ IsFiniteSet(Row(w, n + 1)) /\ Len(value) \in Nat
      /\ Cardinality(Row(w, n + 1)) = Len(value) + 1
  BY <1>1, <1>2, RowFacts, SMTT(20)
<1>9. Cardinality(Cells(w)) = Cardinality(Cells(values)) + Cardinality(Row(w, n + 1))
                              - Cardinality(Cells(values) \cap Row(w, n + 1))
  BY <1>4, <1>6, <1>8, FS_Union, SMTT(20)
<1>10. Cardinality(Cells(values) \cap Row(w, n + 1)) = 0
  BY <1>5, FS_EmptySet
<1>11. Cardinality(Cells(values)) \in Nat
  BY <1>6, FS_CardinalityType
<1> DEFINE a == BlockSize(w)
           b == BlockSize(values)
<1>12. b \in Nat /\ Len(value) \in Nat /\ a = b + (Len(value) + 1) - 0
  BY <1>6, <1>7, <1>8, <1>9, <1>10, <1>11
<1> HIDE DEF a, b
<1>13. a = b + Len(value) + 1
  BY SMT, <1>12
<1> QED BY <1>12, <1>13 DEF a, b, w

----------------------------------------------------------------------------
(* Frames and blocks within the limit. *)

AllIn(s, C) == \A k \in 1..Len(s) : s[k] \in C
Short == {line \in LineType : Len(line) <= MaxFrame}
Small == {block \in BlockType : BlockSize(block) <= MaxFrame}

LEMMA AllAppend ==
    ASSUME NEW A, NEW s \in Seq(A), NEW x \in A, NEW C
    PROVE  AllIn(Append(s, x), C) <=> AllIn(s, C) /\ x \in C
<1> DEFINE w == Append(s, x)
           n == Len(s)
<1>1. n \in Nat /\ Len(w) = n + 1 /\ (\A i \in 1..n : w[i] = s[i]) /\ w[n + 1] = x
  BY LenProperties, AppendProperties, SMTT(20)
<1> HIDE DEF w, n
<1>2. /\ \A k \in 1..n : k \in 1..Len(w)
      /\ n + 1 \in 1..Len(w)
      /\ \A k \in 1..Len(w) : k \in 1..n \/ k = n + 1
  BY SMT, <1>1
<1>3. AllIn(w, C) <=> (\A k \in 1..n : s[k] \in C) /\ x \in C
  BY <1>1, <1>2 DEF AllIn
<1> QED BY <1>3 DEF AllIn, w, n

LEMMA FramesFit ==
    ASSUME NEW text \in Seq(Chars)
    PROVE  /\ AllIn(Frames(text), Short) <=>
                 AllIn(Front(Frames(text)), Short) /\ Last(Frames(text)) \in Short
           /\ AllIn(Frames(text), Short) <=>
                 \A k \in 1..Len(Frames(text)) : Len(Frames(text)[k]) <= MaxFrame
<1> DEFINE f == Frames(text)
<1>1. f \in Seq(LineType) /\ Front(f) \in Seq(LineType) /\ Last(f) \in LineType
      /\ f = Append(Front(f), Last(f))
  BY FramesFacts
<1> HIDE DEF f
<1>2. AllIn(Append(Front(f), Last(f)), Short) <=> AllIn(Front(f), Short) /\ Last(f) \in Short
  BY <1>1, AllAppend
<1>3. \A k \in 1..Len(f) : f[k] \in LineType
  BY <1>1, ElementOfSeq
<1>4. AllIn(f, Short) <=> \A k \in 1..Len(f) : Len(f[k]) <= MaxFrame
  BY <1>3 DEF AllIn, Short
<1>5. AllIn(f, Short) <=> AllIn(Front(f), Short) /\ Last(f) \in Short
  BY <1>1, <1>2
<1> QED BY <1>4, <1>5 DEF f

LEMMA BlocksFit ==
    ASSUME NEW lines \in Seq(LineType)
    PROVE  /\ AllIn(Blocks(lines), Small) <=>
                 AllIn(Front(Blocks(lines)), Small) /\ Last(Blocks(lines)) \in Small
           /\ AllIn(Blocks(lines), Small) <=>
                 \A k \in 1..Len(Blocks(lines)) : BlockSize(Blocks(lines)[k]) <= MaxFrame
<1> DEFINE b == Blocks(lines)
<1>1. b \in Seq(BlockType) /\ Front(b) \in Seq(BlockType) /\ Last(b) \in BlockType
      /\ Same(b, Append(Front(b), Last(b)))
  BY BlocksFacts
<1> HIDE DEF b
<1>2. AllIn(Append(Front(b), Last(b)), Small) <=> AllIn(Front(b), Small) /\ Last(b) \in Small
  BY <1>1, AllAppend
<1>3. \A k \in 1..Len(b) : b[k] \in BlockType
  BY <1>1, ElementOfSeq
<1>4. AllIn(b, Small) <=> \A k \in 1..Len(b) : BlockSize(b[k]) <= MaxFrame
  BY <1>3 DEF AllIn, Small
<1>5. AllIn(b, Small) <=> AllIn(Front(b), Small) /\ Last(b) \in Small
  BY <1>1, <1>2 DEF Same
<1> QED BY <1>4, <1>5 DEF b

(* What fits is said of all frames and of all blocks. *)
LEMMA FitsIs ==
    ASSUME NEW text \in Seq(Chars), NEW ended \in BOOLEAN
    PROVE  Fits(text, ended) <=>
              /\ AllIn(Frames(text), Short)
              /\ mode = "events" => AllIn(Blocks(Lines(text, ended)), Small)
<1>1. Lines(text, ended) \in Seq(LineType)
  BY LinesType
<1>2. AllIn(Frames(text), Short) <=>
         \A k \in 1..Len(Frames(text)) : Len(Frames(text)[k]) <= MaxFrame
  BY FramesFit
<1> DEFINE b == Blocks(Lines(text, ended))
<1>3. AllIn(b, Small) <=> \A k \in 1..Len(b) : BlockSize(b[k]) <= MaxFrame
  BY <1>1, BlocksFit
<1> QED BY <1>2, <1>3 DEF Fits, Frames

(* What is too long stays too long. *)
LEMMA LongFrame ==
    ASSUME NEW text \in Seq(Chars), NEW more \in Seq(Chars), Last(Frames(text)) \notin Short
    PROVE  ~AllIn(Frames(text \o more), Short)
<1> DEFINE q == Frames(text \o more)
           p == Last(Frames(text))
<1>1. Continued(p, q, Chars)
  BY PiecesGrow DEF Frames
<1>2. PICK k \in 1..Len(q), y \in Seq(Chars) : q[k] = p \o y
  BY <1>1 DEF Continued
<1>3. p \in LineType /\ ~(Len(p) <= MaxFrame)
  BY FramesFacts DEF Short
<1> HIDE DEF p, q
<1>4. Len(p \o y) = Len(p) + Len(y) /\ Len(p) \in Nat /\ Len(y) \in Nat
  BY <1>3, ConcatProperties, LenProperties DEF LineType
<1>5. MaxFrame \in Nat
  BY SMT, ParserAssumption
<1>6. ~(Len(p \o y) <= MaxFrame)
  BY SMT, <1>3, <1>4, <1>5
<1>7. q[k] \notin Short
  BY <1>2, <1>6 DEF Short
<1> QED BY <1>7 DEF AllIn, q

LEMMA LargeBlock ==
    ASSUME NEW lines \in Seq(LineType), NEW all \in Seq(LineType),
           IsPrefix(lines, all), Last(Blocks(lines)) \notin Small
    PROVE  ~AllIn(Blocks(all), Small)
<1> PICK more \in Seq(LineType) : all = lines \o more
  BY PrefixSplit
<1> DEFINE q == Blocks(all)
           p == Last(Blocks(lines))
<1>1. Continued(p, q, LineType)
  BY BlocksGrow
<1>2. PICK k \in 1..Len(q), y \in BlockType : q[k] = p \o y
  BY <1>1 DEF Continued, BlockType
<1>3. p \in BlockType /\ ~(BlockSize(p) <= MaxFrame)
  BY BlocksFacts DEF Small
<1> HIDE DEF p, q
<1>4. /\ BlockSize(p) \in Nat /\ BlockSize(p \o y) \in Nat
      /\ BlockSize(p) <= BlockSize(p \o y)
  BY <1>3, BlockSizeGrows
<1>5. MaxFrame \in Nat
  BY SMT, ParserAssumption
<1>6. ~(BlockSize(p \o y) <= MaxFrame)
  BY SMT, <1>3, <1>4, <1>5
<1>7. q[k] \notin Small
  BY <1>2, <1>6 DEF Small
<1> QED BY <1>7 DEF AllIn, q

----------------------------------------------------------------------------
(* The parser's variables after some lines, and after some text. *)

Digested(m, lines, d, z, o) ==
    /\ m = "lines" => o = lines
    /\ m = "events" => /\ o = Events(lines)
                       /\ d = Last(Blocks(lines)) /\ z = BlockSize(d)
                       /\ AllIn(Blocks(lines), Small)

Parsed(m, text, p, d, z, o) ==
    /\ text \in Seq(Chars)
    /\ p = Last(Frames(text)) /\ AllIn(Frames(text), Short)
    /\ Digested(m, Lines(text, FALSE), d, z, o)

(* Yield, with the values of the variables before and after it: a line is  *)
(* digested by its consumer, or makes an event that is too large.          *)
Consumed(m, line, next, d, z, o, n2, d2, z2, o2) ==
    \/ m = "lines" /\ o2 = Append(o, line) /\ n2 = next
    \/ /\ m = "events" /\ line = <<>>
       /\ o2 = (IF d = <<>> THEN o ELSE Append(o, d))
       /\ d2 = <<>> /\ z2 = 0 /\ n2 = next
    \/ /\ m = "events" /\ line # <<>> /\ IsData(line)
       /\ Overlong(z + Len(Value(line)) + 1) /\ n2 = "response"
    \/ /\ m = "events" /\ line # <<>> /\ IsData(line)
       /\ ~Overlong(z + Len(Value(line)) + 1)
       /\ z2 = z + Len(Value(line)) + 1 /\ d2 = Append(d, Value(line))
       /\ o2 = o /\ n2 = next
    \/ /\ m = "events" /\ line # <<>> /\ ~IsData(line)
       /\ d2 = d /\ z2 = z /\ o2 = o /\ n2 = next

Yielded(m, lines, next, n2, d2, z2, o2) ==
    \/ n2 = next /\ Digested(m, lines, d2, z2, o2)
    \/ n2 = "response" /\ m = "events" /\ Last(Blocks(lines)) \notin Small

(* One line more: the consumer is where the longer lines bring it, or the event is too large. *)
LEMMA YieldStep ==
    ASSUME NEW m \in {"lines", "events"}, NEW lines \in Seq(LineType),
           NEW line \in LineType, NEW next,
           NEW d, NEW z, NEW o, NEW n2, NEW d2, NEW z2, NEW o2,
           Digested(m, lines, d, z, o),
           Consumed(m, line, next, d, z, o, n2, d2, z2, o2)
    PROVE  Yielded(m, Append(lines, line), next, n2, d2, z2, o2)
<1> DEFINE w == Append(lines, line)
<1>1. w \in Seq(LineType)
  BY AppendProperties
<1>2. CASE m = "lines"
  BY <1>2 DEF Consumed, Digested, Yielded
<1>3. CASE m = "events"
  <2> DEFINE b == Last(Blocks(lines))
             f == Front(Blocks(lines))
  <2>1. /\ o = Events(lines) /\ d = b /\ z = BlockSize(d)
        /\ AllIn(Blocks(lines), Small)
    BY <1>3 DEF Digested
  <2>2. b \in BlockType /\ AllIn(f, Small) /\ b \in Small
    BY <2>1, BlocksFacts, BlocksFit
  <2>3. MaxFrame \in Nat
    BY SMT, ParserAssumption
  <2>4. CASE line = <<>>
    <3>1. /\ o2 = IF d = <<>> THEN o ELSE Append(o, d)
          /\ d2 = <<>> /\ z2 = 0 /\ n2 = next
      BY <1>3, <2>4 DEF Consumed
    <3>2. Same(Front(Blocks(w)), Blocks(lines)) /\ Same(Last(Blocks(w)), <<>>)
      BY <2>4, BlankLine
    <3>3. /\ b = <<>> => Same(Events(w), Events(lines))
          /\ b # <<>> => Same(Events(w), Append(Events(lines), b))
      BY <2>4, EventsBlank
    <3>4. o2 = Events(w)
      BY <2>1, <3>1, <3>3 DEF Same
    <3>5. <<>> \in Small
      <4>1. 0 <= MaxFrame
        BY SMT, <2>3
      <4> QED BY <4>1, BlockSizeNone, EmptySeq DEF Small, BlockType
    <3>6. AllIn(Blocks(w), Small)
      BY <1>1, <2>1, <3>2, <3>5, BlocksFit DEF Same
    <3>7. Digested(m, w, d2, z2, o2)
      BY <1>3, <3>1, <3>2, <3>4, <3>6, BlockSizeNone DEF Digested, Same
    <3> QED BY <3>1, <3>7 DEF Yielded
  <2>5. CASE line # <<>> /\ IsData(line)
    <3> DEFINE v == Value(line)
               total == z + Len(v) + 1
    <3>1. v \in LineType
      BY ValueMaps DEF Maps, ValueOf
    <3>2. /\ Same(Front(Blocks(w)), f) /\ Same(Last(Blocks(w)), Append(b, v))
          /\ Same(Events(w), Events(lines))
      BY <2>5, FullLine, EventsFull
    <3>3. Append(b, v) \in BlockType
      BY <2>2, <3>1, AppendProperties DEF BlockType
    <3>4. BlockSize(Append(b, v)) = total /\ total \in Nat
      <4>1. /\ BlockSize(b) \in Nat /\ Len(v) \in Nat
            /\ BlockSize(Append(b, v)) = BlockSize(b) + Len(v) + 1
        BY <2>2, <3>1, BlockSizeAppend
      <4>2. z = BlockSize(b)
        BY <2>1
      <4> HIDE DEF b, v
      <4>3. total \in Nat
        BY SMT, <4>1, <4>2
      <4> QED BY <4>1, <4>2, <4>3
    <3>5. CASE Overlong(total)
      <4>1. n2 = "response"
        BY <1>3, <2>5, <3>5 DEF Consumed
      <4>2. ~(total <= MaxFrame)
        <5> HIDE DEF total
        <5> QED BY SMT, <2>3, <3>4, <3>5 DEF Overlong
      <4>3. Last(Blocks(w)) \notin Small
        BY <3>2, <3>4, <4>2 DEF Same, Small
      <4> QED BY <1>3, <4>1, <4>3 DEF Yielded
    <3>6. CASE ~Overlong(total)
      <4>1. /\ z2 = total /\ d2 = Append(d, v) /\ n2 = next
            /\ o2 = o
        BY <1>3, <2>5, <3>6 DEF Consumed
      <4>2. total <= MaxFrame
        <5> HIDE DEF total
        <5> QED BY SMT, <2>3, <3>4, <3>6 DEF Overlong
      <4>3. Last(Blocks(w)) \in Small
        BY <3>2, <3>3, <3>4, <4>2 DEF Same, Small
      <4>4. AllIn(Blocks(w), Small)
        BY <1>1, <2>2, <3>2, <4>3, BlocksFit DEF Same
      <4>5. Digested(m, w, d2, z2, o2)
        BY <1>3, <2>1, <3>2, <3>4, <4>1, <4>4 DEF Digested, Same
      <4> QED BY <4>1, <4>5 DEF Yielded
    <3> QED BY <3>5, <3>6
  <2>6. CASE line # <<>> /\ ~IsData(line)
    <3>1. n2 = next /\ d2 = d /\ z2 = z /\ o2 = o
      BY <1>3, <2>6 DEF Consumed
    <3>2. /\ Same(Front(Blocks(w)), f) /\ Same(Last(Blocks(w)), b)
          /\ Same(Events(w), Events(lines))
      BY <2>6, FullLine, EventsFull
    <3>3. AllIn(Blocks(w), Small)
      BY <1>1, <2>2, <3>2, BlocksFit DEF Same
    <3>4. Digested(m, w, d2, z2, o2)
      BY <1>3, <2>1, <3>1, <3>2, <3>3 DEF Digested, Same
    <3> QED BY <3>1, <3>4 DEF Yielded
  <2> QED BY <2>4, <2>5, <2>6
<1> QED BY <1>2, <1>3

LEMMA MappedNone ==
    ASSUME NEW A, NEW B, NEW f, Maps(f, A, B)
    PROVE  Same(Mapped(f, <<>>), <<>>)
<1> PICK e \in Seq(A) : e = <<>>
  BY EmptySeq
<1>1. IsImage(Mapped(f, e), f, e, B)
  BY MappedType
<1>2. Mapped(f, e) \in Seq(B) /\ Len(Mapped(f, e)) = 0
  BY <1>1, EmptySeq DEF IsImage
<1>3. Mapped(f, e) = <<>>
  BY <1>2, EmptySeq, SMTT(20)
<1> QED BY <1>3 DEF Same

LEMMA NothingFits == <<>> \in Short /\ <<>> \in Small /\ \A C : AllIn(<<>>, C)
<1>1. MaxFrame \in Nat
  BY SMT, ParserAssumption
<1>2. 0 <= MaxFrame /\ \A k : k \notin 1..0
  BY SMT, <1>1
<1>3. <<>> \in LineType /\ <<>> \in BlockType /\ Len(<<>>) = 0
  BY EmptySeq DEF LineType, BlockType
<1> QED BY <1>2, <1>3, BlockSizeNone DEF Short, Small, AllIn

(* Nothing read, nothing parsed. *)
LEMMA ParsedNone == ASSUME NEW m PROVE Parsed(m, <<>>, <<>>, <<>>, 0, <<>>)
<1> PICK t \in Seq(Chars) : t = <<>>
  BY EmptySeq
<1> PICK e \in Seq(LineType) : e = <<>>
  BY EmptySeq
<1>1. Front(Frames(t)) = <<>> /\ Last(Frames(t)) = <<>>
  BY PiecesOfNone DEF Frames
<1>2. Front(Groups(e)) = <<>> /\ Last(Groups(e)) = <<>>
  BY PiecesOfNone DEF Groups
<1>3. Lines(t, FALSE) = e
  <2>1. Same(Lines(t, FALSE), Mapped(Strip, Front(Frames(t))))
    BY LinesOpen
  <2>2. Same(Mapped(Strip, <<>>), <<>>)
    BY StripMaps, MappedNone
  <2> QED BY <1>1, <2>1, <2>2 DEF Same
<1>4. Front(Blocks(e)) = <<>> /\ Last(Blocks(e)) = <<>>
  <2>1. /\ Same(Front(Blocks(e)), Mapped(ValuesOf, Front(Groups(e))))
        /\ Same(Last(Blocks(e)), Values(Last(Groups(e))))
    BY BlocksFacts
  <2>2. Same(Mapped(ValuesOf, <<>>), <<>>)
    BY ValuesMap, MappedNone
  <2> QED BY <1>2, <2>1, <2>2, ValuesOfNone DEF Same
<1>5. Events(e) = <<>>
  <2>1. Same(Events(e), Keep(Front(Blocks(e)), Full))
    BY EventsIs
  <2> QED BY <1>4, <2>1, KeepNone DEF Same
<1>6. AllIn(Frames(t), Short)
  BY <1>1, FramesFit, NothingFits
<1>7. AllIn(Blocks(e), Small)
  BY <1>4, BlocksFit, NothingFits
<1>8. Digested(m, e, <<>>, 0, <<>>)
  BY <1>4, <1>5, <1>7, BlockSizeNone DEF Digested
<1> QED BY <1>1, <1>3, <1>6, <1>8 DEF Parsed

LEMMA ParsedPlain ==
    ASSUME NEW m, NEW t, NEW p, NEW d, NEW z, NEW o, Parsed(m, t, p, d, z, o),
           NEW r \in Seq(Chars), \A i \in 1..Len(r) : r[i] # "lf", p \o r \in Short
    PROVE  Parsed(m, t \o r, p \o r, d, z, o)
<1>1. /\ t \in Seq(Chars) /\ p = Last(Frames(t)) /\ AllIn(Frames(t), Short)
      /\ Digested(m, Lines(t, FALSE), d, z, o)
  BY DEF Parsed
<1>2. /\ Same(Lines(t \o r, FALSE), Lines(t, FALSE))
      /\ Same(Last(Frames(t \o r)), Last(Frames(t)) \o r)
  BY <1>1, LinesPlain
<1>3. Front(Frames(t \o r)) = Front(Frames(t))
  BY <1>1, OpenPlain DEF Frames
<1>4. t \o r \in Seq(Chars)
  BY <1>1, ConcatProperties
<1>5. AllIn(Front(Frames(t)), Short)
  BY <1>1, FramesFit
<1>6. AllIn(Front(Frames(t \o r)), Short) /\ Last(Frames(t \o r)) \in Short
  BY <1>1, <1>2, <1>3, <1>5 DEF Same
<1>7. AllIn(Frames(t \o r), Short)
  BY <1>4, <1>6, FramesFit
<1> QED BY <1>1, <1>2, <1>4, <1>7 DEF Parsed, Same

LEMMA ParsedCut ==
    ASSUME NEW m, NEW t, NEW p, NEW d, NEW z, NEW o, Parsed(m, t, p, d, z, o),
           NEW d2, NEW z2, NEW o2,
           Digested(m, Append(Lines(t, FALSE), StripCr(p)), d2, z2, o2)
    PROVE  Parsed(m, t \o <<"lf">>, <<>>, d2, z2, o2)
<1>1. t \in Seq(Chars) /\ p = Last(Frames(t)) /\ AllIn(Frames(t), Short)
  BY DEF Parsed
<1>2. /\ Same(Lines(t \o <<"lf">>, FALSE), Append(Lines(t, FALSE), StripCr(Last(Frames(t)))))
      /\ Same(Last(Frames(t \o <<"lf">>)), <<>>)
  BY <1>1, LinesCut
<1>3. "lf" \in Chars /\ <<"lf">> \in Seq(Chars)
  BY SMT DEF Chars, Bytes
<1>4. t \o <<"lf">> \in Seq(Chars)
  BY <1>1, <1>3, ConcatProperties
<1>5. Front(Frames(t \o <<"lf">>)) = Append(Front(Frames(t)), Last(Frames(t)))
  BY <1>1, <1>3, OpenCut DEF Frames
<1>6. Frames(t) = Append(Front(Frames(t)), Last(Frames(t)))
  BY <1>1, FramesFacts
<1>7. AllIn(Front(Frames(t \o <<"lf">>)), Short) /\ Last(Frames(t \o <<"lf">>)) \in Short
  BY <1>1, <1>2, <1>5, <1>6, NothingFits DEF Same
<1>8. AllIn(Frames(t \o <<"lf">>), Short)
  BY <1>4, <1>7, FramesFit
<1> QED BY <1>1, <1>2, <1>4, <1>8 DEF Parsed, Same

(* What has been yielded is the beginning of what there is to yield. *)
LEMMA DigestedPrefix ==
    ASSUME NEW m \in {"lines", "events"}, NEW d, NEW z, NEW o,
           NEW lines \in Seq(LineType), NEW all \in Seq(LineType), IsPrefix(lines, all),
           Digested(m, lines, d, z, o)
    PROVE  IsPrefix(o, IF m = "lines" THEN all ELSE Events(all))
<1> PICK more \in Seq(LineType) : all = lines \o more
  BY PrefixSplit
<1>1. IsPrefix(Events(lines), Events(lines \o more))
  BY BlocksGrow
<1> QED BY <1>1 DEF Digested

----------------------------------------------------------------------------
(* The inductive invariant: up to the text it has scanned, the parser is   *)
(* where that text alone would have brought it.                            *)

ParserInv ==
    /\ mode \in {"lines", "events"} /\ eof \in BOOLEAN
    /\ body \in Seq(Bytes) /\ decoded \in Seq(Chars)
    /\ step \in {"read", "scan"} =>
          /\ Valid(body) /\ split = EndsSplit(body) /\ ~(eof /\ split)
          /\ \E t \in Seq(Chars) : /\ Text(body) = t \o decoded
                                   /\ Parsed(mode, t, pending, data, size, out)
    /\ step = "read" => decoded = <<>> /\ eof = FALSE
    /\ step = "ok" => Acceptable /\ out = Meaning
    /\ step = "response" => ~Acceptable

LEMMA Associative ==
    ASSUME NEW A, NEW s \in Seq(A), NEW t \in Seq(A), NEW u \in Seq(A)
    PROVE  Same((s \o t) \o u, s \o (t \o u))
BY ConcatAssociative, SMTT(20) DEF Same

(* A chunk around one of its newlines. *)
LEMMA SplitAt ==
    ASSUME NEW A, NEW d \in Seq(A), NEW e \in 1..Len(d)
    PROVE  LET r == SubSeq(d, 1, e - 1)
               rest == SubSeq(d, e + 1, Len(d))
           IN  /\ r \in Seq(A) /\ rest \in Seq(A) /\ Len(r) = e - 1
               /\ \A i \in 1..e - 1 : r[i] = d[i]
               /\ Same(d, (r \o <<d[e]>>) \o rest)
<1> DEFINE n == Len(d)
           r == SubSeq(d, 1, e - 1)
           x == SubSeq(d, e, e)
           rest == SubSeq(d, e + 1, n)
<1>1. n \in Nat
  BY LenProperties
<1>2. /\ e - 1 \in 0..n /\ e \in Int /\ e + 1 \in Int /\ n \in Int
      /\ 1 \in 1..n + 1 /\ e - 1 \in 1 - 1..n /\ e \in e - 1..n
      /\ e \in 1 - 1..n /\ n \in e..n /\ e - 1 + 1 = e
      /\ \A i \in e + 1..n : i \in 1..n
  BY SMT, <1>1
<1>3. r \in Seq(A) /\ Len(r) = e - 1 /\ \A i \in 1..e - 1 : r[i] = d[i]
  BY <1>2, FirstPart
<1>4. rest \in Seq(A)
  <2>1. \A i \in e + 1..n : d[i] \in A
    BY <1>2, ElementOfSeq
  <2> QED BY <1>2, <2>1, SubSeqProperties, SMTT(20)
<1>5. x = <<d[e]>>
  <2>1. d[e] \in A /\ \A i \in e..e : d[i] \in A
    BY <1>1, ElementOfSeq, SMTT(20)
  <2>2. x \in Seq(A)
    BY <1>2, <2>1, SubSeqProperties, SMTT(20)
  <2>3. Len(x) = 1
    BY <1>2, <2>1, SubSeqProperties, SMTT(20)
  <2>4. x[1] = d[e]
    BY <1>2, <2>1, SubSeqProperties, SMTT(20)
  <2>5. <<d[e]>> \in Seq(A) /\ Len(<<d[e]>>) = 1 /\ <<d[e]>>[1] = d[e]
    BY SMT, <2>1
  <2> HIDE DEF x
  <2>6. \A i \in 1..Len(x) : x[i] = <<d[e]>>[i]
    BY SMT, <2>3, <2>4
  <2> QED BY <2>2, <2>3, <2>5, <2>6, SeqEqual
<1>6. r \o SubSeq(d, e - 1 + 1, e) = SubSeq(d, 1, e)
  BY <1>2, ConcatAdjacentSubSeq, SMTT(20)
<1>7. SubSeq(d, 1, e) \o SubSeq(d, e + 1, n) = SubSeq(d, 1, n)
  BY <1>2, ConcatAdjacentSubSeq, SMTT(20)
<1>8. SubSeq(d, 1, n) = d
  BY SubSeqFull
<1>9. d = (r \o x) \o rest
  BY <1>2, <1>6, <1>7, <1>8
<1> HIDE DEF r, rest, x
<1>10. Same(d, (r \o <<d[e]>>) \o rest)
  BY <1>5, <1>9 DEF Same
<1> QED BY <1>3, <1>4, <1>10 DEF r, rest, n

LEMMA TextType == ASSUME NEW bytes \in Seq(Bytes) PROVE Text(bytes) \in Seq(Chars)
BY TextIs

(* What the property says follows. *)
LEMMA InvisibleIfInv == ParserInv => ChunkingInvisible
<1> SUFFICES ASSUME ParserInv PROVE ChunkingInvisible
  BY SMT
<1> DEFINE T == Text(body)
<1>1. T \in Seq(Chars)
  BY TextType DEF ParserInv
<1>2. ASSUME step = "read" PROVE Acceptable /\ out = Meaning
  <2>1. PICK t \in Seq(Chars) : T = t \o decoded /\ Parsed(mode, t, pending, data, size, out)
    BY <1>2 DEF ParserInv
  <2>2. decoded = <<>> /\ decoded \in Seq(Chars) /\ eof = FALSE /\ Valid(body)
    BY <1>2 DEF ParserInv
  <2>3. t \o decoded = t
    BY <2>2, ConcatEqualIffEmpty, SMTT(20)
  <2>4. T = t
    BY <2>1, <2>3
  <2>5. /\ AllIn(Frames(t), Short) /\ mode \in {"lines", "events"}
        /\ mode = "lines" => out = Lines(t, FALSE)
        /\ mode = "events" => out = Events(Lines(t, FALSE)) /\ AllIn(Blocks(Lines(t, FALSE)), Small)
    BY <2>1 DEF Parsed, Digested, ParserInv
  <2>6. Fits(t, FALSE)
    BY <2>5, FitsIs
  <2> QED BY <2>2, <2>4, <2>5, <2>6 DEF Acceptable, Meaning
<1>3. ASSUME step = "scan" PROVE IsPrefix(out, Meaning)
  <2>1. PICK t \in Seq(Chars) : T = t \o decoded /\ Parsed(mode, t, pending, data, size, out)
    BY <1>3 DEF ParserInv
  <2>2. decoded \in Seq(Chars) /\ eof \in BOOLEAN /\ mode \in {"lines", "events"}
    BY DEF ParserInv
  <2>3. IsPrefix(Lines(t, FALSE), Lines(t \o decoded, eof))
    BY <2>2, LinesPrefix
  <2>4. Lines(t, FALSE) \in Seq(LineType) /\ Lines(T, eof) \in Seq(LineType)
    BY <1>1, <2>2, LinesType
  <2>5. Digested(mode, Lines(t, FALSE), data, size, out)
    BY <2>1 DEF Parsed
  <2>6. IsPrefix(Lines(t, FALSE), Lines(T, eof))
    BY <2>1, <2>3
  <2>7. IsPrefix(out, IF mode = "lines" THEN Lines(T, eof) ELSE Events(Lines(T, eof)))
    BY <2>2, <2>4, <2>5, <2>6, DigestedPrefix
  <2> QED BY <2>7 DEF Meaning
<1>4. /\ step = "ok" => Acceptable /\ out = Meaning
      /\ step = "response" => ~Acceptable
  BY DEF ParserInv
<1> QED BY <1>2, <1>3, <1>4 DEF ChunkingInvisible

LEMMA InvInit == Init => ParserInv
<1> SUFFICES ASSUME Init PROVE ParserInv
  BY SMT
<1>1. <<>> \in Seq(Bytes) /\ <<>> \in Seq(Chars)
  BY EmptySeq
<1> PICK e \in Seq(Chars) : e = <<>>
  BY <1>1
<1>2. Valid(body)
  <2>1. \A i : i \notin 1..0
    BY SMT
  <2> QED BY <2>1, EmptySeq DEF Valid, Init
<1>3. split = EndsSplit(body)
  BY DEF EndsSplit, Init
<1>4. Text(body) = e \o decoded
  <2>1. e \o e = e
    BY ConcatEqualIffEmpty, SMTT(20)
  <2> QED BY <2>1, TextOfNone DEF Init
<1>5. Parsed(mode, e, pending, data, size, out)
  BY ParsedNone DEF Init
<1> QED BY <1>1, <1>2, <1>3, <1>4, <1>5 DEF ParserInv, Init

(* What was acceptable, and meant, stays so while no more is read. *)
LEMMA SameBody ==
    ASSUME UNCHANGED <<mode, body, eof>>
    PROVE  (Acceptable' <=> Acceptable) /\ Meaning' = Meaning
BY DEF Acceptable, Meaning, Fits

(* A chunk is decoded behind the bytes before it, or makes the body malformed. *)
LEMMA ReadStep ==
    ASSUME ParserInv, NEW chunk \in Chunks, Read(chunk)
    PROVE  ParserInv'
<1> DEFINE u == Undecoded(chunk)
<1>1. chunk \in Seq(Bytes)
  <2>1. PICK n \in 0..MaxChunk : chunk \in [1..n -> Bytes]
    BY DEF Chunks
  <2>2. n \in Nat
    BY SMT, ParserAssumption
  <2> QED BY <2>1, <2>2, FunctionIsSeq
<1>2. /\ step = "read" /\ body \in Seq(Bytes) /\ Valid(body) /\ split = EndsSplit(body)
      /\ decoded = <<>> /\ decoded \in Seq(Chars) /\ eof = FALSE
  BY DEF Read, ParserInv
<1>3. /\ mode' = mode /\ eof' = eof /\ pending' = pending /\ data' = data /\ size' = size
      /\ out' = out /\ body' = body \o chunk
  BY DEF Read
<1>4. body' \in Seq(Bytes)
  BY <1>1, <1>2, <1>3, ConcatProperties
<1>5. /\ Valid(body \o chunk) <=> Valid(u)
      /\ EndsSplit(body \o chunk) <=> EndsSplit(u)
  BY <1>1, <1>2, ValidChunk
<1>6. u \in Seq(Bytes) /\ Same(Text(u), Text(chunk))
  BY <1>1, UndecodedText
<1>7. CASE ~Valid(u)
  <2>1. step' = "response" /\ decoded' = decoded
    BY <1>7 DEF Read
  <2>2. ~Valid(body')
    BY <1>3, <1>5, <1>7
  <2>3. ~Acceptable'
    BY <2>2 DEF Acceptable
  <2> QED BY <1>2, <1>3, <1>4, <2>1, <2>3 DEF ParserInv
<1>8. CASE Valid(u)
  <2>1. step' = "scan" /\ split' = EndsSplit(u) /\ decoded' = Text(u)
    BY <1>8 DEF Read
  <2>2. PICK t \in Seq(Chars) : /\ Text(body) = t \o decoded
                                /\ Parsed(mode, t, pending, data, size, out)
    BY <1>2 DEF ParserInv
  <2>3. t \o decoded = t
    BY <1>2, ConcatEqualIffEmpty, SMTT(20)
  <2>4. Same(Text(body \o chunk), Text(body) \o Text(chunk))
    BY <1>1, <1>2, TextConcat
  <2>5. Text(body') = t \o decoded'
    BY <1>3, <1>6, <2>1, <2>2, <2>3, <2>4 DEF Same
  <2>6. decoded' \in Seq(Chars)
    BY <1>6, <2>1, TextType
  <2>7. Valid(body') /\ split' = EndsSplit(body')
    <3>1. EndsSplit(body') \in BOOLEAN /\ EndsSplit(u) \in BOOLEAN
      BY DEF EndsSplit
    <3> QED BY <1>3, <1>5, <1>8, <2>1, <3>1
  <2>8. Parsed(mode', t, pending', data', size', out')
    BY <1>3, <2>2
  <2> QED BY <1>2, <1>3, <1>4, <2>1, <2>5, <2>6, <2>7, <2>8 DEF ParserInv
<1> QED BY <1>7, <1>8

(* At the end of the body half a character makes it malformed. *)
LEMMA ReadEndStep == ASSUME ParserInv, ReadEnd PROVE ParserInv'
<1>1. /\ step = "read" /\ body \in Seq(Bytes) /\ Valid(body) /\ split = EndsSplit(body)
      /\ decoded \in Seq(Chars)
  BY DEF ReadEnd, ParserInv
<1>2. /\ eof' = TRUE /\ mode' = mode /\ body' = body /\ split' = split /\ decoded' = decoded
      /\ pending' = pending /\ data' = data /\ size' = size /\ out' = out
      /\ step' = IF split THEN "response" ELSE "scan"
  BY DEF ReadEnd
<1>3. CASE split
  <2>1. ~Acceptable'
    BY <1>1, <1>2, <1>3 DEF Acceptable
  <2> QED BY <1>1, <1>2, <1>3, <2>1 DEF ParserInv
<1>4. CASE ~split
  <2>1. PICK t \in Seq(Chars) : /\ Text(body) = t \o decoded
                                /\ Parsed(mode, t, pending, data, size, out)
    BY <1>1 DEF ParserInv
  <2>2. Text(body') = t \o decoded' /\ Parsed(mode', t, pending', data', size', out')
    BY <1>2, <2>1
  <2>3. step' = "scan" /\ Valid(body') /\ split' = EndsSplit(body') /\ ~split'
    BY <1>1, <1>2, <1>4
  <2> QED BY <1>1, <1>2, <2>2, <2>3 DEF ParserInv
<1> QED BY <1>3, <1>4

LEMMA ReadFailsStep == ASSUME ParserInv, ReadFails PROVE ParserInv'
BY DEF ParserInv, ReadFails

(* A newline: the line is too long, or makes an event too large, or is digested. *)
LEMMA LineStep == ASSUME ParserInv, Line PROVE ParserInv'
<1>1. /\ step = "scan" /\ body \in Seq(Bytes) /\ Valid(body) /\ split = EndsSplit(body)
      /\ decoded \in Seq(Chars) /\ eof \in BOOLEAN /\ mode \in {"lines", "events"}
      /\ ~(eof /\ split)
  BY DEF Line, ParserInv
<1>2. mode' = mode /\ body' = body /\ eof' = eof /\ split' = split
  BY DEF Line
<1>3. PICK t \in Seq(Chars) : /\ Text(body) = t \o decoded
                              /\ Parsed(mode, t, pending, data, size, out)
  BY <1>1 DEF ParserInv
<1>4. PICK end \in 1..Len(decoded) :
         /\ decoded[end] = "lf" /\ \A i \in 1..end - 1 : decoded[i] # "lf"
         /\ LET line == pending \o SubSeq(decoded, 1, end - 1)
            IN  \/ Overlong(Len(line)) /\ Fails("response") /\ UNCHANGED <<pending, decoded>>
                \/ /\ ~Overlong(Len(line))
                   /\ Yield(StripCr(line), "scan")
                   /\ pending' = <<>>
                   /\ decoded' = SubSeq(decoded, end + 1, Len(decoded))
  BY DEF Line
<1> DEFINE r == SubSeq(decoded, 1, end - 1)
           rest == SubSeq(decoded, end + 1, Len(decoded))
           line == pending \o r
           s == t \o r
           w == s \o <<"lf">>
<1>5. /\ r \in Seq(Chars) /\ rest \in Seq(Chars) /\ Len(r) = end - 1
      /\ \A i \in 1..end - 1 : r[i] = decoded[i]
      /\ Same(decoded, (r \o <<decoded[end]>>) \o rest)
  BY <1>1, SplitAt
<1>6. \A i \in 1..Len(r) : r[i] # "lf"
  BY <1>4, <1>5
<1>7. decoded = (r \o <<"lf">>) \o rest
  BY <1>4, <1>5 DEF Same
<1>8. \/ Overlong(Len(line)) /\ Fails("response") /\ pending' = pending /\ decoded' = decoded
      \/ /\ ~Overlong(Len(line)) /\ Yield(StripCr(line), "scan")
         /\ pending' = <<>> /\ decoded' = rest
  BY <1>4
<1> HIDE DEF r, rest
<1>9. <<"lf">> \in Seq(Chars)
  BY SMT DEF Chars, Bytes
<1>10. s \in Seq(Chars) /\ w \in Seq(Chars) /\ Text(body) = w \o rest
       /\ Text(body) = s \o (<<"lf">> \o rest) /\ <<"lf">> \o rest \in Seq(Chars)
  <2> PICK lf \in Seq(Chars) : lf = <<"lf">>
    BY <1>9
  <2>1. /\ s \in Seq(Chars) /\ s \o lf \in Seq(Chars) /\ r \o lf \in Seq(Chars)
        /\ lf \o rest \in Seq(Chars)
    BY <1>5, ConcatProperties
  <2>2. Same((t \o (r \o lf)) \o rest, t \o ((r \o lf) \o rest))
    BY <1>5, <2>1, Associative
  <2>3. Same((t \o r) \o lf, t \o (r \o lf))
    BY <1>5, Associative
  <2>4. Same((s \o lf) \o rest, s \o (lf \o rest))
    BY <1>5, <2>1, Associative
  <2>5. Text(body) = (s \o lf) \o rest
    BY <1>3, <1>7, <2>2, <2>3 DEF Same
  <2>6. Text(body) = s \o (lf \o rest)
    BY <2>4, <2>5 DEF Same
  <2> QED BY <2>1, <2>5, <2>6
<1>11. pending = Last(Frames(t)) /\ pending \in Seq(Chars) /\ line \in LineType
  <2>1. pending = Last(Frames(t)) /\ pending \in LineType
    BY <1>3, FramesFacts DEF Parsed
  <2>2. pending \in Seq(Chars)
    BY <2>1 DEF LineType
  <2> QED BY <1>5, <2>1, <2>2, ConcatProperties DEF LineType
<1>12. Overlong(Len(line)) <=> line \notin Short
  <2>1. Len(line) \in Nat /\ MaxFrame \in Nat
    BY <1>11, LenProperties, ParserAssumption, SMTT(20) DEF LineType
  <2> HIDE DEF line
  <2>2. Overlong(Len(line)) <=> ~(Len(line) <= MaxFrame)
    BY SMT, <2>1 DEF Overlong
  <2> QED BY <1>11, <2>2 DEF Short
<1>13. Same(Last(Frames(s)), Last(Frames(t)) \o r)
  BY <1>5, <1>6, LinesPlain
<1>14. CASE Overlong(Len(line))
  <2>1. step' = "response" /\ decoded' = decoded
    BY <1>8, <1>14 DEF Fails
  <2>2. Last(Frames(s)) \notin Short
    BY <1>11, <1>12, <1>13, <1>14 DEF Same
  <2>3. ~AllIn(Frames(s \o (<<"lf">> \o rest)), Short)
    BY <1>10, <2>2, LongFrame
  <2>4. ~Fits(Text(body), eof)
    <3>1. Text(body) \in Seq(Chars)
      BY <1>1, TextType
    <3> QED BY <1>1, <1>10, <2>3, <3>1, FitsIs
  <2>5. ~Acceptable'
    BY <1>2, <2>4, SameBody DEF Acceptable
  <2> QED BY <1>1, <1>2, <2>1, <2>5 DEF ParserInv
<1>15. CASE ~Overlong(Len(line))
  <2>1. Yield(StripCr(line), "scan") /\ pending' = <<>> /\ decoded' = rest
    BY <1>8, <1>15
  <2>2. Parsed(mode, s, line, data, size, out)
    BY <1>3, <1>5, <1>6, <1>12, <1>15, ParsedPlain
  <2>3. Digested(mode, Lines(s, FALSE), data, size, out) /\ line = Last(Frames(s))
    BY <2>2 DEF Parsed
  <2>4. Lines(s, FALSE) \in Seq(LineType) /\ StripCr(line) \in LineType
    BY <1>10, <1>11, LinesOpen, StripCrType
  <2> DEFINE L == Append(Lines(s, FALSE), StripCr(line))
  <2>5. \/ step' = "scan" /\ Digested(mode, L, data', size', out')
        \/ /\ step' = "response" /\ mode = "events"
           /\ Last(Blocks(L)) \notin Small
    <3>1. Consumed(mode, StripCr(line), "scan", data, size, out, step', data', size', out')
      BY <2>1 DEF Yield, YieldEvents, Dispatch, Fails, Consumed
    <3> HIDE DEF line, s
    <3>2. Yielded(mode, L, "scan", step', data', size', out')
      BY <1>1, <2>3, <2>4, <3>1, YieldStep
    <3> QED BY <3>2 DEF Yielded
  <2>6. CASE step' = "scan" /\ Digested(mode, L, data', size', out')
    <3>1. Parsed(mode, w, <<>>, data', size', out')
      <4> HIDE DEF line, s
      <4> QED BY <2>2, <2>6, ParsedCut
    <3>2. Text(body') = w \o decoded' /\ Parsed(mode', w, pending', data', size', out')
      BY <1>2, <1>10, <2>1, <3>1
    <3> HIDE DEF w
    <3>3. decoded' \in Seq(Chars)
      BY <1>5, <2>1
    <3> QED BY <1>1, <1>2, <1>10, <2>6, <3>2, <3>3 DEF ParserInv
  <2>7. CASE step' = "response" /\ mode = "events" /\ Last(Blocks(L)) \notin Small
    <3>1. Same(Lines(w, FALSE), L)
      BY <1>10, <2>3, LinesCut
    <3>2. IsPrefix(Lines(w, FALSE), Lines(w \o rest, eof))
      BY <1>1, <1>5, <1>10, LinesPrefix
    <3>3. Text(body) \in Seq(Chars)
      BY <1>1, TextType
    <3>4. Lines(w, FALSE) \in Seq(LineType) /\ Lines(Text(body), eof) \in Seq(LineType)
      BY <1>1, <1>10, <3>3, LinesType
    <3>5. ~AllIn(Blocks(Lines(Text(body), eof)), Small)
      <4>1. /\ IsPrefix(Lines(w, FALSE), Lines(Text(body), eof))
            /\ Last(Blocks(Lines(w, FALSE))) \notin Small
        BY <1>10, <2>7, <3>1, <3>2 DEF Same
      <4> HIDE DEF w
      <4> QED BY <3>4, <4>1, LargeBlock
    <3>6. ~Fits(Text(body), eof)
      BY <1>1, <2>7, <3>3, <3>5, FitsIs
    <3>7. ~Acceptable'
      BY <1>2, <3>6, SameBody DEF Acceptable
    <3>8. decoded' \in Seq(Chars)
      BY <1>5, <2>1
    <3> QED BY <1>1, <1>2, <2>7, <3>7, <3>8 DEF ParserInv
  <2> QED BY <2>5, <2>6, <2>7
<1> QED BY <1>14, <1>15

(* The rest of a chunk waits for the next one, or is the last line. *)
LEMMA RestStep == ASSUME ParserInv, Rest PROVE ParserInv'
<1> DEFINE rest == pending \o decoded
           T == Text(body)
<1>1. /\ step = "scan" /\ body \in Seq(Bytes) /\ Valid(body) /\ split = EndsSplit(body)
      /\ decoded \in Seq(Chars) /\ eof \in BOOLEAN /\ mode \in {"lines", "events"}
      /\ ~(eof /\ split)
  BY DEF Rest, ParserInv
<1>2. /\ mode' = mode /\ body' = body /\ eof' = eof /\ split' = split
      /\ pending' = rest /\ decoded' = <<>> /\ \A i \in 1..Len(decoded) : decoded[i] # "lf"
  BY DEF Rest
<1>3. PICK t \in Seq(Chars) : T = t \o decoded /\ Parsed(mode, t, pending, data, size, out)
  BY <1>1 DEF ParserInv
<1>4. T \in Seq(Chars) /\ decoded' \in Seq(Chars)
  BY <1>1, <1>2, TextType, EmptySeq
<1>5. Last(Frames(T)) = rest
  <2>1. Same(Last(Frames(t \o decoded)), Last(Frames(t)) \o decoded)
    BY <1>1, <1>2, LinesPlain
  <2>2. pending = Last(Frames(t))
    BY <1>3 DEF Parsed
  <2> QED BY <1>3, <2>1, <2>2 DEF Same
<1>6. rest \in LineType
  BY <1>4, <1>5, FramesFacts
<1>7. Overlong(Len(rest)) <=> rest \notin Short
  <2>1. Len(rest) \in Nat /\ MaxFrame \in Nat
    BY <1>6, LenProperties, ParserAssumption, SMTT(20) DEF LineType
  <2> HIDE DEF rest
  <2>2. Overlong(Len(rest)) <=> ~(Len(rest) <= MaxFrame)
    BY SMT, <2>1 DEF Overlong
  <2> QED BY <1>6, <2>2 DEF Short
<1>8. CASE Overlong(Len(rest))
  <2>1. step' = "response"
    BY <1>8 DEF Rest, Fails
  <2>2. ~AllIn(Frames(T), Short)
    BY <1>4, <1>5, <1>7, <1>8, FramesFit
  <2>3. ~Fits(T, eof)
    BY <1>1, <1>4, <2>2, FitsIs
  <2>4. ~Acceptable'
    BY <1>2, <2>3, SameBody DEF Acceptable
  <2> QED BY <1>1, <1>2, <1>4, <2>1, <2>4 DEF ParserInv
<1>9. CASE ~Overlong(Len(rest))
  <2>1. Parsed(mode, T, rest, data, size, out)
    <3>1. Parsed(mode, t \o decoded, pending \o decoded, data, size, out)
      BY <1>1, <1>2, <1>3, <1>7, <1>9, ParsedPlain
    <3> QED BY <1>3, <3>1
  <2>2. /\ AllIn(Frames(T), Short)
        /\ Digested(mode, Lines(T, FALSE), data, size, out)
    BY <2>1 DEF Parsed
  <2>3. Lines(T, FALSE) \in Seq(LineType) /\ Lines(T, TRUE) \in Seq(LineType)
    BY <1>4, LinesType
  <2>4. /\ (mode = "events" => AllIn(Blocks(Lines(T, TRUE)), Small)) /\ eof => Acceptable
        /\ eof /\ ~(mode = "events" => AllIn(Blocks(Lines(T, TRUE)), Small)) => ~Acceptable
        /\ eof => Meaning = IF mode = "lines" THEN Lines(T, TRUE) ELSE Events(Lines(T, TRUE))
    <3>1. eof => eof = TRUE
      BY <1>1
    <3>2. Fits(T, TRUE) <=> (mode = "events" => AllIn(Blocks(Lines(T, TRUE)), Small))
      BY <1>4, <2>2, FitsIs
    <3> QED BY <1>1, <3>1, <3>2 DEF Acceptable, Meaning
  <2>5. CASE ~eof /\ step' = "read" /\ UNCHANGED <<data, size, out>>
    <3>1. T \o decoded' = T
      BY <1>2, <1>4, ConcatEqualIffEmpty, SMTT(20)
    <3>2. Text(body') = T \o decoded' /\ Parsed(mode', T, pending', data', size', out')
      BY <1>2, <2>1, <2>5, <3>1
    <3>3. eof' = FALSE
      BY <1>1, <1>2, <2>5
    <3> HIDE DEF T
    <3> QED BY <1>1, <1>2, <1>4, <2>5, <3>2, <3>3 DEF ParserInv
  <2>6. CASE eof /\ rest = <<>> /\ step' = "ok" /\ UNCHANGED <<data, size, out>>
    <3>1. Same(Lines(T, TRUE), Lines(T, FALSE))
      BY <1>4, <1>5, <2>6, LinesEnded
    <3>2. Digested(mode, Lines(T, TRUE), data, size, out)
      BY <2>2, <3>1 DEF Same
    <3>3. Acceptable /\ out = Meaning
      BY <1>1, <2>4, <2>6, <3>2 DEF Digested
    <3>4. Acceptable' /\ out' = Meaning'
      BY <1>2, <2>6, <3>3, SameBody
    <3> QED BY <1>1, <1>2, <1>4, <2>6, <3>4 DEF ParserInv
  <2>7. CASE eof /\ rest # <<>> /\ Yield(StripCr(rest), "ok")
    <3> DEFINE L == Append(Lines(T, FALSE), StripCr(rest))
    <3>1. Same(Lines(T, TRUE), L)
      BY <1>4, <1>5, <2>7, LinesEnded
    <3>2. StripCr(rest) \in LineType
      BY <1>6, StripCrType
    <3>3. Consumed(mode, StripCr(rest), "ok", data, size, out, step', data', size', out')
      BY <2>7 DEF Yield, YieldEvents, Dispatch, Fails, Consumed
    <3>4. Yielded(mode, L, "ok", step', data', size', out')
      <4> HIDE DEF T, rest
      <4> QED BY <1>1, <2>2, <2>3, <3>2, <3>3, YieldStep
    <3>5. CASE step' = "ok" /\ Digested(mode, L, data', size', out')
      <4>1. Digested(mode, Lines(T, TRUE), data', size', out')
        BY <3>1, <3>5 DEF Same
      <4>2. Acceptable /\ out' = Meaning
        BY <1>1, <2>4, <2>7, <4>1 DEF Digested
      <4>3. Acceptable' /\ out' = Meaning'
        BY <1>2, <4>2, SameBody
      <4> QED BY <1>1, <1>2, <1>4, <3>5, <4>3 DEF ParserInv
    <3>6. CASE step' = "response" /\ mode = "events" /\ Last(Blocks(L)) \notin Small
      <4>1. ~AllIn(Blocks(Lines(T, TRUE)), Small)
        BY <2>3, <3>1, <3>6, BlocksFit DEF Same
      <4>2. ~Acceptable'
        BY <1>2, <2>4, <2>7, <3>6, <4>1, SameBody
      <4> QED BY <1>1, <1>2, <1>4, <3>6, <4>2 DEF ParserInv
    <3> QED BY <3>4, <3>5, <3>6 DEF Yielded
  <2> QED BY <1>9, <2>5, <2>6, <2>7 DEF Rest
<1> QED BY <1>8, <1>9

LEMMA StutterStep == ASSUME ParserInv, UNCHANGED vars PROVE ParserInv'
<1>1. /\ mode' = mode /\ step' = step /\ body' = body /\ eof' = eof /\ split' = split
      /\ decoded' = decoded /\ pending' = pending /\ data' = data /\ size' = size /\ out' = out
  BY DEF vars
<1>2. (Acceptable' <=> Acceptable) /\ Meaning' = Meaning
  BY <1>1, SameBody
<1> QED BY <1>1, <1>2 DEF ParserInv

(* However the network cuts a body, of whatever length and whatever the    *)
(* frame limit, readLines and readSseData yield what the unbroken text     *)
(* means, refuse what is malformed or too large, and nothing else.         *)
THEOREM ChunksAreInvisible == Spec => []ChunkingInvisible
<1>1. Init => ParserInv
  BY SMT, InvInit
<1>2. ParserInv /\ [Next]_vars => ParserInv'
  <2> SUFFICES ASSUME ParserInv, [Next]_vars PROVE ParserInv'
    BY SMT
  <2>1. ASSUME NEW chunk \in Chunks, Read(chunk) PROVE ParserInv'
    BY SMT, <2>1, ReadStep
  <2>2. CASE ReadEnd
    BY SMT, <2>2, ReadEndStep
  <2>3. CASE ReadFails
    BY SMT, <2>3, ReadFailsStep
  <2>4. CASE Line
    BY SMT, <2>4, LineStep
  <2>5. CASE Rest
    BY SMT, <2>5, RestStep
  <2>6. CASE UNCHANGED vars
    BY SMT, <2>6, StutterStep
  <2> QED BY <2>1, <2>2, <2>3, <2>4, <2>5, <2>6 DEF Next
<1>3. ParserInv => ChunkingInvisible
  BY SMT, InvisibleIfInv
<1> QED BY <1>1, <1>2, <1>3, PTL DEF Spec

=============================================================================
