-------------------------- MODULE Rooms_proofs --------------------------
(***************************************************************************)
(* Proofs about the rooms (Rooms) and their heap (MemaHeap), for any       *)
(* number of rooms of any size, any heap and any length of its table: the  *)
(* blocks and the free spaces lie in the heap and never overlap, no unit   *)
(* goes astray, and a free space is given up only when no two can be       *)
(* merged.                                                                 *)
(*                                                                         *)
(* The invariant (RoomsInv) says which blocks are handed out, one to each  *)
(* claim of a room (its data or its bounds), that these are apart, and     *)
(* that the table is one of those there may be while they are (Tables),    *)
(* with as many units in its spaces as the rooms do not own and the search *)
(* did not give up (Spare).  It says of a room that it has data exactly    *)
(* while it is in use, bounds only with data, and a size that is its own   *)
(* once it was measured.  Each operation on the table is a fold; the first *)
(* part has the induction for folds and what a sum over a set, a fold      *)
(* itself, gains by an element; the second what each operation keeps.      *)
(*                                                                         *)
(* The theorems assume that a room fits when it is measured                *)
(* (MeasuredRoomFits, which a run checks): the code does not look whether  *)
(* a block grew, and where it did not, the room would own less than it     *)
(* believes.                                                               *)
(***************************************************************************)
EXTENDS Rooms, FiniteSetTheorems, WellFoundedInduction, TLAPS

\* A set of naturals with an element has a least one.
LEMMA LeastNatural ==
  ASSUME NEW T, T \subseteq Nat, T # {}
  PROVE  \E x \in T : \A y \in T : x <= y
<1> DEFINE R == OpToRel(<, Nat)
<1>1. \A x \in Nat, y \in Nat : x < y => <<x, y>> \in R
  BY DEF OpToRel
<1>2. IsWellFoundedOn(R, Nat)
  BY NatLessThanWellFounded
<1> HIDE DEF R
<1>3. PICK x \in T : \A y \in T : ~(<<y, x>> \in R)
  BY <1>2, WFMin
<1>4. \A y \in T : ~(y < x)
  BY <1>1, <1>3
<1>5. x \in Nat /\ \A y \in T : y \in Nat
  BY <1>3
<1>6. \A y \in T : x <= y
  BY <1>4, <1>5
<1> QED BY <1>3, <1>6

\* A set of naturals below a bound with an element has a greatest one.
LEMMA GreatestNatural ==
  ASSUME NEW N \in Nat, NEW T \in SUBSET (0 .. N), T # {}
  PROVE  /\ Max(T) \in T /\ \A y \in T : y <= Max(T)
<1> DEFINE D == {N - x : x \in T}
<1>1. D \subseteq Nat /\ D # {}
  <2>1. \A x \in T : x \in Nat /\ x <= N
    OBVIOUS
  <2>2. \A x \in T : N - x \in Nat
    BY <2>1
  <2> QED BY <2>2
<1>2. PICK d \in D : \A e \in D : d <= e
  BY <1>1, LeastNatural
<1>3. PICK x \in T : d = N - x
  BY <1>2
<1>4. \A y \in T : x >= y
  <2> TAKE y \in T
  <2>1. N - x <= N - y
    BY <1>2, <1>3
  <2> QED BY <2>1
<1>5. \E z \in T : \A y \in T : z >= y
  BY <1>4
<1>6. Max(T) \in T /\ \A y \in T : Max(T) >= y
  BY <1>5 DEF Max
<1> QED BY <1>6

\* The last of some positions, and what comes before it.
LEMMA LastOf ==
  ASSUME NEW n \in Nat, NEW s \in SUBSET (1 .. n), s # {}
  PROVE  /\ Max(s) \in s /\ Max(s) \in 1 .. n /\ \A y \in s : y <= Max(s)
         /\ s \ {Max(s)} \in SUBSET (1 .. (Max(s) - 1))
<1>1. s \in SUBSET (0 .. n)
  OBVIOUS
<1>2. Max(s) \in s /\ \A y \in s : y <= Max(s)
  BY <1>1, GreatestNatural
<1>3. PICK x \in s : x = Max(s)
  BY <1>2
<1>4. \A y \in s \ {x} : y \in 1 .. (x - 1)
  <2> TAKE y \in s \ {x}
  <2>1. x \in Nat /\ y \in Nat /\ 1 <= y /\ y <= x /\ y # x
    BY <1>2, <1>3
  <2> QED BY <2>1
<1> QED BY <1>2, <1>3, <1>4

\* The equation of a fold from the left over the positions 1 .. n, and with h for
\* its step (the definition of the community modules).
Folding(it, n, base, h) ==
  \A s \in SUBSET (1 .. n) :
    it[s] = IF s = {} THEN base ELSE h[<<it[s \ {Max(s)}], Max(s)>>]

\* There is such a function.
LEMMA FoldExists ==
  ASSUME NEW N \in Nat, NEW V, NEW base \in V, NEW h \in [V \X (1 .. N) -> V]
  PROVE  \E it \in [SUBSET (1 .. N) -> V] : Folding(it, N, base, h)
<1> DEFINE P(n) == n <= N => \E it \in [SUBSET (1 .. n) -> V] : Folding(it, n, base, h)
<1>1. P(0)
  <2> DEFINE z == [s \in SUBSET (1 .. 0) |-> base]
  <2>1. z \in [SUBSET (1 .. 0) -> V] /\ \A s \in SUBSET (1 .. 0) : s = {} /\ z[s] = base
    OBVIOUS
  <2> QED BY <2>1 DEF Folding
<1>2. ASSUME NEW n \in Nat, P(n) PROVE P(n + 1)
  <2> SUFFICES ASSUME n + 1 <= N
               PROVE  \E it \in [SUBSET (1 .. (n + 1)) -> V] : Folding(it, n + 1, base, h)
    OBVIOUS
  <2>1. PICK g \in [SUBSET (1 .. n) -> V] : Folding(g, n, base, h)
    <3>1. n <= N
      OBVIOUS
    <3> QED BY <1>2, <3>1
  <2> DEFINE it == [s \in SUBSET (1 .. (n + 1)) |->
                      IF s = {} THEN base ELSE h[<<g[s \ {Max(s)}], Max(s)>>]]
  <2>2. ASSUME NEW s \in SUBSET (1 .. (n + 1)), s # {}
        PROVE  /\ Max(s) \in 1 .. (n + 1) /\ s \ {Max(s)} \in SUBSET (1 .. n)
    <3>1. Max(s) \in 1 .. (n + 1) /\ s \ {Max(s)} \in SUBSET (1 .. (Max(s) - 1))
      BY <2>2, LastOf
    <3>2. 1 .. (Max(s) - 1) \subseteq 1 .. n
      BY <3>1
    <3> QED BY <3>1, <3>2
  <2>3. it \in [SUBSET (1 .. (n + 1)) -> V]
    <3> SUFFICES ASSUME NEW s \in SUBSET (1 .. (n + 1)), s # {}
                 PROVE  h[<<g[s \ {Max(s)}], Max(s)>>] \in V
      OBVIOUS
    <3>1. g[s \ {Max(s)}] \in V /\ Max(s) \in 1 .. N
      BY <2>1, <2>2
    <3> QED BY <3>1
  <2>4. \A s \in SUBSET (1 .. n) : it[s] = g[s]
    <3> TAKE s \in SUBSET (1 .. n)
    <3>1. s \in SUBSET (1 .. (n + 1))
      OBVIOUS
    <3>2. it[s] = IF s = {} THEN base ELSE h[<<g[s \ {Max(s)}], Max(s)>>]
      BY <3>1
    <3>3. g[s] = IF s = {} THEN base ELSE h[<<g[s \ {Max(s)}], Max(s)>>]
      BY <2>1 DEF Folding
    <3> QED BY <3>2, <3>3
  <2>5. Folding(it, n + 1, base, h)
    <3> SUFFICES ASSUME NEW s \in SUBSET (1 .. (n + 1))
                 PROVE  it[s] = IF s = {} THEN base ELSE h[<<it[s \ {Max(s)}], Max(s)>>]
      BY DEF Folding
    <3>1. it[s] = IF s = {} THEN base ELSE h[<<g[s \ {Max(s)}], Max(s)>>]
      OBVIOUS
    <3>2. s # {} => it[s \ {Max(s)}] = g[s \ {Max(s)}]
      BY <2>2, <2>4
    <3> HIDE DEF it
    <3> QED BY <3>1, <3>2
  <2> QED BY <2>3, <2>5
<1>3. \A n \in Nat : P(n)
  <2> DEFINE Bad == {n \in Nat : ~P(n)}
  <2> HIDE DEF P
  <2>1. SUFFICES ASSUME Bad # {} PROVE FALSE
    OBVIOUS
  <2>2. PICK b \in Bad : \A y \in Bad : b <= y
    BY <2>1, LeastNatural
  <2>3. b # 0
    BY <1>1, <2>2
  <2>4. b - 1 \in Nat /\ P(b - 1)
    BY <2>2, <2>3
  <2>5. P((b - 1) + 1)
    BY <1>2, <2>4
  <2>6. (b - 1) + 1 = b
    BY <2>2
  <2> QED BY <2>2, <2>5, <2>6
<1>4. P(N)
  BY <1>3
<1>5. N <= N
  OBVIOUS
<1> QED BY <1>4, <1>5, Zenon

\* Whatever satisfies the equation stays among the values that steps stay among.
LEMMA FoldStays ==
  ASSUME NEW N \in Nat, NEW V, NEW it, it[{}] \in V,
         \A s \in SUBSET (1 .. N) : s # {} /\ it[s \ {Max(s)}] \in V => it[s] \in V
  PROVE  it[1 .. N] \in V
<1> DEFINE Bad == {n \in 0 .. N : it[1 .. n] \notin V}
<1>1. SUFFICES ASSUME Bad # {} PROVE FALSE
  OBVIOUS
<1>2. PICK b \in Bad : \A y \in Bad : b <= y
  <2>1. Bad \subseteq Nat
    OBVIOUS
  <2> QED BY <1>1, <2>1, LeastNatural
<1>3. b # 0
  <2>1. 1 .. 0 = {}
    OBVIOUS
  <2> QED BY <1>2, <2>1
<1>4. it[1 .. (b - 1)] \in V
  BY <1>2, <1>3
<1>5. 1 .. b \in SUBSET (1 .. N) /\ 1 .. b # {} /\ b \in 1 .. b /\ b \in Nat
  BY <1>2, <1>3
<1>6. Max(1 .. b) = b
  <2>1. Max(1 .. b) \in 1 .. b /\ \A y \in 1 .. b : y <= Max(1 .. b)
    BY <1>5, LastOf
  <2> QED BY <1>5, <2>1
<1>7. (1 .. b) \ {b} = 1 .. (b - 1)
  BY <1>5
<1>8. it[1 .. b] \in V
  BY <1>4, <1>5, <1>6, <1>7
<1> QED BY <1>2, <1>8

\* A fold that goes from one set of values to the next ends in the last.
LEMMA FoldClimbs ==
  ASSUME NEW N \in Nat, NEW V, NEW it, it[{}] \in V[0],
         \A n \in 1 .. N : it[1 .. (n - 1)] \in V[n - 1] => it[1 .. n] \in V[n]
  PROVE  it[1 .. N] \in V[N]
<1> DEFINE Bad == {n \in 0 .. N : it[1 .. n] \notin V[n]}
<1>1. SUFFICES ASSUME Bad # {} PROVE FALSE
  OBVIOUS
<1>2. PICK b \in Bad : \A y \in Bad : b <= y
  <2>1. Bad \subseteq Nat
    OBVIOUS
  <2> QED BY <1>1, <2>1, LeastNatural
<1>3. b # 0
  <2>1. 1 .. 0 = {}
    OBVIOUS
  <2> QED BY <1>2, <2>1
<1>4. b - 1 \in 0 .. N /\ b \in 1 .. N /\ b - 1 < b
  BY <1>2, <1>3
<1>5. it[1 .. (b - 1)] \in V[b - 1]
  BY <1>2, <1>4
<1> QED BY <1>2, <1>4, <1>5

-------------------------------------------------------------------------------
(* Sums over sets.                                                         *)

\* The sum NothingLost takes of some triples: of their third parts.
Weight(S) == FoldSet(LAMBDA x, y : x[3] + y, 0, S)

\* The sets it is taken of are finite and have naturals there.
Weighed(S) == IsFiniteSet(S) /\ \A x \in S : x[3] \in Nat

Some(T) == CHOOSE x \in T : TRUE

\* The function that the sum of S is defined by.
Summing(it, S) ==
  it = [T \in SUBSET S |-> IF T = {} THEN 0 ELSE Some(T)[3] + it[T \ {Some(T)}]]

\* Sizes of sets without an element.
LEMMA OneLess ==
  ASSUME NEW T, IsFiniteSet(T), NEW x \in T
  PROVE  /\ IsFiniteSet(T \ {x}) /\ Cardinality(T) \in Nat \ {0}
         /\ Cardinality(T \ {x}) = Cardinality(T) - 1
         /\ Cardinality(T \ {x}) \in Nat
<1>1. IsFiniteSet(T \ {x}) /\ Cardinality(T \ {x}) = Cardinality(T) - 1
  BY FS_RemoveElement
<1>2. Cardinality(T) \in Nat /\ Cardinality(T \ {x}) \in Nat
  BY <1>1, FS_CardinalityType
<1> QED BY <1>1, <1>2

\* There is such a function, and it has natural values.
LEMMA SumExists ==
  ASSUME NEW S, Weighed(S)
  PROVE  \E it \in [SUBSET S -> Nat] : Summing(it, S)
<1> DEFINE D(n) == {T \in SUBSET S : Cardinality(T) <= n}
           F(it, n) == \A T \in D(n) :
                         it[T] = IF T = {} THEN 0 ELSE Some(T)[3] + it[T \ {Some(T)}]
           P(n) == \E it \in [D(n) -> Nat] : F(it, n)
<1>1. ASSUME NEW T \in SUBSET S, T # {}
      PROVE  /\ Some(T) \in T /\ Some(T)[3] \in Nat /\ T \ {Some(T)} \in SUBSET S
             /\ Cardinality(T) \in Nat \ {0}
             /\ Cardinality(T \ {Some(T)}) = Cardinality(T) - 1
  <2>1. Some(T) \in T
    BY <1>1 DEF Some
  <2>2. IsFiniteSet(T)
    BY FS_Subset DEF Weighed
  <2> QED BY <2>1, <2>2, OneLess DEF Weighed
<1>2. P(0)
  <2> DEFINE z == [T \in D(0) |-> 0]
  <2>1. ASSUME NEW T \in D(0), T # {} PROVE FALSE
    <3>1. T \in SUBSET S /\ Cardinality(T) <= 0
      OBVIOUS
    <3>2. Cardinality(T) \in Nat \ {0}
      BY <2>1, <3>1, <1>1
    <3> QED BY <3>1, <3>2
  <2>2. z \in [D(0) -> Nat] /\ F(z, 0)
    BY <2>1
  <2> QED BY <2>2
<1>3. ASSUME NEW n \in Nat, P(n) PROVE P(n + 1)
  <2>1. PICK g \in [D(n) -> Nat] : F(g, n)
    BY <1>3
  <2> DEFINE it == [T \in D(n + 1) |-> IF T = {} THEN 0 ELSE Some(T)[3] + g[T \ {Some(T)}]]
  <2>2. ASSUME NEW T \in D(n + 1), T # {}
        PROVE  T \ {Some(T)} \in D(n) /\ Some(T)[3] \in Nat
    BY <2>2, <1>1
  <2>3. D(n) \subseteq D(n + 1)
    <3> SUFFICES ASSUME NEW T \in D(n) PROVE Cardinality(T) <= n + 1
      OBVIOUS
    <3>1. T \in SUBSET S /\ Cardinality(T) <= n
      OBVIOUS
    <3>2. Cardinality(T) \in Nat
      BY <3>1, FS_Subset, FS_CardinalityType DEF Weighed
    <3> QED BY <3>1, <3>2
  <2> HIDE DEF D
  <2>4. it \in [D(n + 1) -> Nat]
    <3> SUFFICES ASSUME NEW T \in D(n + 1), T # {}
                 PROVE  Some(T)[3] + g[T \ {Some(T)}] \in Nat
      OBVIOUS
    <3>1. g[T \ {Some(T)}] \in Nat /\ Some(T)[3] \in Nat
      BY <2>1, <2>2
    <3> QED BY <3>1
  <2>5. \A T \in D(n) : it[T] = g[T]
    <3> TAKE T \in D(n)
    <3>1. it[T] = IF T = {} THEN 0 ELSE Some(T)[3] + g[T \ {Some(T)}]
      BY <2>3
    <3>2. g[T] = IF T = {} THEN 0 ELSE Some(T)[3] + g[T \ {Some(T)}]
      BY <2>1
    <3> QED BY <3>1, <3>2
  <2>6. F(it, n + 1)
    <3> SUFFICES ASSUME NEW T \in D(n + 1)
                 PROVE  it[T] = IF T = {} THEN 0 ELSE Some(T)[3] + it[T \ {Some(T)}]
      OBVIOUS
    <3>1. it[T] = IF T = {} THEN 0 ELSE Some(T)[3] + g[T \ {Some(T)}]
      OBVIOUS
    <3>2. T # {} => it[T \ {Some(T)}] = g[T \ {Some(T)}]
      BY <2>2, <2>5
    <3> HIDE DEF it
    <3> QED BY <3>1, <3>2
  <2> QED BY <2>4, <2>6
<1>4. \A n \in Nat : P(n)
  <2> DEFINE Bad == {n \in Nat : ~P(n)}
  <2> HIDE DEF P
  <2>1. SUFFICES ASSUME Bad # {} PROVE FALSE
    OBVIOUS
  <2>2. PICK b \in Bad : \A y \in Bad : b <= y
    BY <2>1, LeastNatural
  <2>3. b # 0
    BY <1>2, <2>2
  <2>4. b - 1 \in Nat /\ P(b - 1)
    BY <2>2, <2>3
  <2>5. P((b - 1) + 1)
    BY <1>3, <2>4
  <2>6. (b - 1) + 1 = b
    BY <2>2
  <2> QED BY <2>2, <2>5, <2>6
<1>5. PICK n \in Nat : n = Cardinality(S)
  BY FS_CardinalityType DEF Weighed
<1>6. D(n) = SUBSET S
  <2>1. \A T \in SUBSET S : Cardinality(T) <= n
    BY <1>5, FS_Subset DEF Weighed
  <2> QED BY <2>1
<1>7. PICK it \in [D(n) -> Nat] : F(it, n)
  BY <1>4
<1> HIDE DEF D
<1>8. it \in [SUBSET S -> Nat] /\ Summing(it, S)
  BY <1>6, <1>7 DEF Summing
<1> QED BY <1>8

\* It is the only one, on the sets that two of them have in common.
LEMMA SumsAgree ==
  ASSUME NEW S, IsFiniteSet(S), NEW R, NEW f, Summing(f, S), NEW g, Summing(g, R),
         NEW T, T \subseteq S, T \subseteq R
  PROVE  f[T] = g[T]
<1> DEFINE C == {U \in SUBSET (S \cap R) : f[U] # g[U]}
           Bad == {Cardinality(U) : U \in C}
<1>1. SUFFICES ASSUME C # {} PROVE FALSE
  OBVIOUS
<1>2. \A U \in C : IsFiniteSet(U) /\ Cardinality(U) \in Nat
  BY FS_Subset, FS_CardinalityType
<1>3. Bad \subseteq Nat /\ Bad # {}
  BY <1>1, <1>2
<1>4. PICK b \in Bad : \A y \in Bad : b <= y
  BY <1>3, LeastNatural
<1>5. PICK U \in C : Cardinality(U) = b
  BY <1>4
<1>6. U \in SUBSET S /\ U \in SUBSET R /\ f[U] # g[U] /\ IsFiniteSet(U)
  BY <1>2
<1>7. /\ f[U] = IF U = {} THEN 0 ELSE Some(U)[3] + f[U \ {Some(U)}]
      /\ g[U] = IF U = {} THEN 0 ELSE Some(U)[3] + g[U \ {Some(U)}]
  BY <1>6 DEF Summing
<1>8. U # {} /\ Some(U) \in U
  <2>1. U # {}
    BY <1>6, <1>7
  <2> QED BY <2>1 DEF Some
<1>9. PICK V : V = U \ {Some(U)}
  OBVIOUS
<1>10. Cardinality(V) = b - 1 /\ Cardinality(V) \in Nat /\ b \in Nat
  BY <1>3, <1>5, <1>6, <1>8, <1>9, OneLess
<1>11. V \in SUBSET (S \cap R) /\ f[V] # g[V]
  BY <1>6, <1>7, <1>8, <1>9
<1>12. Cardinality(V) \in Bad
  BY <1>11
<1> QED BY <1>4, <1>10, <1>12

\* The sum is what such a function has for the whole set.
LEMMA WeightSums ==
  ASSUME NEW S, Weighed(S)
  PROVE  \E it \in [SUBSET S -> Nat] : Summing(it, S) /\ Weight(S) = it[S]
<1> DEFINE E(it) ==
      it = [T \in SUBSET S |->
              IF T = {} THEN 0 ELSE LET x == CHOOSE x \in T : TRUE IN x[3] + it[T \ {x}]]
<1>1. Weight(S) = (CHOOSE it : E(it))[S]
  BY Zenon DEF Weight, FoldSet, MapThenFoldSet
<1>2. PICK g \in [SUBSET S -> Nat] : Summing(g, S)
  BY SumExists
<1>3. E(g)
  BY <1>2, Zenon DEF Summing, Some
<1>4. PICK f : f = (CHOOSE it : E(it))
  OBVIOUS
<1>5. E(f)
  <2> HIDE DEF E
  <2> QED BY <1>3, <1>4, Zenon
<1>6. Summing(f, S)
  BY <1>5, Zenon DEF Summing, Some
<1>7. \A T \in SUBSET S : f[T] = g[T]
  BY <1>2, <1>6, SumsAgree DEF Weighed
<1>8. f = [T \in SUBSET S |-> f[T]]
  BY <1>5
<1>9. f \in [SUBSET S -> Nat]
  BY <1>2, <1>7, <1>8
<1> QED BY <1>1, <1>4, <1>6, <1>9

\* The sum of zeros.
LEMMA WeightOfZeros ==
  ASSUME NEW S, Weighed(S), \A x \in S : x[3] = 0
  PROVE  Weight(S) = 0
<1> DEFINE z == [T \in SUBSET S |-> 0]
<1>1. PICK f \in [SUBSET S -> Nat] : Summing(f, S) /\ Weight(S) = f[S]
  BY WeightSums
<1>2. ASSUME NEW T \in SUBSET S, T # {}
      PROVE  Some(T)[3] = 0 /\ T \ {Some(T)} \in SUBSET S
  <2>1. Some(T) \in T
    BY <1>2 DEF Some
  <2> QED BY <2>1
<1>3. \A T \in SUBSET S : 0 = IF T = {} THEN 0 ELSE Some(T)[3] + z[T \ {Some(T)}]
  BY <1>2
<1>4. Summing(z, S)
  BY <1>3 DEF Summing
<1>5. f[S] = z[S]
  BY <1>1, <1>4, SumsAgree DEF Weighed
<1> QED BY <1>1, <1>5

\* The sum of a set by one of its elements, the one the definition takes.
LEMMA WeightIs ==
  ASSUME NEW S, Weighed(S)
  PROVE  /\ Weight(S) \in Nat
         /\ Weight(S) = IF S = {} THEN 0 ELSE Some(S)[3] + Weight(S \ {Some(S)})
<1>1. PICK f \in [SUBSET S -> Nat] : Summing(f, S) /\ Weight(S) = f[S]
  BY WeightSums
<1>2. f[S] = IF S = {} THEN 0 ELSE Some(S)[3] + f[S \ {Some(S)}]
  BY <1>1 DEF Summing
<1>3. CASE S # {}
  <2>1. PICK R : R = S \ {Some(S)}
    OBVIOUS
  <2>2. R \subseteq S /\ Weighed(R)
    BY <2>1, FS_Subset DEF Weighed
  <2>3. PICK g \in [SUBSET R -> Nat] : Summing(g, R) /\ Weight(R) = g[R]
    BY <2>2, WeightSums
  <2>4. f[R] = g[R]
    BY <1>1, <2>2, <2>3, SumsAgree DEF Weighed
  <2> QED BY <1>1, <1>2, <1>3, <2>1, <2>3, <2>4
<1> QED BY <1>1, <1>2, <1>3

\* By any of its elements.
LEMMA WeightWithout ==
  ASSUME NEW S, Weighed(S), NEW x \in S
  PROVE  Weight(S) = x[3] + Weight(S \ {x}) /\ Weight(S \ {x}) \in Nat
<1> DEFINE C == {p \in (SUBSET S) \X S :
                   p[2] \in p[1] /\ Weight(p[1]) # p[2][3] + Weight(p[1] \ {p[2]})}
           Bad == {Cardinality(p[1]) : p \in C}
<1>0. \A R \in SUBSET S : Weighed(R) /\ Weight(R) \in Nat
  <2> TAKE R \in SUBSET S
  <2>1. Weighed(R)
    BY FS_Subset DEF Weighed
  <2> QED BY <2>1, WeightIs
<1>1. C = {}
  <2> SUFFICES ASSUME C # {} PROVE FALSE
    OBVIOUS
  <2>1. \A p \in C : IsFiniteSet(p[1]) /\ Cardinality(p[1]) \in Nat
    BY <1>0, FS_CardinalityType DEF Weighed
  <2>2. Bad \subseteq Nat /\ Bad # {}
    BY <2>1
  <2>3. PICK b \in Bad : \A y \in Bad : b <= y
    BY <2>2, LeastNatural
  <2>4. PICK p \in C : Cardinality(p[1]) = b
    BY <2>3
  <2>5. PICK T, y, c : T = p[1] /\ y = p[2] /\ c = Some(T)
    OBVIOUS
  <2>6. /\ T \in SUBSET S /\ y \in T /\ y \in S /\ Cardinality(T) = b /\ b \in Nat
        /\ Weight(T) # y[3] + Weight(T \ {y})
    BY <2>2, <2>3, <2>4, <2>5
  <2>7. c \in T /\ c \in S /\ T # {}
    BY <2>5, <2>6 DEF Some
  <2>8. Weight(T) = c[3] + Weight(T \ {c})
    BY <1>0, <2>5, <2>6, <2>7, WeightIs
  <2>9. c # y
    BY <2>6, <2>8
  <2>10. PICK U, V, W : U = T \ {c} /\ V = T \ {y} /\ W = T \ {c, y}
    OBVIOUS
  <2>11. /\ U \in SUBSET S /\ V \in SUBSET S /\ W \in SUBSET S /\ y \in U /\ c \in V
         /\ U \ {y} = W /\ V \ {c} = W
    BY <2>6, <2>7, <2>9, <2>10
  <2>12. IsFiniteSet(T)
    BY <1>0, <2>6 DEF Weighed
  <2>13. Cardinality(U) < b /\ Cardinality(V) < b
    <3>1. Cardinality(U) = b - 1 /\ Cardinality(V) = b - 1
      BY <2>6, <2>7, <2>10, <2>12, OneLess
    <3> QED BY <2>6, <3>1
  <2>14. ASSUME NEW R \in SUBSET S, NEW z \in R, Cardinality(R) < b
         PROVE  Weight(R) = z[3] + Weight(R \ {z})
    <3> SUFFICES ASSUME Weight(R) # z[3] + Weight(R \ {z}) PROVE FALSE
      OBVIOUS
    <3>1. PICK q : q = <<R, z>>
      OBVIOUS
    <3>2. q \in (SUBSET S) \X S /\ q[1] = R /\ q[2] = z
      BY <3>1
    <3>3. q \in C
      BY <3>2
    <3>4. Cardinality(R) \in Bad
      BY <3>2, <3>3
    <3> HIDE DEF C, Bad
    <3>5. Cardinality(R) \in Nat /\ b <= Cardinality(R)
      BY <2>2, <2>3, <3>4
    <3> QED BY <2>6, <2>14, <3>5
  <2>15. Weight(U) = y[3] + Weight(W) /\ Weight(V) = c[3] + Weight(W)
    BY <2>11, <2>13, <2>14
  <2>16. y[3] \in Nat /\ c[3] \in Nat /\ Weight(W) \in Nat
    BY <1>0, <2>6, <2>7, <2>11 DEF Weighed
  <2> QED BY <2>6, <2>8, <2>10, <2>15, <2>16
<1>2. PICK q : q = <<S, x>>
  OBVIOUS
<1>3. q \in (SUBSET S) \X S /\ q[1] = S /\ q[2] = x
  BY <1>2
<1>4. Weight(S) = x[3] + Weight(S \ {x})
  BY <1>1, <1>3
<1> QED BY <1>0, <1>4

\* One triple more.
LEMMA WeightWith ==
  ASSUME NEW S, Weighed(S), NEW x, x \notin S, x[3] \in Nat
  PROVE  Weighed(S \cup {x}) /\ Weight(S \cup {x}) = Weight(S) + x[3] /\ Weight(S) \in Nat
<1>1. PICK T : T = S \cup {x}
  OBVIOUS
<1>2. Weighed(T)
  BY <1>1, FS_AddElement DEF Weighed
<1>3. T \ {x} = S /\ x \in T
  BY <1>1
<1>4. Weight(T) = x[3] + Weight(S) /\ Weight(S) \in Nat
  BY <1>2, <1>3, WeightWithout
<1> QED BY <1>1, <1>2, <1>4

\* Triples with a tag and an index.
Triples(g, I, e) == {<<g, i, e[i]>> : i \in I}

\* Their third parts are naturals if the function's values are.
LEMMA TriplesWeighed ==
  ASSUME NEW I, IsFiniteSet(I), NEW g, NEW e, \A i \in I : e[i] \in Nat
  PROVE  Weighed(Triples(g, I, e))
<1> DEFINE s == [i \in I |-> <<g, i, e[i]>>]
<1>1. s \in Surjection(I, Triples(g, I, e))
  BY Zenon DEF Surjection, Triples
<1>2. IsFiniteSet(Triples(g, I, e))
  <2> HIDE DEF s
  <2> QED BY <1>1, FS_Surjection
<1>3. \A x \in Triples(g, I, e) : x[3] \in Nat
  BY DEF Triples
<1> QED BY <1>2, <1>3 DEF Weighed

\* One entry is another.
LEMMA WeightChanges ==
  ASSUME NEW I, IsFiniteSet(I), NEW g, NEW f, NEW h, \A i \in I : f[i] \in Nat /\ h[i] \in Nat,
         NEW k \in I, \A i \in I : i # k => f[i] = h[i]
  PROVE  /\ Weight(Triples(g, I, f)) \in Nat /\ Weight(Triples(g, I, h)) \in Nat
         /\ Weight(Triples(g, I, h)) + f[k] = Weight(Triples(g, I, f)) + h[k]
<1> DEFINE Of(e) == Triples(g, I, e)
           Rest == {<<g, i, f[i]>> : i \in I \ {k}}
<1>1. ASSUME NEW e, \A i \in I : e[i] \in Nat
      PROVE  Weighed(Of(e))
  BY <1>1, TriplesWeighed
<1>2. ASSUME NEW e, \A i \in I : i # k => f[i] = e[i]
      PROVE  Of(e) \ {<<g, k, e[k]>>} = Rest /\ <<g, k, e[k]>> \in Of(e)
  <2>1. \A i \in I : i # k => <<g, i, e[i]>> = <<g, i, f[i]>> /\ <<g, i, e[i]>> # <<g, k, e[k]>>
    BY <1>2
  <2> QED BY <2>1 DEF Triples
<1> HIDE DEF Of, Rest
<1>3. Weighed(Of(f)) /\ Weighed(Of(h))
  BY <1>1
<1>4. <<g, k, f[k]>>[3] = f[k] /\ <<g, k, h[k]>>[3] = h[k] /\ f[k] \in Nat /\ h[k] \in Nat
  OBVIOUS
<1>5. Weight(Of(f)) = f[k] + Weight(Rest) /\ Weight(Rest) \in Nat
  <2>1. PICK x : x = <<g, k, f[k]>>
    OBVIOUS
  <2>2. x \in Of(f) /\ Of(f) \ {x} = Rest /\ x[3] = f[k]
    BY <1>2, <1>4, <2>1
  <2> QED BY <1>3, <2>2, WeightWithout
<1>6. Weight(Of(h)) = h[k] + Weight(Rest)
  <2>1. PICK x : x = <<g, k, h[k]>>
    OBVIOUS
  <2>2. x \in Of(h) /\ Of(h) \ {x} = Rest /\ x[3] = h[k]
    BY <1>2, <1>4, <2>1
  <2> QED BY <1>3, <2>2, WeightWithout
<1>7. Weight(Of(h)) + f[k] = Weight(Of(f)) + h[k] /\ Weight(Of(f)) \in Nat /\ Weight(Of(h)) \in Nat
  BY <1>4, <1>5, <1>6
<1> QED BY <1>7 DEF Of

-------------------------------------------------------------------------------
(* Tables of free spaces.                                                  *)

\* Two ranges of units do not overlap.
Apart(a, n, b, k) == a + n <= b \/ b + k <= a

\* A block lies in the heap.
InHeap(a, n) == HeapStart <= a /\ a + n <= HeapStart + HeapSize

Blks == Nat \X (Nat \ {0})

\* What empty entries look like, and where the spaces are.
Entries(t) ==
  \A i \in Slot : IF t[i].size = 0 THEN t[i].addr = 0 ELSE InHeap(t[i].addr, t[i].size)

\* Spaces do not overlap each other.
SpacesApart(t) ==
  \A i, j \in Slot : i # j /\ t[i].size # 0 /\ t[j].size # 0
                       => Apart(t[i].addr, t[i].size, t[j].addr, t[j].size)

\* No space overlaps a block of C.
Avoids(t, C) ==
  \A i \in Slot : t[i].size # 0 => \A c \in C : Apart(t[i].addr, t[i].size, c[1], c[2])

\* The sizes of the spaces, of which NothingLost takes the sum.
FreeSizes(t) == {<<"free", i, t[i].size>> : i \in Slot}

\* The tables that may be there while the blocks of C are handed out, with so many
\* units in their spaces.
Tables(C, free) ==
  {t \in [Slot -> Space] :
     Entries(t) /\ SpacesApart(t) /\ Avoids(t, C) /\ Weight(FreeSizes(t)) = free}

\* A block lies in the heap and clear of those of C.
Fresh(a, n, C) ==
  /\ a \in Nat /\ n \in Nat \ {0} /\ InHeap(a, n)
  /\ \A c \in C : Apart(a, n, c[1], c[2])

\* The constants are naturals.
LEMMA Constants ==
  /\ HeapStart \in Nat /\ 0 < HeapStart /\ HeapSize \in Nat /\ 0 < HeapSize
  /\ Slots \in Nat /\ 1 <= Slots /\ Quick \in Nat /\ Close \in Nat /\ Passes \in Nat
  /\ Slot = 1 .. Slots /\ Slot \subseteq Nat /\ 1 \in Slot /\ Slots \in Slot
  /\ NoSlot = 0 /\ 0 \notin Slot /\ NULL = 0
BY MemaAssumption DEF Slot, NoSlot, NULL

\* Entries have natural numbers, NoSpace is an empty one.
LEMMA EntryTypes ==
  /\ \A C, free : \A t \in Tables(C, free) :
       /\ t \in [Slot -> Space]
       /\ \A i \in Slot : t[i].addr \in Nat /\ t[i].size \in Nat
  /\ NoSpace \in Space /\ NoSpace.size = 0 /\ NoSpace.addr = 0
BY DEF Tables, Space, NoSpace

\* SmallestIn finds the least element.
LEMMA SmallestIs ==
  ASSUME NEW T, T \subseteq Nat, T # {}
  PROVE  SmallestIn(T) \in T
<1>1. \E x \in T : \A y \in T : x <= y
  BY LeastNatural
<1> QED BY <1>1 DEF SmallestIn

\* One entry is changed.
LEMMA OneEntry ==
  ASSUME NEW t \in [Slot -> Space], NEW u \in [Slot -> Space], NEW k \in Slot,
         \A i \in Slot : i # k => u[i] = t[i]
  PROVE  /\ Weight(FreeSizes(t)) \in Nat /\ Weight(FreeSizes(u)) \in Nat
         /\ Weight(FreeSizes(u)) + t[k].size = Weight(FreeSizes(t)) + u[k].size
<1> DEFINE f == [i \in Slot |-> t[i].size]
           h == [i \in Slot |-> u[i].size]
           Of(e) == Triples("free", Slot, e)
<1>1. IsFiniteSet(Slot)
  BY Constants, FS_Interval
<1>2. /\ \A i \in Slot : f[i] = t[i].size /\ h[i] = u[i].size
      /\ \A i \in Slot : f[i] \in Nat /\ h[i] \in Nat
      /\ \A i \in Slot : i # k => f[i] = h[i]
  BY DEF Space
<1>3. Of(f) = FreeSizes(t) /\ Of(h) = FreeSizes(u)
  <2> HIDE DEF f, h
  <2> QED BY <1>2 DEF FreeSizes, Triples
<1> HIDE DEF f, h
<1>4. /\ Weight(Of(f)) \in Nat /\ Weight(Of(h)) \in Nat
      /\ Weight(Of(h)) + f[k] = Weight(Of(f)) + h[k]
  BY <1>1, <1>2, WeightChanges
<1> HIDE DEF Of
<1> QED BY <1>2, <1>3, <1>4

\* Two entries are changed.
LEMMA TwoEntries ==
  ASSUME NEW t \in [Slot -> Space], NEW u \in [Slot -> Space], NEW i \in Slot, NEW j \in Slot,
         i # j, \A k \in Slot : k # i /\ k # j => u[k] = t[k],
         u[i].size + u[j].size = t[i].size + t[j].size
  PROVE  Weight(FreeSizes(u)) = Weight(FreeSizes(t))
<1>1. PICK v : v = [t EXCEPT ![i] = u[i]]
  OBVIOUS
<1>2. v \in [Slot -> Space] /\ v[i] = u[i] /\ v[j] = t[j]
      /\ (\A k \in Slot : k # i => v[k] = t[k]) /\ (\A k \in Slot : k # j => u[k] = v[k])
  BY <1>1
<1>3. \A k \in Slot : t[k].size \in Nat /\ u[k].size \in Nat
  BY DEF Space
<1>4. /\ Weight(FreeSizes(t)) \in Nat /\ Weight(FreeSizes(v)) \in Nat
      /\ Weight(FreeSizes(v)) + t[i].size = Weight(FreeSizes(t)) + v[i].size
  BY <1>2, OneEntry
<1>5. /\ Weight(FreeSizes(u)) \in Nat
      /\ Weight(FreeSizes(u)) + v[j].size = Weight(FreeSizes(v)) + u[j].size
  BY <1>2, OneEntry
<1> QED BY <1>2, <1>3, <1>4, <1>5

\* Exchanging two entries.
LEMMA SwapKeeps ==
  ASSUME NEW C, NEW free, NEW t \in Tables(C, free), NEW i \in Slot, NEW j \in Slot
  PROVE  Swapped(t, i, j) \in Tables(C, free)
<1> DEFINE u == Swapped(t, i, j)
           p == [k \in Slot |-> IF k = i /\ i # j THEN j ELSE IF k = j THEN i ELSE k]
<1>1. t \in [Slot -> Space] /\ Entries(t) /\ SpacesApart(t) /\ Avoids(t, C)
  BY DEF Tables
<1>2. u \in [Slot -> Space]
  BY <1>1 DEF Swapped
<1>3. \A k \in Slot : p[k] \in Slot /\ u[k] = t[p[k]]
  BY <1>1 DEF Swapped
<1>4. \A k, l \in Slot : k # l => p[k] # p[l]
  OBVIOUS
<1> HIDE DEF u, p
<1>5. Entries(u)
  BY <1>1, <1>3 DEF Entries
<1>6. SpacesApart(u)
  BY <1>1, <1>3, <1>4 DEF SpacesApart
<1>7. Avoids(u, C)
  BY <1>1, <1>3 DEF Avoids
<1>8. Weight(FreeSizes(u)) = Weight(FreeSizes(t))
  <2>1. CASE i = j
    <3>1. u = t
      BY <2>1, <1>1, <1>2, <1>3 DEF p
    <3> QED BY <3>1
  <2>2. CASE i # j
    <3>1. u[i] = t[j] /\ u[j] = t[i] /\ \A k \in Slot : k # i /\ k # j => u[k] = t[k]
      BY <2>2, <1>3 DEF p
    <3>2. t[i].size \in Nat /\ t[j].size \in Nat
      BY EntryTypes
    <3> QED BY <2>2, <3>1, <3>2, <1>1, <1>2, TwoEntries
  <2> QED BY <2>1, <2>2
<1>9. u \in Tables(C, free)
  BY <1>2, <1>5, <1>6, <1>7, <1>8 DEF Tables
<1> QED BY <1>9 DEF u

\* Joining a space to the one before it.
LEMMA MergeKeeps ==
  ASSUME NEW C \in SUBSET Blks, NEW free, NEW t \in Tables(C, free),
         NEW i \in Slot, NEW j \in Slot, i # j,
         t[i].size # 0, t[j].size # 0, Follows(t, i, j)
  PROVE  /\ Merged(t, i, j) \in Tables(C, free)
         /\ Merged(t, i, j)[i].size # 0
<1> DEFINE u == Merged(t, i, j)
<1>1. t \in [Slot -> Space] /\ Entries(t) /\ SpacesApart(t) /\ Avoids(t, C)
  BY DEF Tables
<1>2. t[i].addr \in Nat /\ t[i].size \in Nat /\ t[j].addr \in Nat /\ t[j].size \in Nat
  BY EntryTypes
<1>3. u[i].addr = t[i].addr /\ u[i].size = t[i].size + t[j].size /\ u[j] = NoSpace
  BY <1>1 DEF Merged, Space
<1>4. \A k \in Slot : k # i /\ k # j => u[k] = t[k]
  BY <1>1 DEF Merged
<1>5. u \in [Slot -> Space]
  <2>1. [t EXCEPT ![i].size = @ + t[j].size] \in [Slot -> Space]
    BY <1>1, <1>2 DEF Space
  <2> QED BY <2>1, EntryTypes DEF Merged
<1>6. t[i].addr + t[i].size = t[j].addr
  BY DEF Follows
<1> HIDE DEF u
<1>7. u[j].size = 0 /\ u[j].addr = 0 /\ u[i].size # 0
  BY <1>2, <1>3, EntryTypes
<1>8. Entries(u)
  <2> SUFFICES ASSUME NEW k \in Slot
               PROVE  IF u[k].size = 0 THEN u[k].addr = 0 ELSE InHeap(u[k].addr, u[k].size)
    BY DEF Entries
  <2>1. CASE k = j
    BY <2>1, <1>7
  <2>2. CASE k = i
    <3>1. InHeap(t[i].addr, t[i].size) /\ InHeap(t[j].addr, t[j].size)
      BY <1>1 DEF Entries
    <3>2. InHeap(u[i].addr, u[i].size)
      BY <3>1, <1>2, <1>3, <1>6, Constants DEF InHeap
    <3> QED BY <2>2, <3>2, <1>7
  <2>3. CASE k # i /\ k # j
    BY <2>3, <1>1, <1>4 DEF Entries
  <2> QED BY <2>1, <2>2, <2>3
<1>9. ASSUME NEW k \in Slot, k # i, u[k].size # 0
      PROVE  Apart(u[i].addr, u[i].size, u[k].addr, u[k].size)
  <2>1. k # j /\ u[k] = t[k]
    BY <1>9, <1>4, <1>7
  <2>2. Apart(t[i].addr, t[i].size, t[k].addr, t[k].size)
    BY <1>1, <1>9, <2>1 DEF SpacesApart
  <2>3. Apart(t[j].addr, t[j].size, t[k].addr, t[k].size)
    BY <1>1, <1>9, <2>1 DEF SpacesApart
  <2>4. t[k].addr \in Nat /\ t[k].size \in Nat /\ t[k].size # 0
    BY <1>9, <2>1, EntryTypes
  <2> QED BY <2>1, <2>2, <2>3, <2>4, <1>2, <1>3, <1>6 DEF Apart
<1>10. SpacesApart(u)
  <2> SUFFICES ASSUME NEW k \in Slot, NEW l \in Slot, k # l, u[k].size # 0, u[l].size # 0
               PROVE  Apart(u[k].addr, u[k].size, u[l].addr, u[l].size)
    BY DEF SpacesApart
  <2>1. CASE k = i
    BY <2>1, <1>9
  <2>2. CASE l = i
    <3>1. Apart(u[i].addr, u[i].size, u[k].addr, u[k].size)
      BY <2>2, <1>9
    <3> QED BY <3>1, <2>2 DEF Apart
  <2>3. CASE k # i /\ l # i
    <3>1. u[k] = t[k] /\ u[l] = t[l]
      BY <2>3, <1>4, <1>7
    <3> QED BY <3>1, <1>1 DEF SpacesApart
  <2> QED BY <2>1, <2>2, <2>3
<1>11. Avoids(u, C)
  <2> SUFFICES ASSUME NEW k \in Slot, u[k].size # 0, NEW c \in C
               PROVE  Apart(u[k].addr, u[k].size, c[1], c[2])
    BY DEF Avoids
  <2>1. CASE k = i
    <3>1. /\ Apart(t[i].addr, t[i].size, c[1], c[2])
          /\ Apart(t[j].addr, t[j].size, c[1], c[2])
      BY <1>1 DEF Avoids
    <3>2. c[1] \in Nat /\ c[2] \in Nat /\ c[2] # 0
      BY DEF Blks
    <3> QED BY <2>1, <3>1, <3>2, <1>2, <1>3, <1>6 DEF Apart
  <2>2. CASE k # i
    <3>1. u[k] = t[k]
      BY <2>2, <1>4, <1>7
    <3> QED BY <3>1, <1>1 DEF Avoids
  <2> QED BY <2>1, <2>2
<1>12. Weight(FreeSizes(u)) = Weight(FreeSizes(t))
  BY <1>1, <1>2, <1>3, <1>4, <1>5, <1>7, TwoEntries
<1>13. u \in Tables(C, free)
  BY <1>5, <1>8, <1>10, <1>11, <1>12 DEF Tables
<1> QED BY <1>7, <1>13 DEF u

\* An entry is overwritten by a block that is clear of the other spaces and of C.
LEMMA PutKeeps ==
  ASSUME NEW C, NEW a, NEW n, Fresh(a, n, C),
         NEW free, NEW t \in Tables(C \cup {<<a, n>>}, free), NEW i \in Slot
  PROVE  [t EXCEPT ![i] = [addr |-> a, size |-> n]] \in Tables(C, free + n - t[i].size)
<1> DEFINE u == [t EXCEPT ![i] = [addr |-> a, size |-> n]]
<1>1. t \in [Slot -> Space] /\ Entries(t) /\ SpacesApart(t) /\ Avoids(t, C \cup {<<a, n>>})
  BY DEF Tables
<1>2. [addr |-> a, size |-> n] \in Space
  BY DEF Fresh, Space
<1>3. /\ u \in [Slot -> Space]
      /\ u[i].addr = a /\ u[i].size = n
      /\ \A k \in Slot : k # i => u[k] = t[k]
  BY <1>1, <1>2
<1> HIDE DEF u
<1>4. a \in Nat /\ n \in Nat /\ n # 0 /\ InHeap(a, n) /\ \A c \in C : Apart(a, n, c[1], c[2])
  BY DEF Fresh
<1>5. \A k \in Slot : k # i /\ u[k].size # 0 => Apart(u[k].addr, u[k].size, a, n)
  <2>1. <<a, n>>[1] = a /\ <<a, n>>[2] = n
    OBVIOUS
  <2> QED BY <1>1, <1>3, <2>1 DEF Avoids
<1>6. Entries(u)
  BY <1>1, <1>3, <1>4 DEF Entries
<1>7. SpacesApart(u)
  <2> SUFFICES ASSUME NEW k \in Slot, NEW l \in Slot, k # l, u[k].size # 0, u[l].size # 0
               PROVE  Apart(u[k].addr, u[k].size, u[l].addr, u[l].size)
    BY DEF SpacesApart
  <2>1. CASE k = i
    <3>1. Apart(u[l].addr, u[l].size, a, n)
      BY <2>1, <1>5
    <3> QED BY <3>1, <2>1, <1>3 DEF Apart
  <2>2. CASE l = i
    BY <2>2, <1>3, <1>5
  <2>3. CASE k # i /\ l # i
    BY <2>3, <1>1, <1>3 DEF SpacesApart
  <2> QED BY <2>1, <2>2, <2>3
<1>8. Avoids(u, C)
  <2>1. \A c \in C : c \in C \cup {<<a, n>>}
    OBVIOUS
  <2> QED BY <1>1, <1>3, <1>4, <2>1 DEF Avoids
<1>9. Weight(FreeSizes(u)) = free + n - t[i].size
  <2>1. /\ Weight(FreeSizes(t)) \in Nat /\ Weight(FreeSizes(u)) \in Nat
        /\ Weight(FreeSizes(u)) + t[i].size = Weight(FreeSizes(t)) + u[i].size
    BY <1>1, <1>3, OneEntry
  <2>2. t[i].size \in Nat /\ Weight(FreeSizes(t)) = free
    BY EntryTypes DEF Tables
  <2> QED BY <2>1, <2>2, <1>3, <1>4
<1>10. u \in Tables(C, free + n - t[i].size)
  BY <1>3, <1>6, <1>7, <1>8, <1>9 DEF Tables
<1> QED BY <1>10 DEF u

\* Taking the front of a space hands out a block clear of all others.
LEMMA TakeHandsOut ==
  ASSUME NEW C \in SUBSET Blks, NEW free, NEW t \in Tables(C, free),
         NEW i \in Slot, NEW n \in Nat \ {0}, t[i].size >= n
  PROVE  /\ Taken(t, i, n) \in Tables(C \cup {<<t[i].addr, n>>}, free - n)
         /\ Fresh(t[i].addr, n, C)
         /\ t[i].addr # NULL
<1> DEFINE u == Taken(t, i, n)
           a == t[i].addr
           z == t[i].size
<1>1. t \in [Slot -> Space] /\ Entries(t) /\ SpacesApart(t) /\ Avoids(t, C)
  BY DEF Tables
<1>2. a \in Nat /\ z \in Nat /\ z # 0 /\ z >= n /\ n \in Nat /\ n # 0
  BY EntryTypes
<1>3. InHeap(a, z)
  BY <1>1, <1>2 DEF Entries
<1>4. \A k \in Slot : k # i => u[k] = t[k]
  BY <1>1 DEF Taken
<1>5. u[i] = IF z = n THEN NoSpace ELSE [addr |-> a + n, size |-> z - n]
  BY <1>1 DEF Taken
<1>6. u[i].size # 0 => u[i].addr = a + n /\ u[i].size = z - n
  BY <1>5, EntryTypes
<1>7. u[i] \in Space
  <2>1. z # n => a + n \in Nat /\ z - n \in Nat
    BY <1>2
  <2> QED BY <2>1, <1>5, EntryTypes DEF Space
<1>8. u \in [Slot -> Space]
  <2>1. u = [t EXCEPT ![i] = u[i]]
    BY <1>1 DEF Taken
  <2> HIDE DEF u
  <2> QED BY <2>1, <1>1, <1>7
<1>9. u[i].size = 0 => u[i].addr = 0
  <2>1. z # n => z - n # 0
    BY <1>2
  <2> QED BY <2>1, <1>5, EntryTypes
<1> HIDE DEF u
<1>10. PICK A, Z : A = a /\ Z = z
  OBVIOUS
<1>11. A \in Nat /\ Z \in Nat /\ InHeap(A, Z)
  BY <1>2, <1>3, <1>10
<1>12. Fresh(A, n, {}) /\ A # 0
  BY <1>2, <1>10, <1>11, Constants DEF Fresh, InHeap
<1>13. Entries(u)
  <2> SUFFICES ASSUME NEW k \in Slot
               PROVE  IF u[k].size = 0 THEN u[k].addr = 0 ELSE InHeap(u[k].addr, u[k].size)
    BY DEF Entries
  <2>1. CASE k = i
    <3>1. u[i].size # 0 => InHeap(A + n, Z - n)
      BY <1>2, <1>10, <1>11, Constants DEF InHeap
    <3> QED BY <2>1, <3>1, <1>6, <1>9, <1>10
  <2>2. CASE k # i
    BY <2>2, <1>1, <1>4 DEF Entries
  <2> QED BY <2>1, <2>2
<1>14. ASSUME NEW k \in Slot, k # i, u[k].size # 0
       PROVE  Apart(A, Z, u[k].addr, u[k].size) /\ u[k].addr \in Nat /\ u[k].size \in Nat
  BY <1>14, <1>1, <1>2, <1>4, <1>10, EntryTypes DEF SpacesApart
<1>15. SpacesApart(u)
  <2> SUFFICES ASSUME NEW k \in Slot, NEW l \in Slot, k # l, u[k].size # 0, u[l].size # 0
               PROVE  Apart(u[k].addr, u[k].size, u[l].addr, u[l].size)
    BY DEF SpacesApart
  <2>1. CASE k = i
    <3>1. Apart(A, Z, u[l].addr, u[l].size) /\ u[l].addr \in Nat /\ u[l].size \in Nat
      BY <2>1, <1>14
    <3>2. u[k].addr = A + n /\ u[k].size = Z - n
      BY <2>1, <1>6, <1>10
    <3> QED BY <3>1, <3>2, <1>2, <1>10, <1>11 DEF Apart
  <2>2. CASE l = i
    <3>1. Apart(A, Z, u[k].addr, u[k].size) /\ u[k].addr \in Nat /\ u[k].size \in Nat
      BY <2>2, <1>14
    <3>2. u[l].addr = A + n /\ u[l].size = Z - n
      BY <2>2, <1>6, <1>10
    <3> QED BY <3>1, <3>2, <1>2, <1>10, <1>11 DEF Apart
  <2>3. CASE k # i /\ l # i
    BY <2>3, <1>1, <1>4 DEF SpacesApart
  <2> QED BY <2>1, <2>2, <2>3
<1>16. \A c \in C : Apart(A, Z, c[1], c[2])
  BY <1>1, <1>2, <1>10 DEF Avoids
<1>17. Avoids(u, {<<A, n>>})
  <2> SUFFICES ASSUME NEW k \in Slot, u[k].size # 0
               PROVE  Apart(u[k].addr, u[k].size, A, n)
    BY DEF Avoids
  <2>1. CASE k = i
    BY <2>1, <1>6, <1>10, <1>2, <1>11 DEF Apart
  <2>2. CASE k # i
    <3>1. Apart(A, Z, u[k].addr, u[k].size) /\ u[k].addr \in Nat /\ u[k].size \in Nat
      BY <2>2, <1>14
    <3> QED BY <3>1, <1>2, <1>10, <1>11 DEF Apart
  <2> QED BY <2>1, <2>2
<1>18. Avoids(u, C) /\ Fresh(A, n, C)
  <2>1. \A c \in C : c[1] \in Nat /\ c[2] \in Nat /\ c[2] # 0
    BY DEF Blks
  <2>2. \A c \in C : Apart(A, n, c[1], c[2])
    BY <2>1, <1>16, <1>2, <1>10, <1>11 DEF Apart
  <2>3. Fresh(A, n, C)
    BY <2>2, <1>12 DEF Fresh
  <2>4. \A c \in C : u[i].size # 0 => Apart(u[i].addr, u[i].size, c[1], c[2])
    BY <2>1, <1>16, <1>2, <1>6, <1>10, <1>11 DEF Apart
  <2>5. Avoids(u, C)
    BY <2>4, <1>1, <1>4 DEF Avoids
  <2> QED BY <2>3, <2>5
<1>19. Avoids(u, C \cup {<<A, n>>})
  BY <1>17, <1>18 DEF Avoids
<1>20. Weight(FreeSizes(u)) = free - n
  <2>1. u[i].size = z - n
    BY <1>2, <1>5, EntryTypes
  <2>2. /\ Weight(FreeSizes(t)) \in Nat /\ Weight(FreeSizes(u)) \in Nat
        /\ Weight(FreeSizes(u)) + t[i].size = Weight(FreeSizes(t)) + u[i].size
    BY <1>1, <1>4, <1>8, OneEntry
  <2>3. Weight(FreeSizes(t)) = free
    BY DEF Tables
  <2> QED BY <2>1, <2>2, <2>3, <1>2
<1>21. u \in Tables(C \cup {<<A, n>>}, free - n)
  BY <1>8, <1>13, <1>15, <1>19, <1>20 DEF Tables
<1>22. Fresh(A, n, C) /\ A # NULL
  BY <1>12, <1>18, Constants
<1> QED BY <1>10, <1>21, <1>22 DEF u

-------------------------------------------------------------------------------
(* The allocator's operations.                                             *)

\* A step of a pass keeps such tables, whatever entry it looks at.
PassStates(C, free) ==
  {s \in [table : Tables(C, free), prev : {NoSlot} \cup Slot, any : BOOLEAN] :
     s.prev # NoSlot => s.table[s.prev].size # 0}

\* One entry of a pass.
LEMMA PassStepKeeps ==
  ASSUME NEW C \in SUBSET Blks, NEW free, NEW s \in PassStates(C, free), NEW i \in Slot
  PROVE  PassStep(s, i) \in PassStates(C, free)
<1> DEFINE t == s.table
           p == s.prev
           Q == [table : Tables(C, free), prev : {NoSlot} \cup Slot, any : BOOLEAN]
<1>1. /\ s \in Q /\ t \in Tables(C, free) /\ (p = NoSlot \/ p \in Slot)
      /\ (p # NoSlot => t[p].size # 0)
  BY DEF PassStates
<1>2. t \in [Slot -> Space] /\ \A k \in Slot : t[k].addr \in Nat /\ t[k].size \in Nat
  BY <1>1, EntryTypes
<1>3. CASE t[i].size = 0
  <2>1. PassStep(s, i) = s
    BY <1>3 DEF PassStep
  <2> QED BY <2>1
<1>4. CASE t[i].size # 0 /\ p # NoSlot /\ t[i].addr < t[p].addr
  <2> DEFINE u == [s EXCEPT !.table = Swapped(@, i, p), !.prev = i]
  <2>1. PassStep(s, i) = u
    BY <1>4 DEF PassStep
  <2>2. u.table = Swapped(t, i, p) /\ u.prev = i /\ u.any = s.any /\ u \in Q
    BY <1>1, <1>4, SwapKeeps
  <2>3. Swapped(t, i, p)[i] = t[p]
    BY <1>1, <1>2, <1>4 DEF Swapped
  <2> HIDE DEF u
  <2>4. u \in PassStates(C, free)
    BY <2>2, <2>3, <1>1, <1>4 DEF PassStates
  <2> QED BY <2>1, <2>4
<1>5. CASE /\ t[i].size # 0 /\ ~(p # NoSlot /\ t[i].addr < t[p].addr)
           /\ p # NoSlot /\ Follows(t, p, i)
  <2> DEFINE u == [s EXCEPT !.table = Merged(@, p, i), !.any = TRUE]
  <2>1. PassStep(s, i) = u
    BY <1>5 DEF PassStep
  <2>2. p # i
    BY <1>1, <1>2, <1>5 DEF Follows
  <2>3. Merged(t, p, i) \in Tables(C, free) /\ Merged(t, p, i)[p].size # 0
    BY <1>1, <1>5, <2>2, MergeKeeps
  <2>4. u.table = Merged(t, p, i) /\ u.prev = p /\ u \in Q
    BY <1>1, <2>3
  <2> HIDE DEF u
  <2>5. u \in PassStates(C, free)
    BY <2>3, <2>4 DEF PassStates
  <2> QED BY <2>1, <2>5
<1>6. CASE /\ t[i].size # 0 /\ ~(p # NoSlot /\ t[i].addr < t[p].addr)
           /\ ~(p # NoSlot /\ Follows(t, p, i))
  <2> DEFINE u == [s EXCEPT !.prev = i]
  <2>1. PassStep(s, i) = u
    BY <1>6 DEF PassStep
  <2>2. u.table = t /\ u.prev = i /\ u \in Q
    BY <1>1
  <2> HIDE DEF u
  <2>3. u \in PassStates(C, free)
    BY <2>2, <1>6 DEF PassStates
  <2> QED BY <2>1, <2>3
<1> QED BY <1>3, <1>4, <1>5, <1>6

\* A pass keeps the spaces apart from each other and from what is handed out.
LEMMA PassKeeps ==
  ASSUME NEW C \in SUBSET Blks, NEW free, NEW t \in Tables(C, free)
  PROVE  DefragPass(t) \in PassStates(C, free) /\ DefragPass(t).table \in Tables(C, free)
<1> DEFINE V == PassStates(C, free)
           base == [table |-> t, prev |-> NoSlot, any |-> FALSE]
           seq == [i \in Slot |-> i]
           h == [x \in V \X Slot |-> PassStep(x[1], x[2])]
           Eq(it) == it = [s \in SUBSET DOMAIN seq |->
                             IF s = {} THEN base ELSE PassStep(it[s \ {Max(s)}], seq[Max(s)])]
<1>1. base \in V
  BY DEF PassStates
<1>2. h \in [V \X Slot -> V]
  BY PassStepKeeps
<1>3. /\ DOMAIN seq = Slot /\ \A i \in Slot : seq[i] = i
      /\ Slots \in Nat /\ Slot = 1 .. Slots
  BY Constants
<1>4. DefragPass(t) = (CHOOSE it : Eq(it))[Slot]
  BY <1>3, Zenon DEF DefragPass, FoldLeft, MapThenFoldSet
<1> HIDE DEF V, base, seq, h
<1>5. \A s \in SUBSET Slot : s # {} => Max(s) \in Slot /\ s \ {Max(s)} \in SUBSET Slot
  BY <1>3, LastOf
<1>6. PICK g \in [SUBSET Slot -> V] : Folding(g, Slots, base, h)
  BY <1>1, <1>2, <1>3, FoldExists
<1>7. Eq(g)
  <2>1. ASSUME NEW s \in SUBSET Slot
        PROVE  g[s] = IF s = {} THEN base ELSE PassStep(g[s \ {Max(s)}], seq[Max(s)])
    <3>1. CASE s = {}
      BY <3>1, <1>6, <1>3 DEF Folding
    <3>2. CASE s # {}
      <4>1. Max(s) \in Slot /\ g[s \ {Max(s)}] \in V
        BY <3>2, <1>5, <1>6
      <4>2. h[<<g[s \ {Max(s)}], Max(s)>>] = PassStep(g[s \ {Max(s)}], Max(s))
        BY <4>1 DEF h
      <4>3. g[s] = h[<<g[s \ {Max(s)}], Max(s)>>]
        BY <3>2, <1>3, <1>6 DEF Folding
      <4> QED BY <3>2, <4>1, <4>2, <4>3, <1>3
    <3> QED BY <3>1, <3>2
  <2> QED BY <2>1, <1>3, <1>6
<1>8. PICK f : f = (CHOOSE it : Eq(it))
  OBVIOUS
<1>9. Eq(f)
  BY <1>7, <1>8
<1>10. f[{}] \in V
  BY <1>1, <1>3, <1>9
<1>11. ASSUME NEW s \in SUBSET Slot, s # {}, f[s \ {Max(s)}] \in V
       PROVE  f[s] \in V
  <2>1. f[s] = PassStep(f[s \ {Max(s)}], Max(s)) /\ Max(s) \in Slot
    BY <1>11, <1>3, <1>5, <1>9
  <2> QED BY <1>11, <2>1, PassStepKeeps DEF V
<1>12. f[Slot] \in V
  BY <1>3, <1>10, <1>11, FoldStays
<1>13. DefragPass(t) \in V
  BY <1>4, <1>8, <1>12
<1> QED BY <1>13 DEF V, PassStates

\* So do as many passes as memaDefrag makes.
LEMMA DefragKeeps ==
  ASSUME NEW C \in SUBSET Blks, NEW free, NEW t \in Tables(C, free)
  PROVE  Defrag(t) \in Tables(C, free)
<1> DEFINE V == PassStates(C, free)
           base == DefragPass(t)
           seq == [i \in Slot |-> i]
           Again(s, i) == IF s.any THEN DefragPass(s.table) ELSE s
           h == [x \in V \X Slot |-> Again(x[1], x[2])]
           Eq(it) == it = [s \in SUBSET DOMAIN seq |->
                             IF s = {} THEN base ELSE Again(it[s \ {Max(s)}], seq[Max(s)])]
<1>1. base \in V
  BY PassKeeps
<1>2. \A s \in V, i \in Slot : Again(s, i) \in V
  <2>1. \A s \in V : s.table \in Tables(C, free)
    BY DEF PassStates
  <2> QED BY <2>1, PassKeeps
<1>3. h \in [V \X Slot -> V]
  BY <1>2
<1>4. /\ DOMAIN seq = Slot /\ \A i \in Slot : seq[i] = i
      /\ Slots \in Nat /\ Slot = 1 .. Slots
  BY Constants
<1>5. Defrag(t) = (CHOOSE it : Eq(it))[Slot].table
  BY <1>4, Zenon DEF Defrag, FoldLeft, MapThenFoldSet
<1> HIDE DEF V, base, seq, Again, h
<1>6. \A s \in SUBSET Slot : s # {} => Max(s) \in Slot /\ s \ {Max(s)} \in SUBSET Slot
  BY <1>4, LastOf
<1>7. PICK g \in [SUBSET Slot -> V] : Folding(g, Slots, base, h)
  BY <1>1, <1>3, <1>4, FoldExists
<1>8. Eq(g)
  <2>1. ASSUME NEW s \in SUBSET Slot
        PROVE  g[s] = IF s = {} THEN base ELSE Again(g[s \ {Max(s)}], seq[Max(s)])
    <3>1. CASE s = {}
      BY <3>1, <1>7, <1>4 DEF Folding
    <3>2. CASE s # {}
      <4>1. Max(s) \in Slot /\ g[s \ {Max(s)}] \in V
        BY <3>2, <1>6, <1>7
      <4>2. h[<<g[s \ {Max(s)}], Max(s)>>] = Again(g[s \ {Max(s)}], Max(s))
        BY <4>1 DEF h
      <4>3. g[s] = h[<<g[s \ {Max(s)}], Max(s)>>]
        BY <3>2, <1>4, <1>7 DEF Folding
      <4> QED BY <3>2, <4>1, <4>2, <4>3, <1>4
    <3> QED BY <3>1, <3>2
  <2> QED BY <2>1, <1>4, <1>7
<1>9. PICK f : f = (CHOOSE it : Eq(it))
  OBVIOUS
<1>10. Eq(f)
  BY <1>8, <1>9
<1>11. f[{}] \in V
  BY <1>1, <1>4, <1>10
<1>12. ASSUME NEW s \in SUBSET Slot, s # {}, f[s \ {Max(s)}] \in V
       PROVE  f[s] \in V
  <2>1. f[s] = Again(f[s \ {Max(s)}], Max(s)) /\ Max(s) \in Slot
    BY <1>12, <1>4, <1>6, <1>10
  <2> QED BY <1>12, <2>1, <1>2
<1>13. f[Slot] \in V
  BY <1>4, <1>11, <1>12, FoldStays
<1>14. Defrag(t) \in Tables(C, free)
  BY <1>5, <1>9, <1>13 DEF V, PassStates
<1> QED BY <1>14

\* And so do the passes of an allocation.
LEMMA PassesKeep ==
  ASSUME NEW C \in SUBSET Blks, NEW free, NEW t \in Tables(C, free)
  PROVE  FoldLeft(LAMBDA u, k : DefragPass(u).table, t, [k \in 1 .. Passes |-> k])
           \in Tables(C, free)
<1> DEFINE V == Tables(C, free)
           base == t
           Turns == 1 .. Passes
           seq == [i \in Turns |-> i]
           Again(s, i) == DefragPass(s).table
           h == [x \in V \X Turns |-> Again(x[1], x[2])]
           Eq(it) == it = [s \in SUBSET DOMAIN seq |->
                             IF s = {} THEN base ELSE Again(it[s \ {Max(s)}], seq[Max(s)])]
<1>1. base \in V
  OBVIOUS
<1>2. \A s \in V, i \in Turns : Again(s, i) \in V
  BY PassKeeps
<1>3. h \in [V \X Turns -> V]
  BY <1>2
<1>4. /\ DOMAIN seq = Turns /\ \A i \in Turns : seq[i] = i
      /\ Passes \in Nat /\ Turns = 1 .. Passes
  BY Constants
<1>5. FoldLeft(LAMBDA u, k : DefragPass(u).table, t, [k \in 1 .. Passes |-> k])
        = (CHOOSE it : Eq(it))[Turns]
  BY <1>4, Zenon DEF FoldLeft, MapThenFoldSet
<1> HIDE DEF V, base, seq, Again, h, Turns
<1>6. \A s \in SUBSET Turns : s # {} => Max(s) \in Turns /\ s \ {Max(s)} \in SUBSET Turns
  BY <1>4, LastOf
<1>7. PICK g \in [SUBSET Turns -> V] : Folding(g, Passes, base, h)
  BY <1>1, <1>3, <1>4, FoldExists
<1>8. Eq(g)
  <2>1. ASSUME NEW s \in SUBSET Turns
        PROVE  g[s] = IF s = {} THEN base ELSE Again(g[s \ {Max(s)}], seq[Max(s)])
    <3>1. CASE s = {}
      BY <3>1, <1>7, <1>4 DEF Folding
    <3>2. CASE s # {}
      <4>1. Max(s) \in Turns /\ g[s \ {Max(s)}] \in V
        BY <3>2, <1>6, <1>7
      <4>2. h[<<g[s \ {Max(s)}], Max(s)>>] = Again(g[s \ {Max(s)}], Max(s))
        BY <4>1 DEF h
      <4>3. g[s] = h[<<g[s \ {Max(s)}], Max(s)>>]
        BY <3>2, <1>4, <1>7 DEF Folding
      <4> QED BY <3>2, <4>1, <4>2, <4>3, <1>4
    <3> QED BY <3>1, <3>2
  <2> QED BY <2>1, <1>4, <1>7
<1>9. PICK f : f = (CHOOSE it : Eq(it))
  OBVIOUS
<1>10. Eq(f)
  BY <1>8, <1>9
<1>11. f[{}] \in V
  BY <1>1, <1>4, <1>10
<1>12. ASSUME NEW s \in SUBSET Turns, s # {}, f[s \ {Max(s)}] \in V
       PROVE  f[s] \in V
  <2>1. f[s] = Again(f[s \ {Max(s)}], Max(s)) /\ Max(s) \in Turns
    BY <1>12, <1>4, <1>6, <1>10
  <2> QED BY <1>12, <2>1, <1>2
<1>13. f[Turns] \in V
  BY <1>4, <1>11, <1>12, FoldStays
<1>14. FoldLeft(LAMBDA u, k : DefragPass(u).table, t, [k \in 1 .. Passes |-> k]) \in V
  BY <1>5, <1>9, <1>13
<1> QED BY <1>14 DEF V

\* What the search passes on from one entry to the next.
SearchStates(C, free) == [table : Tables(C, free), slot : {NoSlot} \cup Slot]

\* One entry of the search.
LEMMA SearchStepKeeps ==
  ASSUME NEW C \in SUBSET Blks, NEW free, NEW s \in SearchStates(C, free), NEW i \in Slot
  PROVE  SearchStep(s, i) \in SearchStates(C, free)
<1> DEFINE t == s.table
<1>1. t \in Tables(C, free) /\ s.slot \in {NoSlot} \cup Slot
  BY DEF SearchStates
<1>2. CASE s.slot # NoSlot \/ (t[i].size # 0 /\ i = Slots)
  <2>1. SearchStep(s, i) = s
    BY <1>2 DEF SearchStep
  <2> QED BY <2>1
<1>3. CASE s.slot = NoSlot /\ t[i].size = 0
  <2>1. SearchStep(s, i) = [s EXCEPT !.slot = i]
    BY <1>3 DEF SearchStep
  <2> QED BY <2>1 DEF SearchStates
<1>4. CASE s.slot = NoSlot /\ t[i].size # 0 /\ i # Slots
  <2> DEFINE u == IF t[i + 1].addr < t[i].addr THEN Swapped(t, i, i + 1) ELSE t
  <2>1. i + 1 \in Slot /\ i # i + 1
    BY <1>4, Constants
  <2>2. u \in Tables(C, free)
    BY <1>1, <2>1, SwapKeeps
  <2>3. SearchStep(s, i) = IF Follows(u, i, i + 1)
                           THEN [table |-> Merged(u, i, i + 1), slot |-> i + 1]
                           ELSE [table |-> u, slot |-> NoSlot]
    BY <1>4 DEF SearchStep
  <2> HIDE DEF u
  <2>4. ASSUME Follows(u, i, i + 1)
        PROVE  Merged(u, i, i + 1) \in Tables(C, free)
    <3>1. /\ u[i].addr \in Nat /\ u[i].size \in Nat
          /\ u[i + 1].addr \in Nat /\ u[i + 1].size \in Nat
      BY <2>1, <2>2, EntryTypes
    <3>2. u[i].addr + u[i].size = u[i + 1].addr
      BY <2>4 DEF Follows
    <3>3. Entries(u)
      BY <2>2 DEF Tables
    <3>4. u[i].size # 0 \/ u[i + 1].size # 0
      <4>1. u[i] = t[i] \/ u[i + 1] = t[i]
        <5>1. t \in [Slot -> Space]
          BY <1>1, EntryTypes
        <5> QED BY <5>1, <2>1 DEF u, Swapped
      <4> QED BY <4>1, <1>4
    <3>5. u[i].size # 0
      <4>1. ASSUME u[i].size = 0 PROVE FALSE
        <5>1. u[i].addr = 0 /\ u[i + 1].addr = 0
          BY <4>1, <3>2, <3>3 DEF Entries
        <5>2. InHeap(u[i + 1].addr, u[i + 1].size)
          BY <4>1, <3>3, <3>4, <2>1 DEF Entries
        <5> QED BY <5>1, <5>2, Constants DEF InHeap
      <4> QED BY <4>1
    <3>6. u[i + 1].size # 0
      <4>1. ASSUME u[i + 1].size = 0 PROVE FALSE
        <5>1. u[i + 1].addr = 0
          BY <4>1, <3>3, <2>1 DEF Entries
        <5> QED BY <5>1, <3>1, <3>2, <3>5
      <4> QED BY <4>1
    <3> QED BY <3>5, <3>6, <2>1, <2>2, <2>4, MergeKeeps
  <2> QED BY <2>1, <2>2, <2>3, <2>4 DEF SearchStates
<1> QED BY <1>1, <1>2, <1>3, <1>4

\* What f is after each of the entries the search of t goes through.
SearchRun(t, f) ==
  /\ f[{}] = [table |-> t, slot |-> NoSlot]
  /\ \A n \in 1 .. (Slots * Slots) :
       f[1 .. n] = SearchStep(f[1 .. (n - 1)], ((n - 1) % Slots) + 1)
  /\ LET e == f[1 .. (Slots * Slots)]
         least == {i \in Slot : \A j \in Slot : e.table[i].size <= e.table[j].size}
     IN Search(t) = IF e.slot # NoSlot THEN e ELSE [e EXCEPT !.slot = SmallestIn(least)]

\* The search goes through the entries one after the other.
LEMMA SearchRuns ==
  ASSUME NEW C \in SUBSET Blks, NEW free, NEW t \in Tables(C, free)
  PROVE  \E f : SearchRun(t, f)
<1> DEFINE V == SearchStates(C, free)
           base == [table |-> t, slot |-> NoSlot]
           N == Slots * Slots
           Turns == 1 .. N
           seq == [k \in Turns |-> ((k - 1) % Slots) + 1]
           h == [x \in V \X Turns |-> SearchStep(x[1], seq[x[2]])]
           Eq(it) == it = [s \in SUBSET DOMAIN seq |->
                             IF s = {} THEN base ELSE SearchStep(it[s \ {Max(s)}], seq[Max(s)])]
           e == FoldLeft(SearchStep, base, seq)
           least == {i \in Slot : \A j \in Slot : e.table[i].size <= e.table[j].size}
<1>1. base \in V
  BY DEF SearchStates
<1>2. N \in Nat
  BY Constants
<1>3. \A k \in Turns : seq[k] \in Slot
  <2> TAKE k \in Turns
  <2>1. k - 1 \in Nat /\ Slots \in Nat /\ 1 <= Slots
    BY <1>2, Constants
  <2>2. (k - 1) % Slots \in 0 .. (Slots - 1)
    BY <2>1
  <2> QED BY <2>2, Constants
<1>4. DOMAIN seq = Turns /\ \A k \in Turns : seq[k] = ((k - 1) % Slots) + 1
  OBVIOUS
<1>5. e = (CHOOSE it : Eq(it))[Turns]
  BY <1>4, Zenon DEF FoldLeft, MapThenFoldSet
<1>6. Search(t) = IF e.slot # NoSlot THEN e ELSE [e EXCEPT !.slot = SmallestIn(least)]
  BY DEF Search, SearchPasses
<1> HIDE DEF V, base, N, seq
<1>7. h \in [V \X Turns -> V]
  BY <1>3, SearchStepKeeps DEF V
<1> HIDE DEF e, least, h, Turns
<1>8. \A s \in SUBSET Turns : s # {} => Max(s) \in Turns /\ s \ {Max(s)} \in SUBSET Turns
  BY <1>2, LastOf DEF Turns
<1>9. PICK g \in [SUBSET Turns -> V] : Folding(g, N, base, h)
  BY <1>1, <1>2, <1>7, FoldExists DEF Turns
<1>10. Eq(g)
  <2>1. ASSUME NEW s \in SUBSET Turns
        PROVE  g[s] = IF s = {} THEN base ELSE SearchStep(g[s \ {Max(s)}], seq[Max(s)])
    <3>1. CASE s = {}
      BY <3>1, <1>9 DEF Folding, Turns
    <3>2. CASE s # {}
      <4>1. Max(s) \in Turns /\ g[s \ {Max(s)}] \in V
        BY <3>2, <1>8, <1>9
      <4>2. h[<<g[s \ {Max(s)}], Max(s)>>] = SearchStep(g[s \ {Max(s)}], seq[Max(s)])
        BY <4>1 DEF h
      <4>3. g[s] = h[<<g[s \ {Max(s)}], Max(s)>>]
        BY <3>2, <1>9 DEF Folding, Turns
      <4> QED BY <3>2, <4>1, <4>2, <4>3, <1>4
    <3> QED BY <3>1, <3>2
  <2> QED BY <2>1, <1>4, <1>9
<1>11. PICK f : f = (CHOOSE it : Eq(it))
  OBVIOUS
<1>12. Eq(f)
  BY <1>10, <1>11
<1>13. f[{}] = base
  BY <1>4, <1>12
<1>14. ASSUME NEW n \in Turns
       PROVE  f[1 .. n] = SearchStep(f[1 .. (n - 1)], ((n - 1) % Slots) + 1)
  <2>1. n \in Nat /\ 1 <= n /\ 1 .. n \subseteq Turns
    BY <1>2 DEF Turns
  <2>2. 1 .. n # {} /\ n \in 1 .. n
    BY <2>1
  <2>3. Max(1 .. n) = n
    <3>1. Max(1 .. n) \in 1 .. n /\ \A y \in 1 .. n : y <= Max(1 .. n)
      BY <2>1, <2>2, LastOf
    <3> QED BY <2>1, <2>2, <3>1
  <2>4. (1 .. n) \ {n} = 1 .. (n - 1)
    BY <2>1
  <2>5. f[1 .. n] = SearchStep(f[1 .. (n - 1)], seq[n])
    BY <2>1, <2>2, <2>3, <2>4, <1>4, <1>12
  <2> QED BY <2>5, <1>4
<1>15. f[1 .. N] = e
  BY <1>5, <1>11 DEF Turns
<1>16. SearchRun(t, f)
  BY <1>6, <1>13, <1>14, <1>15 DEF SearchRun, N, Turns, base, least
<1> QED BY <1>16

\* It stays among the tables of the same blocks, and ends with a slot.
LEMMA SearchKeeps ==
  ASSUME NEW C \in SUBSET Blks, NEW free, NEW t \in Tables(C, free)
  PROVE  Search(t).table \in Tables(C, free) /\ Search(t).slot \in Slot
<1> DEFINE V == [n \in 0 .. (Slots * Slots) |-> SearchStates(C, free)]
<1>1. Slots \in Nat \ {0} /\ Slots * Slots \in Nat
  BY Constants
<1>0. PICK f : SearchRun(t, f)
  BY SearchRuns
<1>2. /\ f[{}] = [table |-> t, slot |-> NoSlot]
      /\ \A n \in 1 .. (Slots * Slots) :
           f[1 .. n] = SearchStep(f[1 .. (n - 1)], ((n - 1) % Slots) + 1)
      /\ LET e == f[1 .. (Slots * Slots)]
             least == {i \in Slot : \A j \in Slot : e.table[i].size <= e.table[j].size}
         IN Search(t) = IF e.slot # NoSlot THEN e ELSE [e EXCEPT !.slot = SmallestIn(least)]
  BY <1>0 DEF SearchRun
<1>3. f[{}] \in V[0]
  BY <1>1, <1>2 DEF SearchStates
<1>4. ASSUME NEW n \in 1 .. (Slots * Slots), f[1 .. (n - 1)] \in V[n - 1]
      PROVE  f[1 .. n] \in V[n]
  <2>1. n - 1 \in 0 .. (Slots * Slots) /\ n - 1 \in Nat
    BY <1>1
  <2>2. ((n - 1) % Slots) + 1 \in Slot
    BY <2>1, <1>1, Constants
  <2> QED BY <2>1, <2>2, <1>1, <1>2, <1>4, SearchStepKeeps
<1> HIDE DEF V
<1>5. f[1 .. (Slots * Slots)] \in V[Slots * Slots]
  BY <1>1, <1>3, <1>4, FoldClimbs
<1>6. PICK e : e = f[1 .. (Slots * Slots)]
  OBVIOUS
<1>7. e \in SearchStates(C, free)
  BY <1>1, <1>5, <1>6 DEF V
<1> DEFINE least == {i \in Slot : \A j \in Slot : e.table[i].size <= e.table[j].size}
<1>8. Search(t) = IF e.slot # NoSlot THEN e ELSE [e EXCEPT !.slot = SmallestIn(least)]
  BY <1>2, <1>6
<1> HIDE DEF least
<1>9. e.table \in Tables(C, free) /\ e.slot \in {NoSlot} \cup Slot
  BY <1>7 DEF SearchStates
<1>10. CASE e.slot # NoSlot
  BY <1>8, <1>9, <1>10
<1>11. CASE e.slot = NoSlot
  <2> DEFINE sizes == {e.table[i].size : i \in Slot}
  <2>1. sizes \subseteq Nat /\ sizes # {}
    BY <1>9, EntryTypes, Constants
  <2>2. PICK n \in sizes : \A y \in sizes : n <= y
    BY <2>1, LeastNatural
  <2>3. least # {}
    BY <2>2 DEF least
  <2>4. least \subseteq Slot /\ least \subseteq Nat
    BY Constants DEF least
  <2>5. SmallestIn(least) \in Slot
    BY <2>3, <2>4, SmallestIs
  <2>6. [e EXCEPT !.slot = SmallestIn(least)].table = e.table
        /\ [e EXCEPT !.slot = SmallestIn(least)].slot = SmallestIn(least)
    BY <1>7 DEF SearchStates
  <2> QED BY <2>5, <2>6, <1>8, <1>9, <1>11
<1> QED BY <1>10, <1>11

\* The table, the rooms and the units given up, as the operations pass them on.
Memories == [spaces : [Slot -> Space], room : [Room -> RoomInfo], lost : Nat]

\* What freeing n units leaves: so many units more in the spaces, but for those that
\* the search gave up.
GivenBack(m2, m, C, free, n) ==
  /\ m2 \in Memories /\ m2.room = m.room
  /\ m2.spaces \in Tables(C, free + n - (m2.lost - m.lost))

\* Freeing a block: it is a space again, and what else is handed out stays so.
LEMMA FreeGivesBack ==
  ASSUME NEW C \in SUBSET Blks, NEW a, NEW n, Fresh(a, n, C), NEW m \in Memories,
         NEW free \in Int, m.spaces \in Tables(C \cup {<<a, n>>}, free)
  PROVE  GivenBack(Freed(m, a, n), m, C, free, n)
<1> DEFINE index == ((a - HeapStart) * Slots) \div HeapSize + 1
           later == {i \in index .. Slots : m.spaces[i].size = 0}
           s == Search(m.spaces)
           space == [addr |-> a, size |-> n]
           D == C \cup {<<a, n>>}
<1>1. a \in Nat /\ n \in Nat \ {0} /\ HeapStart <= a
  BY DEF Fresh, InHeap
<1>2. D \in SUBSET Blks
  BY <1>1 DEF Blks
<1>3. index \in Nat /\ 1 <= index
  <2>1. a - HeapStart \in Nat
    BY <1>1, Constants
  <2>2. PICK x \in Nat : x = (a - HeapStart) * Slots
    BY <2>1, Constants
  <2>3. x \div HeapSize \in Nat
    BY <2>2, Constants
  <2> QED BY <2>2, <2>3
<1>4. later \subseteq Slot /\ later \subseteq Nat
  BY <1>3, Constants
<1>5. Freed(m, a, n) = IF later # {} THEN [m EXCEPT !.spaces[SmallestIn(later)] = space]
                       ELSE [m EXCEPT !.spaces = [s.table EXCEPT ![s.slot] = space],
                                      !.lost = @ + s.table[s.slot].size]
  BY DEF Freed
<1>6. s.table \in Tables(D, free) /\ s.slot \in Slot
  BY <1>2, SearchKeeps
<1> HIDE DEF index, later, s
<1>7. CASE later # {}
  <2>1. PICK i \in Slot : i = SmallestIn(later) /\ m.spaces[i].size = 0
    BY <1>4, <1>7, SmallestIs DEF later
  <2>2. [m.spaces EXCEPT ![i] = space] \in Tables(C, free + n - m.spaces[i].size)
    BY PutKeeps
  <2>3. PICK t : t = [m.spaces EXCEPT ![i] = space]
    OBVIOUS
  <2>4. Freed(m, a, n) = [m EXCEPT !.spaces = t]
    BY <1>5, <1>7, <2>1, <2>3 DEF Memories
  <2>5. t \in Tables(C, free + n - 0) /\ t \in [Slot -> Space]
    BY <2>1, <2>2, <2>3, EntryTypes
  <2>6. m.lost - m.lost = 0
    BY DEF Memories
  <2> QED BY <2>4, <2>5, <2>6 DEF Memories, GivenBack
<1>8. CASE later = {}
  <2>1. [s.table EXCEPT ![s.slot] = space] \in Tables(C, free + n - s.table[s.slot].size)
    BY <1>6, PutKeeps
  <2>2. PICK t, l : t = [s.table EXCEPT ![s.slot] = space] /\ l = s.table[s.slot].size
    OBVIOUS
  <2>3. PICK w : w = m.lost + l
    OBVIOUS
  <2>4. Freed(m, a, n) = [m EXCEPT !.spaces = t, !.lost = w]
    BY <1>5, <1>8, <2>2, <2>3
  <2>5. t \in Tables(C, free + n - l) /\ t \in [Slot -> Space] /\ l \in Nat
    BY <1>6, <2>1, <2>2, EntryTypes
  <2>6. w \in Nat /\ w - m.lost = l
    BY <2>3, <2>5 DEF Memories
  <2> QED BY <2>4, <2>5, <2>6 DEF Memories, GivenBack
<1> QED BY <1>7, <1>8

\* What an allocation comes back with: nothing, or a block clear of all others.
HandsOut(a, n, C, free) ==
  \/ a.addr = NULL /\ a.table \in Tables(C, free)
  \/ /\ a.addr # NULL /\ Fresh(a.addr, n, C)
     /\ a.table \in Tables(C \cup {<<a.addr, n>>}, free - n)

\* So does memaAlloc, and a space that is large enough is found.
LEMMA AllocationHandsOut ==
  ASSUME NEW C \in SUBSET Blks, NEW free, NEW t \in Tables(C, free), NEW n \in Nat \ {0}
  PROVE  /\ HandsOut(Allocated(t, n), n, C, free)
         /\ (\E i \in Slot : t[i].size >= n) => Allocated(t, n).addr # NULL
<1> DEFINE Fits(u) == {i \in Slot : u[i].size >= n}
           over(i) == t[i].size - n
           quick == Fits(t) \cap 1 .. Quick
           good == {i \in quick : over(i) < Close \/ over(i) * 4 < n}
           best == {i \in quick : \A j \in quick : over(i) <= over(j)}
           merged == FoldLeft(LAMBDA u, k : DefragPass(u).table, t, [k \in 1 .. Passes |-> k])
           At(u, i) == [table |-> Taken(u, i, n), addr |-> u[i].addr]
           a == Allocated(t, n)
<1>1. a = IF good # {} THEN At(t, SmallestIn(good))
          ELSE IF best # {} THEN At(t, SmallestIn(best))
          ELSE IF Fits(t) # {} THEN At(t, SmallestIn(Fits(t)))
          ELSE IF Fits(merged) # {} THEN At(merged, SmallestIn(Fits(merged)))
          ELSE [table |-> merged, addr |-> NULL]
  BY DEF Allocated
<1>2. merged \in Tables(C, free)
  BY PassesKeep, Zenon
<1>3. ASSUME NEW u \in Tables(C, free), NEW T \in SUBSET Fits(u), T # {}
      PROVE  HandsOut(At(u, SmallestIn(T)), n, C, free) /\ At(u, SmallestIn(T)).addr # NULL
  <2>1. T \subseteq Nat
    BY Constants
  <2>2. PICK i \in Slot : i = SmallestIn(T) /\ u[i].size >= n
    BY <1>3, <2>1, SmallestIs
  <2>3. /\ Taken(u, i, n) \in Tables(C \cup {<<u[i].addr, n>>}, free - n)
        /\ Fresh(u[i].addr, n, C) /\ u[i].addr # NULL
    BY <2>2, TakeHandsOut
  <2> QED BY <2>2, <2>3 DEF HandsOut
<1>4. good \in SUBSET Fits(t) /\ best \in SUBSET Fits(t)
  OBVIOUS
<1>5. (\E i \in Slot : t[i].size >= n) => Fits(t) # {}
  OBVIOUS
<1> HIDE DEF good, best, merged, Fits, At, a
<1>6. CASE good # {}
  BY <1>1, <1>3, <1>4, <1>6 DEF a
<1>7. CASE good = {} /\ best # {}
  BY <1>1, <1>3, <1>4, <1>7 DEF a
<1>8. CASE good = {} /\ best = {} /\ Fits(t) # {}
  BY <1>1, <1>3, <1>8 DEF a
<1>9. CASE good = {} /\ best = {} /\ Fits(t) = {} /\ Fits(merged) # {}
  BY <1>1, <1>2, <1>3, <1>5, <1>9 DEF a
<1>10. CASE good = {} /\ best = {} /\ Fits(t) = {} /\ Fits(merged) = {}
  <2>1. a = [table |-> merged, addr |-> NULL]
    BY <1>1, <1>10
  <2> QED BY <2>1, <1>2, <1>5, <1>10 DEF a, HandsOut
<1> QED BY <1>6, <1>7, <1>8, <1>9, <1>10

\* The longest space is the size of one.
LEMMA LongestIs ==
  ASSUME NEW C, NEW free, NEW t \in Tables(C, free)
  PROVE  Longest(t) \in Nat /\ \E i \in Slot : t[i].size = Longest(t)
<1> DEFINE sizes == {t[i].size : i \in Slot}
<1>1. \A i \in Slot : t[i].size \in Nat /\ t[i].size <= HeapStart + HeapSize
  <2> TAKE i \in Slot
  <2>1. t[i].size \in Nat /\ t[i].addr \in Nat /\ Entries(t)
    BY EntryTypes DEF Tables
  <2>2. t[i].size # 0 => InHeap(t[i].addr, t[i].size)
    BY <2>1 DEF Entries
  <2> QED BY <2>1, <2>2, Constants DEF InHeap
<1>2. PICK N \in Nat : N = HeapStart + HeapSize
  BY Constants
<1>3. sizes \in SUBSET (0 .. N) /\ sizes # {}
  BY <1>1, <1>2, Constants
<1>4. Max(sizes) \in sizes /\ \A y \in sizes : y <= Max(sizes)
  BY <1>3, GreatestNatural
<1>5. \E n \in sizes : \A i \in Slot : t[i].size <= n
  BY <1>4
<1>6. Longest(t) \in sizes
  BY <1>5 DEF Longest
<1> QED BY <1>1, <1>6

-------------------------------------------------------------------------------
(* The blocks the rooms hold.                                              *)

\* A room's data is its first block, the bounds of its batches are its second.
Keys == Room \X {1, 2}
Held(rm) ==
  {x \in Keys : IF x[2] = 1 THEN rm[x[1]].vertices # NULL ELSE rm[x[1]].vtx_batch_bounds # NULL}
Claim(rm, x) ==
  IF x[2] = 1 THEN <<rm[x[1]].vertices, rm[x[1]].cur_room_totalsize>>
              ELSE <<rm[x[1]].vtx_batch_bounds, Bounds[x[1]]>>
Claims(rm) == {Claim(rm, x) : x \in Held(rm)}

\* The blocks lie in the heap and do not overlap, whichever rooms hold them.
BlocksApart(rm) ==
  /\ \A x \in Held(rm) : Claim(rm, x) \in Blks /\ InHeap(Claim(rm, x)[1], Claim(rm, x)[2])
  /\ \A x, y \in Held(rm) :
       x # y => Apart(Claim(rm, x)[1], Claim(rm, x)[2], Claim(rm, y)[1], Claim(rm, y)[2])

\* The units of the rooms' blocks, as NothingLost adds them up.
DataSizes(rm) ==
  {<<"data", r, rm[r].cur_room_totalsize>> : r \in {q \in Room : rm[q].vertices # NULL}}
BoundsSizes(rm) ==
  {<<"bounds", r, Bounds[r]>> : r \in {q \in Room : rm[q].vtx_batch_bounds # NULL}}
Owned(rm) == Weight(DataSizes(rm)) + Weight(BoundsSizes(rm))

\* There are finitely many, and they are naturals.
LEMMA SizesWeighed ==
  ASSUME NEW rm \in [Room -> RoomInfo]
  PROVE  /\ Weighed(DataSizes(rm)) /\ Weighed(BoundsSizes(rm))
         /\ Weight(DataSizes(rm)) \in Nat /\ Weight(BoundsSizes(rm)) \in Nat
<1> DEFINE D == {q \in Room : rm[q].vertices # NULL}
           B == {q \in Room : rm[q].vtx_batch_bounds # NULL}
           f == [r \in Room |-> rm[r].cur_room_totalsize]
<1>1. IsFiniteSet(D) /\ IsFiniteSet(B)
  <2>1. IsFiniteSet(Room)
    BY RoomsAssumption, FS_Interval DEF Room
  <2> QED BY <2>1, FS_Subset
<1>2. \A r \in Room : f[r] = rm[r].cur_room_totalsize /\ f[r] \in Nat /\ Bounds[r] \in Nat
  BY RoomsAssumption DEF RoomInfo
<1>3. D \subseteq Room /\ B \subseteq Room
  OBVIOUS
<1>4. DataSizes(rm) = Triples("data", D, f) /\ BoundsSizes(rm) = Triples("bounds", B, Bounds)
  <2> HIDE DEF f
  <2> QED BY <1>2 DEF DataSizes, BoundsSizes, Triples
<1> HIDE DEF f, D, B
<1>5. Weighed(DataSizes(rm)) /\ Weighed(BoundsSizes(rm))
  BY <1>1, <1>2, <1>3, <1>4, TriplesWeighed
<1> QED BY <1>5, WeightIs

\* The second rooms hold one block more than the first.
OneMore(rm, rm2, x, a, n) ==
  /\ x \in Keys /\ x \notin Held(rm) /\ Held(rm2) = Held(rm) \cup {x}
  /\ \A y \in Held(rm) : Claim(rm2, y) = Claim(rm, y)
  /\ Claim(rm2, x) = <<a, n>>
  /\ n \in Nat /\ Owned(rm) \in Nat /\ Owned(rm2) = Owned(rm) + n

\* Then their blocks are those of the first and that one.
LEMMA OneMoreClaim ==
  ASSUME NEW rm, NEW rm2, NEW x, NEW a, NEW n, OneMore(rm, rm2, x, a, n)
  PROVE  Claims(rm2) = Claims(rm) \cup {<<a, n>>}
BY Zenon DEF OneMore, Claims

\* A block that is clear of all others is taken.
LEMMA Acquire ==
  ASSUME NEW rm, NEW rm2, NEW x, NEW a, NEW n, OneMore(rm, rm2, x, a, n),
         BlocksApart(rm), Fresh(a, n, Claims(rm))
  PROVE  BlocksApart(rm2)
<1>1. /\ Held(rm2) = Held(rm) \cup {x} /\ Claim(rm2, x) = <<a, n>> /\ x \notin Held(rm)
      /\ \A y \in Held(rm) : Claim(rm2, y) = Claim(rm, y)
  BY DEF OneMore
<1>2. a \in Nat /\ n \in Nat \ {0} /\ InHeap(a, n)
  BY DEF Fresh
<1>3. \A y \in Held(rm) : Apart(a, n, Claim(rm, y)[1], Claim(rm, y)[2])
  BY DEF Fresh, Claims
<1>4. ASSUME NEW y \in Held(rm2)
      PROVE  Claim(rm2, y) \in Blks /\ InHeap(Claim(rm2, y)[1], Claim(rm2, y)[2])
  <2>1. CASE y = x
    BY <2>1, <1>1, <1>2 DEF Blks
  <2>2. CASE y \in Held(rm)
    BY <2>2, <1>1 DEF BlocksApart
  <2> QED BY <2>1, <2>2, <1>1
<1>5. ASSUME NEW y \in Held(rm2), NEW z \in Held(rm2), y # z
      PROVE  Apart(Claim(rm2, y)[1], Claim(rm2, y)[2], Claim(rm2, z)[1], Claim(rm2, z)[2])
  <2>1. CASE y = x
    BY <2>1, <1>1, <1>3, <1>5
  <2>2. CASE z = x
    <3>1. Apart(a, n, Claim(rm2, y)[1], Claim(rm2, y)[2])
      BY <2>2, <1>1, <1>3, <1>5
    <3> QED BY <3>1, <2>2, <1>1 DEF Apart
  <2>3. CASE y # x /\ z # x
    BY <2>3, <1>1, <1>5 DEF BlocksApart
  <2> QED BY <2>1, <2>2, <2>3
<1> QED BY <1>4, <1>5 DEF BlocksApart

\* A block is given up; it is clear of those that are left.
LEMMA Release ==
  ASSUME NEW rm, NEW rm2, NEW x, NEW a, NEW n, OneMore(rm, rm2, x, a, n), BlocksApart(rm2)
  PROVE  BlocksApart(rm) /\ Fresh(a, n, Claims(rm))
<1>1. /\ Held(rm2) = Held(rm) \cup {x} /\ Claim(rm2, x) = <<a, n>> /\ x \notin Held(rm)
      /\ \A y \in Held(rm) : Claim(rm2, y) = Claim(rm, y)
  BY DEF OneMore
<1>2. BlocksApart(rm)
  BY <1>1 DEF BlocksApart
<1>3. x \in Held(rm2) /\ \A y \in Held(rm) : y \in Held(rm2) /\ y # x
  BY <1>1
<1>4. <<a, n>> \in Blks /\ InHeap(<<a, n>>[1], <<a, n>>[2])
  BY <1>1, <1>3 DEF BlocksApart
<1>5. a \in Nat /\ n \in Nat \ {0} /\ InHeap(a, n)
  BY <1>4 DEF Blks
<1>6. ASSUME NEW y \in Held(rm)
      PROVE  Apart(a, n, Claim(rm, y)[1], Claim(rm, y)[2])
  <2>1. Apart(<<a, n>>[1], <<a, n>>[2], Claim(rm2, y)[1], Claim(rm2, y)[2])
    BY <1>1, <1>3 DEF BlocksApart
  <2> QED BY <2>1, <1>1
<1>7. \A c \in Claims(rm) : Apart(a, n, c[1], c[2])
  BY <1>6 DEF Claims
<1> QED BY <1>2, <1>5, <1>7 DEF Fresh

\* Blocks that lie so are pairs of naturals.
LEMMA ClaimsAreBlocks ==
  ASSUME NEW rm, BlocksApart(rm)
  PROVE  Claims(rm) \in SUBSET Blks
BY DEF BlocksApart, Claims

\* Only room r differs.
OnlyRoom(rm, rm2, r) == \A q \in Room : q # r => rm2[q] = rm[q]

\* Setting the address of a room's bounds.
LEMMA BoundsAreOneMore ==
  ASSUME NEW rm \in [Room -> RoomInfo], NEW rm2 \in [Room -> RoomInfo],
         NEW r \in Room, OnlyRoom(rm, rm2, r),
         rm2[r].vertices = rm[r].vertices,
         rm2[r].cur_room_totalsize = rm[r].cur_room_totalsize,
         rm[r].vtx_batch_bounds = NULL, rm2[r].vtx_batch_bounds # NULL
  PROVE  OneMore(rm, rm2, <<r, 2>>, rm2[r].vtx_batch_bounds, Bounds[r])
<1> DEFINE x == <<r, 2>>
<1>1. x \in Keys /\ x[1] = r /\ x[2] = 2 /\ \A y \in Keys : y = <<y[1], y[2]>> /\ y[1] \in Room
  BY DEF Keys
<1>2. \A y \in Keys : y # x => (y[2] = 1 \/ y[1] # r)
  BY DEF Keys
<1>3. \A y \in Keys : y # x => (y \in Held(rm2) <=> y \in Held(rm))
  BY <1>1, <1>2 DEF Held, OnlyRoom
<1>4. \A y \in Keys : y # x => Claim(rm2, y) = Claim(rm, y)
  BY <1>1, <1>2 DEF Claim, OnlyRoom
<1>5. x \notin Held(rm) /\ x \in Held(rm2)
  BY <1>1 DEF Held
<1>6. Claim(rm2, x) = <<rm2[r].vtx_batch_bounds, Bounds[r]>>
  BY <1>1 DEF Claim
<1>7. Held(rm) \subseteq Keys /\ Held(rm2) \subseteq Keys
  BY DEF Held
<1> HIDE DEF x
<1>8. Held(rm2) = Held(rm) \cup {x}
  BY <1>1, <1>3, <1>5, <1>7
<1>9. \A y \in Held(rm) : Claim(rm2, y) = Claim(rm, y)
  BY <1>4, <1>5, <1>7
<1>10. Bounds[r] \in Nat /\ Owned(rm) \in Nat /\ Owned(rm2) = Owned(rm) + Bounds[r]
  <2> DEFINE y == <<"bounds", r, Bounds[r]>>
  <2>1. DataSizes(rm2) = DataSizes(rm)
    BY DEF DataSizes, OnlyRoom
  <2>2. BoundsSizes(rm2) = BoundsSizes(rm) \cup {y} /\ y \notin BoundsSizes(rm)
    BY DEF BoundsSizes, OnlyRoom
  <2>3. Bounds[r] \in Nat /\ y[3] = Bounds[r]
    BY RoomsAssumption
  <2> HIDE DEF y
  <2>4. Weight(BoundsSizes(rm2)) = Weight(BoundsSizes(rm)) + Bounds[r]
    BY <2>2, <2>3, SizesWeighed, WeightWith
  <2> QED BY <2>1, <2>3, <2>4, SizesWeighed DEF Owned
<1>11. OneMore(rm, rm2, x, rm2[r].vtx_batch_bounds, Bounds[r])
  BY <1>1, <1>5, <1>6, <1>8, <1>9, <1>10 DEF OneMore
<1> QED BY <1>11 DEF x

\* Setting the address of a room's data.
LEMMA DataAreOneMore ==
  ASSUME NEW rm \in [Room -> RoomInfo], NEW rm2 \in [Room -> RoomInfo],
         NEW r \in Room, OnlyRoom(rm, rm2, r),
         rm2[r].vtx_batch_bounds = rm[r].vtx_batch_bounds,
         rm[r].vertices = NULL, rm2[r].vertices # NULL
  PROVE  OneMore(rm, rm2, <<r, 1>>, rm2[r].vertices, rm2[r].cur_room_totalsize)
<1> DEFINE x == <<r, 1>>
<1>1. x \in Keys /\ x[1] = r /\ x[2] = 1 /\ \A y \in Keys : y = <<y[1], y[2]>> /\ y[1] \in Room
  BY DEF Keys
<1>2. \A y \in Keys : y # x => (y[2] # 1 \/ y[1] # r)
  BY DEF Keys
<1>3. \A y \in Keys : y # x => (y \in Held(rm2) <=> y \in Held(rm))
  BY <1>1, <1>2 DEF Held, OnlyRoom
<1>4. \A y \in Keys : y # x => Claim(rm2, y) = Claim(rm, y)
  BY <1>1, <1>2 DEF Claim, OnlyRoom
<1>5. x \notin Held(rm) /\ x \in Held(rm2)
  BY <1>1 DEF Held
<1>6. Claim(rm2, x) = <<rm2[r].vertices, rm2[r].cur_room_totalsize>>
  BY <1>1 DEF Claim
<1>7. Held(rm) \subseteq Keys /\ Held(rm2) \subseteq Keys
  BY DEF Held
<1> HIDE DEF x
<1>8. Held(rm2) = Held(rm) \cup {x}
  BY <1>1, <1>3, <1>5, <1>7
<1>9. \A y \in Held(rm) : Claim(rm2, y) = Claim(rm, y)
  BY <1>4, <1>5, <1>7
<1>10. PICK n : n = rm2[r].cur_room_totalsize
  OBVIOUS
<1>11. n \in Nat /\ Owned(rm) \in Nat /\ Owned(rm2) = Owned(rm) + n
  <2> DEFINE y == <<"data", r, n>>
  <2>1. BoundsSizes(rm2) = BoundsSizes(rm)
    BY DEF BoundsSizes, OnlyRoom
  <2>2. DataSizes(rm2) = DataSizes(rm) \cup {y} /\ y \notin DataSizes(rm)
    BY <1>10 DEF DataSizes, OnlyRoom
  <2>3. n \in Nat /\ y[3] = n
    BY <1>10 DEF RoomInfo
  <2> HIDE DEF y
  <2>4. Weight(DataSizes(rm2)) = Weight(DataSizes(rm)) + n
    BY <2>2, <2>3, SizesWeighed, WeightWith
  <2> QED BY <2>1, <2>3, <2>4, SizesWeighed DEF Owned
<1>12. OneMore(rm, rm2, x, rm2[r].vertices, n)
  BY <1>1, <1>5, <1>6, <1>8, <1>9, <1>10, <1>11 DEF OneMore
<1> QED BY <1>10, <1>12 DEF x

-------------------------------------------------------------------------------
(* What the updates of a room change.                                      *)

\* Two rooms' records agree but for the bounds' address, or but for the data's.
SameData(i, j) ==
  /\ i.model_bin_loaded = j.model_bin_loaded /\ i.field_35 = j.field_35
  /\ i.cur_room_totalsize = j.cur_room_totalsize /\ i.vertices = j.vertices

\* The bounds' address is set.
BoundsSet(m, r, t, b) == [m EXCEPT !.spaces = t, !.room[r].vtx_batch_bounds = b]

\* The bounds of a room are set, with the table they were taken from.
LEMMA SetBounds ==
  ASSUME NEW m \in Memories, NEW r \in Room, NEW t \in [Slot -> Space], NEW b \in Nat,
         NEW X, X = BoundsSet(m, r, t, b)
  PROVE  /\ X \in Memories /\ X.spaces = t /\ X.lost = m.lost
         /\ OnlyRoom(m.room, X.room, r)
         /\ SameData(X.room[r], m.room[r]) /\ X.room[r].vtx_batch_bounds = b
<1>1. PICK info : info = [m.room[r] EXCEPT !.vtx_batch_bounds = b]
  OBVIOUS
<1>2. m.room \in [Room -> RoomInfo] /\ m.room[r] \in RoomInfo
  BY DEF Memories
<1>3. info \in RoomInfo /\ SameData(info, m.room[r]) /\ info.vtx_batch_bounds = b
  BY <1>1, <1>2 DEF RoomInfo, SameData
<1>4. PICK rm : rm = [m.room EXCEPT ![r] = info]
  OBVIOUS
<1>5. rm \in [Room -> RoomInfo] /\ rm[r] = info /\ OnlyRoom(m.room, rm, r)
  BY <1>2, <1>3, <1>4 DEF OnlyRoom
<1>6. X = [m EXCEPT !.spaces = t, !.room = rm]
  BY <1>1, <1>4 DEF Memories, BoundsSet
<1>7. X \in Memories /\ X.spaces = t /\ X.room = rm /\ X.lost = m.lost
  BY <1>5, <1>6 DEF Memories
<1> QED BY <1>3, <1>5, <1>7

\* The bounds' address is cleared.
LEMMA ClearBounds ==
  ASSUME NEW m \in Memories, NEW r \in Room,
         NEW X, X = [m EXCEPT !.room[r].vtx_batch_bounds = NULL]
  PROVE  /\ X \in Memories /\ X.spaces = m.spaces /\ X.lost = m.lost
         /\ OnlyRoom(m.room, X.room, r)
         /\ SameData(X.room[r], m.room[r]) /\ X.room[r].vtx_batch_bounds = NULL
<1>1. PICK info : info = [m.room[r] EXCEPT !.vtx_batch_bounds = NULL]
  OBVIOUS
<1>2. m.room \in [Room -> RoomInfo] /\ m.room[r] \in RoomInfo
  BY DEF Memories
<1>3. info \in RoomInfo /\ SameData(info, m.room[r]) /\ info.vtx_batch_bounds = NULL
  BY <1>1, <1>2, Constants DEF RoomInfo, SameData
<1>4. PICK rm : rm = [m.room EXCEPT ![r] = info]
  OBVIOUS
<1>5. rm \in [Room -> RoomInfo] /\ rm[r] = info /\ OnlyRoom(m.room, rm, r)
  BY <1>2, <1>3, <1>4 DEF OnlyRoom
<1>6. X = [m EXCEPT !.room = rm]
  BY <1>1, <1>4 DEF Memories
<1>7. X \in Memories /\ X.spaces = m.spaces /\ X.room = rm /\ X.lost = m.lost
  BY <1>5, <1>6 DEF Memories
<1> QED BY <1>3, <1>5, <1>7

\* The data are gone.
LEMMA ClearData ==
  ASSUME NEW m \in Memories, NEW r \in Room,
         NEW X, X = [m EXCEPT !.room[r].model_bin_loaded = 0, !.room[r].vertices = NULL]
  PROVE  /\ X \in Memories /\ X.spaces = m.spaces /\ X.lost = m.lost
         /\ OnlyRoom(m.room, X.room, r)
         /\ X.room[r].model_bin_loaded = 0 /\ X.room[r].vertices = NULL
         /\ X.room[r].cur_room_totalsize = m.room[r].cur_room_totalsize
         /\ X.room[r].vtx_batch_bounds = m.room[r].vtx_batch_bounds
<1>1. PICK info : info = [m.room[r] EXCEPT !.model_bin_loaded = 0, !.vertices = NULL]
  OBVIOUS
<1>2. /\ m.room \in [Room -> RoomInfo] /\ m.room[r] \in RoomInfo
      /\ MaxAge \in Nat /\ 0 \in 0 .. MaxAge
  BY RoomsAssumption DEF Memories
<1>3. /\ info \in RoomInfo /\ info.model_bin_loaded = 0 /\ info.vertices = NULL
      /\ info.cur_room_totalsize = m.room[r].cur_room_totalsize
      /\ info.vtx_batch_bounds = m.room[r].vtx_batch_bounds
  BY <1>1, <1>2, Constants DEF RoomInfo
<1>4. PICK rm : rm = [m.room EXCEPT ![r] = info]
  OBVIOUS
<1>5. rm \in [Room -> RoomInfo] /\ rm[r] = info /\ OnlyRoom(m.room, rm, r)
  BY <1>2, <1>3, <1>4 DEF OnlyRoom
<1>6. X = [m EXCEPT !.room = rm]
  BY <1>1, <1>4 DEF Memories
<1>7. X \in Memories /\ X.spaces = m.spaces /\ X.room = rm /\ X.lost = m.lost
  BY <1>5, <1>6 DEF Memories
<1> QED BY <1>3, <1>5, <1>7

\* The data are loaded.
DataSet(m, r, t, a, n) ==
  [m EXCEPT !.spaces = t,
            !.room[r].model_bin_loaded = 1, !.room[r].vertices = a,
            !.room[r].cur_room_totalsize = n]

\* The data of a room are set, with the table they were taken from.
LEMMA SetData ==
  ASSUME NEW m \in Memories, NEW r \in Room, NEW t \in [Slot -> Space],
         NEW a \in Nat, NEW n \in Nat,
         NEW X, X = DataSet(m, r, t, a, n)
  PROVE  /\ X \in Memories /\ X.spaces = t /\ X.lost = m.lost
         /\ OnlyRoom(m.room, X.room, r)
         /\ X.room[r].model_bin_loaded = 1 /\ X.room[r].vertices = a
         /\ X.room[r].cur_room_totalsize = n
         /\ X.room[r].vtx_batch_bounds = m.room[r].vtx_batch_bounds
<1>1. PICK info : info = [m.room[r] EXCEPT !.model_bin_loaded = 1, !.vertices = a,
                                           !.cur_room_totalsize = n]
  OBVIOUS
<1>2. /\ m.room \in [Room -> RoomInfo] /\ m.room[r] \in RoomInfo
      /\ MaxAge \in Nat /\ 1 \in 0 .. MaxAge
  BY RoomsAssumption DEF Memories
<1>3. /\ info \in RoomInfo /\ info.model_bin_loaded = 1 /\ info.vertices = a
      /\ info.cur_room_totalsize = n
      /\ info.vtx_batch_bounds = m.room[r].vtx_batch_bounds
  BY <1>1, <1>2 DEF RoomInfo
<1>4. PICK rm : rm = [m.room EXCEPT ![r] = info]
  OBVIOUS
<1>5. rm \in [Room -> RoomInfo] /\ rm[r] = info /\ OnlyRoom(m.room, rm, r)
  BY <1>2, <1>3, <1>4 DEF OnlyRoom
<1>6. X = [m EXCEPT !.spaces = t, !.room = rm]
  BY <1>1, <1>4 DEF Memories, DataSet
<1>7. X \in Memories /\ X.spaces = t /\ X.room = rm /\ X.lost = m.lost
  BY <1>5, <1>6 DEF Memories
<1> QED BY <1>3, <1>5, <1>7

\* A room in use is seen again, or one that is aged, or one to be kept.
UseSet(m, r, k) == [m EXCEPT !.room[r].model_bin_loaded = k]
KeptSet(m, r) == [m EXCEPT !.room[r].field_35 = TRUE]

\* What does not concern the blocks of a room is set.
LEMMA SetUse ==
  ASSUME NEW m \in Memories, NEW r \in Room, NEW k \in 0 .. MaxAge,
         NEW X, \/ X = UseSet(m, r, k)
                \/ X = KeptSet(m, r) /\ k = m.room[r].model_bin_loaded
  PROVE  /\ X \in Memories /\ X.spaces = m.spaces /\ X.lost = m.lost
         /\ OnlyRoom(m.room, X.room, r)
         /\ X.room[r].model_bin_loaded = k
         /\ X.room[r].vertices = m.room[r].vertices
         /\ X.room[r].cur_room_totalsize = m.room[r].cur_room_totalsize
         /\ X.room[r].vtx_batch_bounds = m.room[r].vtx_batch_bounds
<1>1. PICK info : \/ /\ X = [m EXCEPT !.room[r].model_bin_loaded = k]
                     /\ info = [m.room[r] EXCEPT !.model_bin_loaded = k]
                  \/ /\ X = [m EXCEPT !.room[r].field_35 = TRUE]
                     /\ info = [m.room[r] EXCEPT !.field_35 = TRUE]
                     /\ k = m.room[r].model_bin_loaded
  BY DEF UseSet, KeptSet
<1>2. m.room \in [Room -> RoomInfo] /\ m.room[r] \in RoomInfo
  BY DEF Memories
<1>3. /\ info \in RoomInfo /\ info.model_bin_loaded = k
      /\ info.vertices = m.room[r].vertices
      /\ info.cur_room_totalsize = m.room[r].cur_room_totalsize
      /\ info.vtx_batch_bounds = m.room[r].vtx_batch_bounds
  BY <1>1, <1>2 DEF RoomInfo
<1>4. PICK rm : rm = [m.room EXCEPT ![r] = info]
  OBVIOUS
<1>5. rm \in [Room -> RoomInfo] /\ rm[r] = info /\ OnlyRoom(m.room, rm, r)
  BY <1>2, <1>3, <1>4 DEF OnlyRoom
<1>6. X = [m EXCEPT !.room = rm]
  BY <1>1, <1>4 DEF Memories
<1>7. X \in Memories /\ X.spaces = m.spaces /\ X.room = rm /\ X.lost = m.lost
  BY <1>5, <1>6 DEF Memories
<1> QED BY <1>3, <1>5, <1>7

-------------------------------------------------------------------------------
(* Loading and deleting keep the blocks apart.                             *)

\* What a room's record says at any time: it has data exactly while it is in use,
\* bounds only with data, and a size that is its own once it is known.
RoomStates(rm) ==
  \A r \in Room :
    /\ rm[r].vertices # NULL <=> rm[r].model_bin_loaded # 0
    /\ rm[r].cur_room_totalsize \in {0, Need[r] + 2}
    /\ rm[r].vertices # NULL => rm[r].cur_room_totalsize # 0
    /\ rm[r].vertices = NULL => rm[r].vtx_batch_bounds = NULL

\* What the rooms do not own and the search did not give up.
Spare(m) == HeapSize - (Owned(m.room) + m.lost)

\* The memories in which the blocks are as they should be and no unit is missing.
Good ==
  {m \in Memories :
     /\ RoomStates(m.room) /\ BlocksApart(m.room)
     /\ m.spaces \in Tables(Claims(m.room), Spare(m))}

\* What an operation on room r keeps.
Keeps(m2, m, r) ==
  /\ m2 \in Good /\ OnlyRoom(m.room, m2.room, r)
  /\ m2.room[r].cur_room_totalsize = m.room[r].cur_room_totalsize

\* The parts of a good memory.
LEMMA GoodParts ==
  ASSUME NEW m \in Good
  PROVE  /\ m \in Memories /\ RoomStates(m.room) /\ BlocksApart(m.room)
         /\ m.spaces \in Tables(Claims(m.room), Spare(m)) /\ Claims(m.room) \in SUBSET Blks
         /\ m.spaces \in [Slot -> Space] /\ m.room \in [Room -> RoomInfo]
BY ClaimsAreBlocks DEF Good, Memories

\* The numbers that are added up.
LEMMA Spares ==
  ASSUME NEW m \in Memories
  PROVE  /\ m.room \in [Room -> RoomInfo] /\ m.lost \in Nat /\ Owned(m.room) \in Nat
         /\ HeapSize \in Nat /\ Spare(m) \in Int
         /\ Spare(m) = HeapSize - (Owned(m.room) + m.lost)
<1>1. m.room \in [Room -> RoomInfo] /\ m.lost \in Nat
  BY DEF Memories
<1>2. Owned(m.room) \in Nat
  BY <1>1, SizesWeighed DEF Owned
<1> QED BY <1>1, <1>2, Constants DEF Spare

\* The needs of rooms are positive.
LEMMA Needs ==
  ASSUME NEW r \in Room
  PROVE  /\ Need[r] + 2 \in Nat \ {0} /\ Bounds[r] \in Nat \ {0} /\ r \in Nat
         /\ 1 \in 0 .. MaxAge /\ 1 <= r /\ r <= NumRooms
<1>1. Need[r] \in Nat \ {0} /\ Bounds[r] \in Nat \ {0} /\ NumRooms \in Nat /\ MaxAge \in Nat \ {0}
  BY RoomsAssumption
<1> QED BY <1>1 DEF Room

\* Bounds are made for a room with data, or there is no room for them.
LEMMA WithBoundsKeeps ==
  ASSUME NEW m \in Good, NEW r \in Room, m.room[r].vertices # NULL
  PROVE  /\ Keeps(WithBounds(m, r), m, r)
         /\ WithBounds(m, r).room[r].vertices = m.room[r].vertices
         /\ WithBounds(m, r).room[r].model_bin_loaded = m.room[r].model_bin_loaded
<1> DEFINE C == Claims(m.room)
           a == Allocated(m.spaces, Bounds[r])
           X == WithBounds(m, r)
<1>1. CASE m.room[r].vtx_batch_bounds # NULL
  <2>1. X = m
    BY <1>1 DEF WithBounds
  <2> HIDE DEF X
  <2>2. Keeps(X, m, r)
    BY <2>1 DEF Keeps, OnlyRoom
  <2> QED BY <2>1, <2>2 DEF X
<1>2. CASE m.room[r].vtx_batch_bounds = NULL
  <2>1. HandsOut(a, Bounds[r], C, Spare(m))
    BY GoodParts, Needs, AllocationHandsOut
  <2>2. PICK t, b : t = a.table /\ b = a.addr
    OBVIOUS
  <2>3. X = BoundsSet(m, r, t, b)
    BY <1>2, <2>2, Zenon DEF WithBounds, BoundsSet
  <2>4. t \in [Slot -> Space] /\ b \in Nat
    BY <2>1, <2>2, EntryTypes, Constants DEF HandsOut, Fresh
  <2>5. /\ X \in Memories /\ X.spaces = t /\ X.lost = m.lost /\ OnlyRoom(m.room, X.room, r)
        /\ SameData(X.room[r], m.room[r]) /\ X.room[r].vtx_batch_bounds = b
    <3> HIDE DEF X
    <3> QED BY <2>3, <2>4, GoodParts, SetBounds
  <2> HIDE DEF X
  <2>6. RoomStates(X.room)
    BY <2>5, GoodParts DEF RoomStates, OnlyRoom, SameData
  <2>7. BlocksApart(X.room) /\ t \in Tables(Claims(X.room), Spare(X))
    <3>1. CASE b = NULL
      <4>1. X.room = m.room
        <5>1. m.room \in [Room -> RoomInfo] /\ X.room \in [Room -> RoomInfo]
          BY <2>5, GoodParts DEF Memories
        <5>2. X.room[r] = m.room[r]
          BY <2>5, <3>1, <1>2, <5>1 DEF SameData, RoomInfo
        <5> QED BY <5>1, <5>2, <2>5 DEF OnlyRoom
      <4>2. t \in Tables(C, Spare(m))
        BY <2>1, <2>2, <3>1 DEF HandsOut
      <4>3. Spare(X) = Spare(m)
        BY <2>5, <4>1 DEF Spare
      <4> QED BY <4>1, <4>2, <4>3, GoodParts
    <3>2. CASE b # NULL
      <4>1. OneMore(m.room, X.room, <<r, 2>>, b, Bounds[r])
        BY <2>5, <3>2, <1>2, BoundsAreOneMore, GoodParts, Spares DEF SameData
      <4>2. Fresh(b, Bounds[r], C) /\ t \in Tables(C \cup {<<b, Bounds[r]>>}, Spare(m) - Bounds[r])
        BY <2>1, <2>2, <3>2 DEF HandsOut
      <4>3. BlocksApart(X.room)
        BY <4>1, <4>2, GoodParts, Acquire
      <4>4. Claims(X.room) = C \cup {<<b, Bounds[r]>>}
        BY <4>1, OneMoreClaim
      <4>5. Spare(X) = Spare(m) - Bounds[r]
        BY <2>5, <4>1, GoodParts, Spares DEF OneMore
      <4> QED BY <4>2, <4>3, <4>4, <4>5
    <3> QED BY <3>1, <3>2
  <2>8. X \in Good
    BY <2>5, <2>6, <2>7 DEF Good
  <2> QED BY <2>5, <2>8 DEF Keeps, SameData, X
<1> QED BY <1>1, <1>2

\* Bounds are given back.
LEMMA WithoutBoundsKeeps ==
  ASSUME NEW m \in Good, NEW r \in Room
  PROVE  /\ Keeps(WithoutBounds(m, r), m, r)
         /\ SameData(WithoutBounds(m, r).room[r], m.room[r])
         /\ WithoutBounds(m, r).room[r].vtx_batch_bounds = NULL
<1> DEFINE b == m.room[r].vtx_batch_bounds
           F == BoundsFreed(m, r)
           X == WithoutBounds(m, r)
<1>1. X = [F EXCEPT !.room[r].vtx_batch_bounds = NULL]
  BY DEF WithoutBounds
<1>2. F \in Memories /\ F.room = m.room
      /\ \A C \in SUBSET Blks : \A n :
           (b = NULL /\ C = Claims(m.room) /\ n = 0)
             \/ (b # NULL /\ Fresh(b, Bounds[r], C) /\ n = Bounds[r]
                 /\ Claims(m.room) = C \cup {<<b, Bounds[r]>>})
             => F.spaces \in Tables(C, Spare(m) + n - (F.lost - m.lost))
  <2>1. CASE b = NULL
    <3>1. F = m
      BY <2>1 DEF BoundsFreed
    <3> HIDE DEF F
    <3>2. Spare(m) + 0 - (F.lost - m.lost) = Spare(m)
      BY <3>1, GoodParts, Spares
    <3> QED BY <2>1, <3>1, <3>2, GoodParts
  <2>2. CASE b # NULL
    <3>1. F = Freed(m, b, Bounds[r])
      BY <2>2 DEF BoundsFreed
    <3>2. PICK rm : rm = [m.room EXCEPT ![r].vtx_batch_bounds = NULL]
      OBVIOUS
    <3>3. /\ OnlyRoom(rm, m.room, r) /\ m.room[r].vertices = rm[r].vertices
          /\ m.room[r].cur_room_totalsize = rm[r].cur_room_totalsize
          /\ rm[r].vtx_batch_bounds = NULL
          /\ m.room \in [Room -> RoomInfo] /\ rm \in [Room -> RoomInfo]
      <4>1. m.room \in [Room -> RoomInfo]
        BY GoodParts
      <4> QED BY <3>2, <4>1, Constants DEF OnlyRoom, RoomInfo
    <3>4. OneMore(rm, m.room, <<r, 2>>, b, Bounds[r])
      BY <2>2, <3>3, BoundsAreOneMore
    <3>5. BlocksApart(rm) /\ Fresh(b, Bounds[r], Claims(rm))
      BY <3>4, GoodParts, Release
    <3>6. Claims(m.room) = Claims(rm) \cup {<<b, Bounds[r]>>} /\ Claims(rm) \in SUBSET Blks
      BY <3>4, <3>5, OneMoreClaim, ClaimsAreBlocks
    <3>7. /\ m \in Memories /\ m.spaces \in Tables(Claims(rm) \cup {<<b, Bounds[r]>>}, Spare(m))
      BY <3>6, GoodParts
    <3>10. PICK z, w, D : z = Bounds[r] /\ w = Spare(m) /\ D = Claims(rm)
      OBVIOUS
    <3>11. m \in Memories /\ w \in Int
      BY <3>7, <3>10, Spares
    <3> HIDE DEF F, b
    <3>12. /\ F = Freed(m, b, z) /\ Fresh(b, z, D) /\ D \in SUBSET Blks
           /\ m.spaces \in Tables(D \cup {<<b, z>>}, w)
      BY <3>1, <3>5, <3>6, <3>7, <3>10
    <3>8. F \in Memories /\ F.room = m.room
      <4>1. GivenBack(Freed(m, b, z), m, D, w, z)
        BY <3>11, <3>12, FreeGivesBack
      <4> QED BY <4>1, <3>12 DEF GivenBack
    <3>9. ASSUME NEW C \in SUBSET Blks, Fresh(b, Bounds[r], C),
                 Claims(m.room) = C \cup {<<b, Bounds[r]>>}
          PROVE  F.spaces \in Tables(C, Spare(m) + Bounds[r] - (F.lost - m.lost))
      <4>1. /\ C \in SUBSET Blks /\ Fresh(b, z, C)
            /\ m.spaces \in Tables(C \cup {<<b, z>>}, w)
        BY <3>9, <3>10, GoodParts
      <4>2. GivenBack(Freed(m, b, z), m, C, w, z)
        BY <3>11, <4>1, FreeGivesBack
      <4> QED BY <4>2, <3>10, <3>12 DEF GivenBack
    <3> QED BY <2>2, <3>8, <3>9
  <2> QED BY <2>1, <2>2
<1> HIDE DEF F, X
<1>3. /\ X \in Memories /\ X.spaces = F.spaces /\ X.lost = F.lost /\ OnlyRoom(m.room, X.room, r)
      /\ SameData(X.room[r], m.room[r]) /\ X.room[r].vtx_batch_bounds = NULL
  BY <1>1, <1>2, ClearBounds
<1>4. RoomStates(X.room)
  BY <1>3, GoodParts DEF RoomStates, OnlyRoom, SameData
<1>5. BlocksApart(X.room) /\ X.spaces \in Tables(Claims(X.room), Spare(X))
  <2>1. CASE b = NULL
    <3>1. X.room = m.room
      <4>1. m.room \in [Room -> RoomInfo] /\ X.room \in [Room -> RoomInfo]
        BY <1>3, GoodParts DEF Memories
      <4>2. X.room[r] = m.room[r]
        BY <1>3, <2>1, <4>1 DEF SameData, RoomInfo
      <4> QED BY <4>1, <4>2, <1>3 DEF OnlyRoom
    <3>2. X.spaces \in Tables(Claims(m.room), Spare(m) + 0 - (F.lost - m.lost))
      BY <1>2, <1>3, <2>1, GoodParts
    <3>3. Spare(X) = Spare(m) + 0 - (F.lost - m.lost)
      BY <1>2, <1>3, <3>1, GoodParts, Spares
    <3> QED BY <3>1, <3>2, <3>3, GoodParts
  <2>2. CASE b # NULL
    <3>1. OnlyRoom(X.room, m.room, r)
      BY <1>3 DEF OnlyRoom
    <3>2. OneMore(X.room, m.room, <<r, 2>>, b, Bounds[r])
      BY <1>3, <2>2, <3>1, BoundsAreOneMore, GoodParts, Spares DEF SameData
    <3>3. BlocksApart(X.room) /\ Fresh(b, Bounds[r], Claims(X.room))
      BY <3>2, GoodParts, Release
    <3>4. /\ Claims(m.room) = Claims(X.room) \cup {<<b, Bounds[r]>>}
          /\ Claims(X.room) \in SUBSET Blks
      BY <3>2, <3>3, OneMoreClaim, ClaimsAreBlocks
    <3>5. X.spaces \in Tables(Claims(X.room), Spare(m) + Bounds[r] - (F.lost - m.lost))
      BY <1>2, <1>3, <2>2, <3>3, <3>4
    <3>6. Spare(X) = Spare(m) + Bounds[r] - (F.lost - m.lost)
      BY <1>2, <1>3, <3>2, GoodParts, Spares DEF OneMore
    <3> QED BY <3>3, <3>5, <3>6
  <2> QED BY <2>1, <2>2
<1>6. X \in Good
  BY <1>3, <1>4, <1>5 DEF Good
<1> QED BY <1>3, <1>6 DEF Keeps, SameData, X

\* A room in use is deleted: its blocks are spaces again.
LEMMA DeletedKeeps ==
  ASSUME NEW m \in Good, NEW r \in Room, m.room[r].vertices # NULL
  PROVE  Keeps(Deleted(m, r), m, r)
<1> DEFINE n == WithoutBounds(m, r)
           z == m.room[r].cur_room_totalsize
           a == m.room[r].vertices
           o == Freed(n, a, z)
           X == Deleted(m, r)
<1>1. Keeps(n, m, r) /\ SameData(n.room[r], m.room[r]) /\ n.room[r].vtx_batch_bounds = NULL
  BY WithoutBoundsKeeps
<1>2. n \in Good /\ n.room[r].vertices = a /\ n.room[r].cur_room_totalsize = z /\ a # NULL
  BY <1>1 DEF Keeps, SameData
<1>3. z # 0
  BY GoodParts DEF RoomStates
<1>4. X = [o EXCEPT !.room[r].model_bin_loaded = 0, !.room[r].vertices = NULL]
  BY <1>3 DEF Deleted
<1> HIDE DEF n, X
<1>5. PICK rm : rm = [n.room EXCEPT ![r].vertices = NULL]
  OBVIOUS
<1>6. /\ OnlyRoom(rm, n.room, r) /\ n.room[r].vtx_batch_bounds = rm[r].vtx_batch_bounds
      /\ rm[r].vertices = NULL
      /\ n.room \in [Room -> RoomInfo] /\ rm \in [Room -> RoomInfo]
  <2>1. n.room \in [Room -> RoomInfo]
    BY <1>2, GoodParts
  <2> QED BY <1>5, <2>1, Constants DEF OnlyRoom, RoomInfo
<1>7. OneMore(rm, n.room, <<r, 1>>, a, z)
  BY <1>2, <1>6, DataAreOneMore
<1>8. BlocksApart(rm) /\ Fresh(a, z, Claims(rm))
  BY <1>2, <1>7, GoodParts, Release
<1>9. Claims(n.room) = Claims(rm) \cup {<<a, z>>} /\ Claims(rm) \in SUBSET Blks
  BY <1>7, <1>8, OneMoreClaim, ClaimsAreBlocks
<1>10. n \in Memories /\ n.spaces \in Tables(Claims(rm) \cup {<<a, z>>}, Spare(n))
  BY <1>2, <1>9, GoodParts
<1>11. o \in Memories /\ o.room = n.room
  <2>1. n.room \in [Room -> RoomInfo]
    BY <1>6
  <2>2. PICK w \in Int : w = Spare(n)
    BY <1>10, <2>1, Spares
  <2>3. PICK b, j, D : b = a /\ j = z /\ D = Claims(rm)
    OBVIOUS
  <2>4. /\ D \in SUBSET Blks /\ Fresh(b, j, D) /\ n \in Memories
        /\ w \in Int /\ n.spaces \in Tables(D \cup {<<b, j>>}, w)
    BY <1>8, <1>9, <1>10, <2>2, <2>3
  <2>5. GivenBack(Freed(n, b, j), n, D, w, j)
    BY <2>4, FreeGivesBack
  <2> QED BY <2>3, <2>5 DEF GivenBack
<1>12. /\ X \in Memories /\ X.spaces = o.spaces /\ X.lost = o.lost /\ OnlyRoom(n.room, X.room, r)
       /\ X.room[r].model_bin_loaded = 0 /\ X.room[r].vertices = NULL
       /\ X.room[r].cur_room_totalsize = z
       /\ X.room[r].vtx_batch_bounds = NULL
  <2> HIDE DEF o
  <2>1. /\ X \in Memories /\ X.spaces = o.spaces /\ X.lost = o.lost /\ OnlyRoom(o.room, X.room, r)
        /\ X.room[r].model_bin_loaded = 0 /\ X.room[r].vertices = NULL
        /\ X.room[r].cur_room_totalsize = o.room[r].cur_room_totalsize
        /\ X.room[r].vtx_batch_bounds = o.room[r].vtx_batch_bounds
    BY <1>4, <1>11, ClearData
  <2> QED BY <1>1, <1>2, <1>11, <2>1
<1>13. RoomStates(X.room)
  BY <1>2, <1>12, GoodParts DEF RoomStates, OnlyRoom
<1>14. BlocksApart(X.room) /\ X.spaces \in Tables(Claims(X.room), Spare(X))
  <2>1. OnlyRoom(X.room, n.room, r)
    BY <1>12 DEF OnlyRoom
  <2>2. OneMore(X.room, n.room, <<r, 1>>, a, z)
    BY <1>1, <1>2, <1>12, <2>1, DataAreOneMore, GoodParts, Spares
  <2>3. BlocksApart(X.room) /\ Fresh(a, z, Claims(X.room))
    BY <1>2, <2>2, GoodParts, Release
  <2>4. Claims(n.room) = Claims(X.room) \cup {<<a, z>>} /\ Claims(X.room) \in SUBSET Blks
    BY <2>2, <2>3, OneMoreClaim, ClaimsAreBlocks
  <2>5. n.spaces \in Tables(Claims(X.room) \cup {<<a, z>>}, Spare(n))
    BY <1>2, <2>4, GoodParts
  <2>6. o.spaces \in Tables(Claims(X.room), Spare(n) + z - (o.lost - n.lost))
    <3>1. PICK w \in Int : w = Spare(n)
      BY <1>6, <1>10, Spares
    <3>2. PICK b, j, D : b = a /\ j = z /\ D = Claims(X.room)
      OBVIOUS
    <3>3. /\ D \in SUBSET Blks /\ Fresh(b, j, D) /\ n \in Memories
          /\ w \in Int /\ n.spaces \in Tables(D \cup {<<b, j>>}, w)
      BY <1>10, <2>3, <2>4, <2>5, <3>1, <3>2
    <3>4. GivenBack(Freed(n, b, j), n, D, w, j)
      BY <3>3, FreeGivesBack
    <3> QED BY <3>1, <3>2, <3>4 DEF GivenBack
  <2>7. Spare(X) = Spare(n) + z - (o.lost - n.lost)
    <3> HIDE DEF o
    <3> QED BY <1>10, <1>11, <1>12, <2>2, Spares DEF OneMore
  <2> QED BY <1>12, <2>3, <2>6, <2>7
<1>15. X \in Good
  BY <1>12, <1>13, <1>14 DEF Good
<1>16. OnlyRoom(m.room, X.room, r)
  BY <1>1, <1>12 DEF Keeps, OnlyRoom
<1> QED BY <1>12, <1>15, <1>16 DEF Keeps, X

\* The rest of a block that is handed out is a block of its own.
LEMMA SplitBlock ==
  ASSUME NEW C \in SUBSET Blks, NEW a, NEW n, Fresh(a, n, C), NEW k \in Nat \ {0}, k < n,
         NEW free, NEW t \in Tables(C \cup {<<a, n>>}, free)
  PROVE  /\ Fresh(a, k, C) /\ Fresh(a + k, n - k, C \cup {<<a, k>>})
         /\ t \in Tables((C \cup {<<a, k>>}) \cup {<<a + k, n - k>>}, free)
<1>1. a \in Nat /\ n \in Nat /\ n # 0 /\ InHeap(a, n) /\ k \in Nat /\ k # 0
  BY DEF Fresh
<1>2. a + k \in Nat /\ n - k \in Nat \ {0} /\ InHeap(a, k) /\ InHeap(a + k, n - k)
  BY <1>1, Constants DEF InHeap
<1>3. \A c \in C : /\ c[1] \in Nat /\ c[2] \in Nat /\ c[2] # 0
                   /\ Apart(a, n, c[1], c[2])
  BY DEF Blks, Fresh
<1>4. \A c \in C : Apart(a, k, c[1], c[2]) /\ Apart(a + k, n - k, c[1], c[2])
  BY <1>1, <1>3 DEF Apart
<1>5. Apart(a + k, n - k, a, k)
  BY <1>1 DEF Apart
<1>6. Fresh(a, k, C) /\ Fresh(a + k, n - k, C \cup {<<a, k>>})
  BY <1>1, <1>2, <1>4, <1>5 DEF Fresh
<1>7. ASSUME NEW i \in Slot, t[i].size # 0
      PROVE  /\ \A c \in C : Apart(t[i].addr, t[i].size, c[1], c[2])
             /\ Apart(t[i].addr, t[i].size, a, k)
             /\ Apart(t[i].addr, t[i].size, a + k, n - k)
  <2>1. Avoids(t, C \cup {<<a, n>>})
    BY DEF Tables
  <2>2. \A c \in C : Apart(t[i].addr, t[i].size, c[1], c[2])
    BY <1>7, <2>1 DEF Avoids
  <2>3. Apart(t[i].addr, t[i].size, a, n)
    <3>1. PICK c \in C \cup {<<a, n>>} : c = <<a, n>>
      OBVIOUS
    <3>2. Apart(t[i].addr, t[i].size, c[1], c[2])
      BY <1>7, <2>1 DEF Avoids
    <3> QED BY <3>1, <3>2
  <2>4. t[i].addr \in Nat /\ t[i].size \in Nat
    BY EntryTypes
  <2> QED BY <2>2, <2>3, <2>4, <1>1, <1>7 DEF Apart
<1>8. Avoids(t, (C \cup {<<a, k>>}) \cup {<<a + k, n - k>>})
  <2> SUFFICES ASSUME NEW i \in Slot, t[i].size # 0,
                      NEW c \in (C \cup {<<a, k>>}) \cup {<<a + k, n - k>>}
               PROVE  Apart(t[i].addr, t[i].size, c[1], c[2])
    BY DEF Avoids
  <2>1. CASE c \in C
    BY <2>1, <1>7
  <2>2. CASE c = <<a, k>>
    BY <2>2, <1>7
  <2>3. CASE c = <<a + k, n - k>>
    BY <2>3, <1>7
  <2> QED BY <2>1, <2>2, <2>3
<1> QED BY <1>6, <1>8 DEF Tables

\* A room's data are put into a block that is clear, and what the block has too
\* much is given back.
Fillable(m, r, t, a, n) ==
  /\ m.room[r].vertices = NULL /\ m.room[r].vtx_batch_bounds = NULL
  /\ a # NULL /\ n >= Need[r] + 2 /\ Fresh(a, n, Claims(m.room))
  /\ t \in Tables(Claims(m.room) \cup {<<a, n>>}, Spare(m) - n)
Filled(m, r, t, a, n) == Reallocated(DataSet(m, r, t, a, Need[r] + 2), a, n, Need[r] + 2)

\* A room that is filled keeps the memory as it should be.
LEMMA FilledKeeps ==
  ASSUME NEW m \in Good, NEW r \in Room, NEW t, NEW a, NEW n, Fillable(m, r, t, a, n),
         NEW X, X = Filled(m, r, t, a, n)
  PROVE  /\ X \in Good /\ OnlyRoom(m.room, X.room, r)
         /\ X.room[r].cur_room_totalsize = Need[r] + 2
         /\ X.room[r].vertices = a
<1> DEFINE C == Claims(m.room)
<1>0. /\ m.room[r].vertices = NULL /\ m.room[r].vtx_batch_bounds = NULL
      /\ a # NULL /\ n >= Need[r] + 2 /\ Fresh(a, n, C)
      /\ t \in Tables(C \cup {<<a, n>>}, Spare(m) - n)
  BY DEF Fillable
<1>1. PICK k : k = Need[r] + 2
  OBVIOUS
<1>2. PICK L : L = DataSet(m, r, t, a, k)
  OBVIOUS
<1>3. X = Reallocated(L, a, n, k)
  BY <1>1, <1>2 DEF Filled
<1>4. k \in Nat \ {0} /\ k # 0 /\ k <= n /\ n \in Nat /\ a \in Nat
  BY <1>0, <1>1, Needs DEF Fresh
<1>5. t \in [Slot -> Space] /\ m \in Memories
  BY <1>0, EntryTypes, GoodParts
<1>6. /\ L \in Memories /\ L.spaces = t /\ L.lost = m.lost /\ OnlyRoom(m.room, L.room, r)
      /\ L.room[r].model_bin_loaded = 1 /\ L.room[r].vertices = a
      /\ L.room[r].cur_room_totalsize = k
      /\ L.room[r].vtx_batch_bounds = m.room[r].vtx_batch_bounds
  <2>1. a \in Nat /\ k \in Nat
    BY <1>4
  <2> QED BY <2>1, <1>2, <1>5, SetData
<1>7. RoomStates(L.room)
  BY <1>0, <1>1, <1>4, <1>6, GoodParts DEF RoomStates, OnlyRoom
<1>8. OneMore(m.room, L.room, <<r, 1>>, a, k)
  BY <1>0, <1>5, <1>6, DataAreOneMore, Spares
<1>9. Claims(L.room) = C \cup {<<a, k>>}
  BY <1>8, OneMoreClaim
<1>10. C \in SUBSET Blks /\ BlocksApart(m.room)
  BY GoodParts
<1>11. /\ Spare(L) = Spare(m) - k /\ Spare(m) \in Int /\ m.lost \in Nat
       /\ Owned(L.room) \in Nat
  BY <1>4, <1>5, <1>6, <1>8, Spares DEF OneMore
<1>12. CASE n = k
  <2>1. X = L
    BY <1>3, <1>4, <1>12 DEF Reallocated
  <2>2. BlocksApart(L.room)
    BY <1>0, <1>8, <1>10, <1>12, Acquire
  <2>3. X \in Good
    BY <2>1, <2>2, <1>0, <1>6, <1>7, <1>9, <1>12, <1>11 DEF Good
  <2> QED BY <2>1, <2>3, <1>1, <1>2, <1>3, <1>6
<1>13. CASE k < n
  <2>1. X = Freed(L, a + k, n - k)
    BY <1>3, <1>4, <1>13 DEF Reallocated
  <2>2. /\ Fresh(a, k, C) /\ Fresh(a + k, n - k, C \cup {<<a, k>>})
        /\ t \in Tables((C \cup {<<a, k>>}) \cup {<<a + k, n - k>>}, Spare(m) - n)
    BY <1>0, <1>4, <1>10, <1>13, SplitBlock
  <2>3. BlocksApart(L.room)
    BY <1>8, <1>10, <2>2, Acquire
  <2>4. C \cup {<<a, k>>} \in SUBSET Blks
    BY <2>3, <1>9, ClaimsAreBlocks
  <2>5. X \in Memories /\ X.spaces \in Tables(C \cup {<<a, k>>}, Spare(X)) /\ X.room = L.room
    <3>1. PICK b, j, D : b = a + k /\ j = n - k /\ D = C \cup {<<a, k>>}
      OBVIOUS
    <3>2. /\ D \in SUBSET Blks /\ Fresh(b, j, D) /\ L \in Memories
          /\ L.spaces \in Tables(D \cup {<<b, j>>}, Spare(m) - n)
      BY <2>2, <2>4, <3>1, <1>6
    <3>3. X = Freed(L, b, j)
      BY <2>1, <3>1
    <3>4. /\ X \in Memories /\ X.room = L.room
          /\ X.spaces \in Tables(D, Spare(m) - n + j - (X.lost - L.lost))
      <4>1. n \in Int /\ Spare(m) \in Int
        BY <1>4, <1>11
      <4>2. PICK w \in Int : w = Spare(m) - n
        BY <4>1
      <4>3. /\ D \in SUBSET Blks /\ Fresh(b, j, D) /\ L \in Memories
            /\ w \in Int /\ L.spaces \in Tables(D \cup {<<b, j>>}, w)
        BY <3>2, <4>2
      <4>4. GivenBack(Freed(L, b, j), L, D, w, j)
        BY <4>3, FreeGivesBack
      <4> QED BY <3>3, <4>2, <4>4 DEF GivenBack
    <3>5. Spare(X) = Spare(m) - n + j - (X.lost - L.lost)
      <4>1. /\ Spare(L) = HeapSize - (Owned(L.room) + L.lost)
            /\ L.lost \in Nat /\ HeapSize \in Nat
        BY <1>6, Spares
      <4>2. Spare(X) = HeapSize - (Owned(L.room) + X.lost) /\ X.lost \in Nat
        BY <3>4, Spares
      <4> QED BY <3>1, <4>1, <4>2, <1>4, <1>11
    <3> QED BY <3>1, <3>4, <3>5
  <2>6. X \in Good
    BY <2>3, <2>5, <1>7, <1>9 DEF Good
  <2> QED BY <2>5, <2>6, <1>1, <1>2, <1>3, <1>6
<1> QED BY <1>4, <1>12, <1>13

\* Loading a room keeps the blocks apart if the longest space is enough for a room
\* of which the size is not known yet; and then the size is known.
LEMMA LoadedKeeps ==
  ASSUME NEW m \in Good, NEW r \in Room,
         m.room[r].cur_room_totalsize = 0 => Longest(Defrag(m.spaces)) >= Need[r] + 2
  PROVE  /\ Loaded(m, r) \in Good /\ OnlyRoom(m.room, Loaded(m, r).room, r)
         /\ Loaded(m, r).room[r].cur_room_totalsize # 0
         /\ m.room[r].cur_room_totalsize = 0 => Loaded(m, r).room[r].vertices # NULL
<1> DEFINE X == Loaded(m, r)
           C == Claims(m.room)
           known == m.room[r].cur_room_totalsize > 0
           table == IF known THEN m.spaces ELSE Defrag(m.spaces)
           allocsize == IF known THEN m.room[r].cur_room_totalsize ELSE Longest(table)
<1>1. PICK T : T = table
  OBVIOUS
<1>2. PICK n : n = allocsize
  OBVIOUS
<1>3. PICK t, a : t = Allocated(T, n).table /\ a = Allocated(T, n).addr
  OBVIOUS
<1>4. X = IF m.room[r].model_bin_loaded # 0 THEN m
          ELSE IF a = NULL THEN [m EXCEPT !.spaces = t]
          ELSE WithBounds(Reallocated(DataSet(m, r, t, a, Need[r] + 2), a, n, Need[r] + 2), r)
  <2> DEFINE A == Allocated(table, allocsize)
  <2>1. X = IF m.room[r].model_bin_loaded # 0 THEN m
            ELSE IF A.addr = NULL THEN [m EXCEPT !.spaces = A.table]
            ELSE WithBounds(Reallocated(DataSet(m, r, A.table, A.addr, Need[r] + 2),
                                        A.addr, allocsize, Need[r] + 2), r)
    BY DEF Loaded, DataSet
  <2>2. A.table = t /\ A.addr = a /\ allocsize = n
    BY <1>1, <1>2, <1>3
  <2> HIDE DEF A, allocsize, X
  <2> QED BY <2>1, <2>2
<1> HIDE DEF X
<1>5. /\ m.room[r].vertices # NULL <=> m.room[r].model_bin_loaded # 0
      /\ m.room[r].cur_room_totalsize \in {0, Need[r] + 2}
      /\ m.room[r].vertices # NULL => m.room[r].cur_room_totalsize # 0
      /\ m.room[r].vertices = NULL => m.room[r].vtx_batch_bounds = NULL
  BY GoodParts DEF RoomStates
<1>6. CASE m.room[r].model_bin_loaded # 0
  <2>1. X = m
    BY <1>4, <1>6
  <2> QED BY <2>1, <1>5, <1>6 DEF OnlyRoom, X
<1>7. CASE m.room[r].model_bin_loaded = 0
  <2>1. Need[r] + 2 \in Nat \ {0} /\ C \in SUBSET Blks /\ m.spaces \in Tables(C, Spare(m))
    BY Needs, GoodParts
  <2>2. /\ T \in Tables(C, Spare(m)) /\ n \in Nat \ {0} /\ n >= Need[r] + 2
        /\ m.room[r].cur_room_totalsize = 0 => \E i \in Slot : T[i].size >= n
    <3>1. CASE m.room[r].cur_room_totalsize = 0
      <4>1. T = Defrag(m.spaces) /\ n = Longest(T)
        BY <3>1, <1>1, <1>2
      <4>2. T \in Tables(C, Spare(m))
        BY <4>1, <2>1, DefragKeeps
      <4>3. n \in Nat /\ \E i \in Slot : T[i].size = n
        BY <4>1, <4>2, LongestIs
      <4>4. n >= Need[r] + 2
        BY <3>1, <4>1
      <4> QED BY <2>1, <4>2, <4>3, <4>4
    <3>2. CASE m.room[r].cur_room_totalsize # 0
      <4>1. m.room[r].cur_room_totalsize = Need[r] + 2 /\ Need[r] + 2 > 0
        BY <3>2, <1>5, <2>1
      <4>2. T = m.spaces /\ n = Need[r] + 2
        BY <4>1, <1>1, <1>2
      <4> QED BY <3>2, <4>2, <2>1
    <3> QED BY <3>1, <3>2
  <2> HIDE DEF C, known, table, allocsize
  <2>3. /\ HandsOut(Allocated(T, n), n, C, Spare(m))
        /\ m.room[r].cur_room_totalsize = 0 => a # NULL
    BY <2>1, <2>2, <1>3, AllocationHandsOut
  <2>4. CASE a = NULL
    <3>1. X = [m EXCEPT !.spaces = t]
      BY <1>4, <1>7, <2>4
    <3>2. t \in Tables(C, Spare(m))
      BY <2>3, <2>4, <1>3 DEF HandsOut
    <3>3. t \in [Slot -> Space]
      BY <3>2, EntryTypes
    <3>4. X \in Memories /\ X.spaces = t /\ X.room = m.room /\ X.lost = m.lost
      BY <3>1, <3>3, GoodParts DEF Memories
    <3>5. X \in Good
      BY <3>2, <3>4, GoodParts DEF Good, C, Spare
    <3> QED BY <3>4, <3>5, <2>3, <2>4 DEF OnlyRoom, X
  <2>5. CASE a # NULL
    <3> DEFINE Y == Reallocated(DataSet(m, r, t, a, Need[r] + 2), a, n, Need[r] + 2)
    <3>1. Fresh(a, n, C) /\ t \in Tables(C \cup {<<a, n>>}, Spare(m) - n)
      BY <2>3, <2>5, <1>3 DEF HandsOut
    <3>2. /\ Y \in Good /\ OnlyRoom(m.room, Y.room, r)
          /\ Y.room[r].cur_room_totalsize = Need[r] + 2
          /\ Y.room[r].vertices = a
      <4>1. m.room[r].vertices = NULL /\ m.room[r].vtx_batch_bounds = NULL
        BY <1>5, <1>7
      <4>2. n >= Need[r] + 2
        BY <2>2
      <4>3. Fillable(m, r, t, a, n)
        BY <2>5, <3>1, <4>1, <4>2 DEF Fillable, C
      <4>4. Y = Filled(m, r, t, a, n)
        BY DEF Filled
      <4> HIDE DEF Y
      <4> QED BY <4>3, <4>4, FilledKeeps
    <3>3. X = WithBounds(Y, r)
      BY <1>4, <1>7, <2>5
    <3> HIDE DEF Y
    <3>4. Keeps(X, Y, r) /\ X.room[r].vertices = a
      BY <3>2, <3>3, <2>5, WithBoundsKeeps
    <3>5. X \in Good /\ OnlyRoom(m.room, X.room, r) /\ X.room[r].cur_room_totalsize # 0
      BY <3>2, <3>4, <2>1 DEF Keeps, OnlyRoom
    <3> QED BY <3>4, <3>5, <2>5 DEF X
  <2> QED BY <2>4, <2>5
<1> QED BY <1>6, <1>7

-------------------------------------------------------------------------------
(* What is done to all rooms.                                              *)

\* The good memories in which the sizes of all rooms are known.
Settled == {m \in Good : \A r \in Room : m.room[r].cur_room_totalsize # 0}

\* Changing how much in use a room is does not move its blocks.
LEMMA UseKeeps ==
  ASSUME NEW m \in Good, NEW r \in Room, NEW X \in Memories, X.spaces = m.spaces,
         X.lost = m.lost, OnlyRoom(m.room, X.room, r),
         X.room[r].model_bin_loaded # 0 <=> m.room[r].model_bin_loaded # 0,
         X.room[r].vertices = m.room[r].vertices,
         X.room[r].cur_room_totalsize = m.room[r].cur_room_totalsize,
         X.room[r].vtx_batch_bounds = m.room[r].vtx_batch_bounds
  PROVE  Keeps(X, m, r)
<1>1. \A q \in Room : /\ X.room[q].vertices = m.room[q].vertices
                      /\ X.room[q].cur_room_totalsize = m.room[q].cur_room_totalsize
                      /\ X.room[q].vtx_batch_bounds = m.room[q].vtx_batch_bounds
                      /\ X.room[q].model_bin_loaded # 0 <=> m.room[q].model_bin_loaded # 0
  BY DEF OnlyRoom
<1>2. \A x \in Keys : x[1] \in Room
  BY DEF Keys
<1>3. Held(X.room) = Held(m.room)
  BY <1>1, <1>2 DEF Held
<1>4. \A x \in Held(m.room) : Claim(X.room, x) = Claim(m.room, x)
  BY <1>1, <1>2 DEF Claim, Held
<1>5. Claims(X.room) = Claims(m.room)
  BY <1>3, <1>4, Zenon DEF Claims
<1>6. BlocksApart(X.room)
  <2>1. BlocksApart(m.room)
    BY GoodParts
  <2> QED BY <2>1, <1>3, <1>4 DEF BlocksApart
<1>7. RoomStates(X.room)
  BY <1>1, GoodParts DEF RoomStates
<1>8. Owned(X.room) = Owned(m.room)
  BY <1>1 DEF Owned, DataSizes, BoundsSizes
<1>9. X.spaces \in Tables(Claims(X.room), Spare(X))
  BY <1>5, <1>8, GoodParts DEF Spare
<1> QED BY <1>6, <1>7, <1>9 DEF Keeps, Good

\* An operation on one room leaves the sizes of all known.
LEMMA KeepsSettled ==
  ASSUME NEW m \in Settled, NEW r \in Room, NEW X, Keeps(X, m, r)
  PROVE  X \in Settled
BY DEF Settled, Keeps, OnlyRoom

\* Ageing and unloading a room.
LEMMA AgedKeeps ==
  ASSUME NEW m \in Settled, NEW r \in Room
  PROVE  Aged(m, r) \in Settled /\ Unload(m, r) \in Settled
<1> DEFINE k == m.room[r].model_bin_loaded
<1>1. m \in Good /\ m \in Memories
  BY GoodParts DEF Settled
<1>2. k \in 0 .. MaxAge /\ MaxAge \in Nat
  BY <1>1, RoomsAssumption DEF Memories, RoomInfo
<1>3. k # 0 => m.room[r].vertices # NULL
  BY <1>1, GoodParts DEF RoomStates
<1>4. k # 0 => Deleted(m, r) \in Settled
  BY <1>1, <1>3, DeletedKeeps, KeepsSettled
<1>5. Unload(m, r) \in Settled
  BY <1>4 DEF Unload
<1>6. CASE m.room[r].field_35 \/ k = 0
  <2>1. Aged(m, r) = m
    BY <1>6 DEF Aged
  <2> QED BY <2>1, <1>5
<1>7. CASE ~(m.room[r].field_35 \/ k = 0) /\ k = MaxAge
  <2>1. Aged(m, r) = Deleted(m, r)
    BY <1>7 DEF Aged
  <2>2. k # 0
    BY <1>7
  <2> QED BY <2>1, <2>2, <1>4, <1>5
<1>8. CASE ~(m.room[r].field_35 \/ k = 0) /\ k # MaxAge
  <2>1. PICK j : j = k + 1
    OBVIOUS
  <2>2. j \in 0 .. MaxAge /\ j # 0
    BY <1>2, <1>8, <2>1
  <2>3. PICK X : X = UseSet(m, r, j)
    OBVIOUS
  <2>4. Aged(m, r) = X
    BY <1>8, <2>1, <2>3 DEF Aged, UseSet
  <2>5. /\ X \in Memories /\ X.spaces = m.spaces /\ X.lost = m.lost /\ OnlyRoom(m.room, X.room, r)
        /\ X.room[r].model_bin_loaded = j
        /\ X.room[r].vertices = m.room[r].vertices
        /\ X.room[r].cur_room_totalsize = m.room[r].cur_room_totalsize
        /\ X.room[r].vtx_batch_bounds = m.room[r].vtx_batch_bounds
    BY <1>1, <2>2, <2>3, SetUse
  <2>6. Keeps(X, m, r)
    BY <1>1, <1>8, <2>2, <2>5, UseKeeps
  <2>7. X \in Settled
    BY <2>6, KeepsSettled
  <2> QED BY <2>4, <2>7, <1>5
<1> QED BY <1>6, <1>7, <1>8

\* The rooms in turn are aged.
LEMMA AllAged ==
  ASSUME NEW m \in Settled
  PROVE  FoldLeft(Aged, m, [r \in Room |-> r]) \in Settled
<1> DEFINE V == Settled
           seq == [r \in Room |-> r]
           h == [x \in V \X Room |-> Aged(x[1], x[2])]
           Eq(it) == it = [s \in SUBSET DOMAIN seq |->
                             IF s = {} THEN m ELSE Aged(it[s \ {Max(s)}], seq[Max(s)])]
<1>1. m \in V
  OBVIOUS
<1>2. \A s \in V, r \in Room : Aged(s, r) \in V
  BY AgedKeeps
<1>3. h \in [V \X Room -> V]
  BY <1>2
<1>4. /\ DOMAIN seq = Room /\ \A r \in Room : seq[r] = r
      /\ NumRooms \in Nat /\ Room = 1 .. NumRooms
  BY RoomsAssumption DEF Room
<1>5. FoldLeft(Aged, m, seq) = (CHOOSE it : Eq(it))[Room]
  BY <1>4, Zenon DEF FoldLeft, MapThenFoldSet
<1> HIDE DEF V, seq, h
<1>6. \A s \in SUBSET Room : s # {} => Max(s) \in Room /\ s \ {Max(s)} \in SUBSET Room
  BY <1>4, LastOf
<1>7. PICK g \in [SUBSET Room -> V] : Folding(g, NumRooms, m, h)
  BY <1>1, <1>3, <1>4, FoldExists
<1>8. Eq(g)
  <2>1. ASSUME NEW s \in SUBSET Room
        PROVE  g[s] = IF s = {} THEN m ELSE Aged(g[s \ {Max(s)}], seq[Max(s)])
    <3>1. CASE s = {}
      BY <3>1, <1>7, <1>4 DEF Folding
    <3>2. CASE s # {}
      <4>1. Max(s) \in Room /\ g[s \ {Max(s)}] \in V
        BY <3>2, <1>6, <1>7
      <4>2. h[<<g[s \ {Max(s)}], Max(s)>>] = Aged(g[s \ {Max(s)}], Max(s))
        BY <4>1 DEF h
      <4>3. g[s] = h[<<g[s \ {Max(s)}], Max(s)>>]
        BY <3>2, <1>4, <1>7 DEF Folding
      <4> QED BY <3>2, <4>1, <4>2, <4>3, <1>4
    <3> QED BY <3>1, <3>2
  <2> QED BY <2>1, <1>4, <1>7
<1>9. PICK f : f = (CHOOSE it : Eq(it))
  OBVIOUS
<1>10. Eq(f)
  BY <1>8, <1>9
<1>11. f[{}] \in V
  BY <1>1, <1>4, <1>10
<1>12. ASSUME NEW s \in SUBSET Room, s # {}, f[s \ {Max(s)}] \in V
       PROVE  f[s] \in V
  <2>1. f[s] = Aged(f[s \ {Max(s)}], Max(s)) /\ Max(s) \in Room
    BY <1>12, <1>4, <1>6, <1>10
  <2> QED BY <1>12, <2>1, <1>2
<1>13. f[Room] \in V
  BY <1>4, <1>11, <1>12, FoldStays
<1>14. FoldLeft(Aged, m, seq) \in V
  BY <1>5, <1>9, <1>13
<1> QED BY <1>14 DEF V, seq

\* The rooms in turn are unloaded.
LEMMA AllUnloaded ==
  ASSUME NEW m \in Settled
  PROVE  FoldLeft(Unload, m, [r \in Room |-> r]) \in Settled
<1> DEFINE V == Settled
           seq == [r \in Room |-> r]
           h == [x \in V \X Room |-> Unload(x[1], x[2])]
           Eq(it) == it = [s \in SUBSET DOMAIN seq |->
                             IF s = {} THEN m ELSE Unload(it[s \ {Max(s)}], seq[Max(s)])]
<1>1. m \in V
  OBVIOUS
<1>2. \A s \in V, r \in Room : Unload(s, r) \in V
  BY AgedKeeps
<1>3. h \in [V \X Room -> V]
  BY <1>2
<1>4. /\ DOMAIN seq = Room /\ \A r \in Room : seq[r] = r
      /\ NumRooms \in Nat /\ Room = 1 .. NumRooms
  BY RoomsAssumption DEF Room
<1>5. FoldLeft(Unload, m, seq) = (CHOOSE it : Eq(it))[Room]
  BY <1>4, Zenon DEF FoldLeft, MapThenFoldSet
<1> HIDE DEF V, seq, h
<1>6. \A s \in SUBSET Room : s # {} => Max(s) \in Room /\ s \ {Max(s)} \in SUBSET Room
  BY <1>4, LastOf
<1>7. PICK g \in [SUBSET Room -> V] : Folding(g, NumRooms, m, h)
  BY <1>1, <1>3, <1>4, FoldExists
<1>8. Eq(g)
  <2>1. ASSUME NEW s \in SUBSET Room
        PROVE  g[s] = IF s = {} THEN m ELSE Unload(g[s \ {Max(s)}], seq[Max(s)])
    <3>1. CASE s = {}
      BY <3>1, <1>7, <1>4 DEF Folding
    <3>2. CASE s # {}
      <4>1. Max(s) \in Room /\ g[s \ {Max(s)}] \in V
        BY <3>2, <1>6, <1>7
      <4>2. h[<<g[s \ {Max(s)}], Max(s)>>] = Unload(g[s \ {Max(s)}], Max(s))
        BY <4>1 DEF h
      <4>3. g[s] = h[<<g[s \ {Max(s)}], Max(s)>>]
        BY <3>2, <1>4, <1>7 DEF Folding
      <4> QED BY <3>2, <4>1, <4>2, <4>3, <1>4
    <3> QED BY <3>1, <3>2
  <2> QED BY <2>1, <1>4, <1>7
<1>9. PICK f : f = (CHOOSE it : Eq(it))
  OBVIOUS
<1>10. Eq(f)
  BY <1>8, <1>9
<1>11. f[{}] \in V
  BY <1>1, <1>4, <1>10
<1>12. ASSUME NEW s \in SUBSET Room, s # {}, f[s \ {Max(s)}] \in V
       PROVE  f[s] \in V
  <2>1. f[s] = Unload(f[s \ {Max(s)}], Max(s)) /\ Max(s) \in Room
    BY <1>12, <1>4, <1>6, <1>10
  <2> QED BY <1>12, <2>1, <1>2
<1>13. f[Room] \in V
  BY <1>4, <1>11, <1>12, FoldStays
<1>14. FoldLeft(Unload, m, seq) \in V
  BY <1>5, <1>9, <1>13
<1> QED BY <1>14 DEF V, seq

-------------------------------------------------------------------------------
(* The invariant of the rooms.                                             *)

\* The memory is good, and the sizes of the rooms measured so far are known.
RoomsInv ==
  /\ stage \in 1 .. Left /\ Memory \in Good
  /\ \A r \in Room : room[r].cur_room_totalsize # 0 <=> r < stage

\* The numbers of rooms and stages.
LEMMA Stages ==
  /\ NumRooms \in Nat /\ Playing = NumRooms + 1 /\ Left = NumRooms + 2
  /\ Playing \in 1 .. Left /\ Left \in 1 .. Left /\ 1 \in 1 .. Left
  /\ \A r \in Room : r \in Nat /\ 1 <= r /\ r < Playing /\ r < Left /\ r + 1 \in 1 .. Left
                     /\ r # Playing /\ ~(r < 1)
  /\ \A r \in Room : \A q \in Room : q < r + 1 <=> (q < r \/ q = r)
  /\ Room = 1 .. NumRooms
<1>1. NumRooms \in Nat
  BY RoomsAssumption
<1> QED BY <1>1 DEF Playing, Left, Room

\* A step to a memory becomes that memory.
LEMMA Becomes ==
  ASSUME NEW m \in Memories, Become(m)
  PROVE  Memory' = m
<1>1. PICK x, y, z : m = [spaces |-> x, room |-> y, lost |-> z]
  BY DEF Memories
<1>2. spaces' = x /\ room' = y /\ lost' = z
  BY <1>1 DEF Become
<1> QED BY <1>1, <1>2 DEF Memory

\* At the start of a stage all of the heap is one space.
LEMMA WholeHeapIsGood ==
  [spaces |-> WholeHeap, room |-> [r \in Room |-> NewRoom], lost |-> 0] \in Good
<1> DEFINE rm == [r \in Room |-> NewRoom]
           m == [spaces |-> WholeHeap, room |-> rm, lost |-> 0]
<1>1. /\ NewRoom \in RoomInfo /\ NewRoom.vertices = NULL /\ NewRoom.vtx_batch_bounds = NULL
      /\ NewRoom.model_bin_loaded = 0 /\ NewRoom.cur_room_totalsize = 0
  BY RoomsAssumption DEF NewRoom, RoomInfo, NULL
<1>2. /\ WholeHeap \in [Slot -> Space]
      /\ WholeHeap[1].addr = HeapStart /\ WholeHeap[1].size = HeapSize
      /\ \A i \in Slot : i # 1 => WholeHeap[i].addr = 0 /\ WholeHeap[i].size = 0
  BY Constants DEF WholeHeap, Space, NoSpace
<1>3. Entries(WholeHeap) /\ SpacesApart(WholeHeap)
  BY <1>2, Constants DEF Entries, SpacesApart, InHeap
<1>4. Held(rm) = {}
  BY <1>1 DEF Held, Keys
<1>5. Claims(rm) = {} /\ BlocksApart(rm)
  BY <1>4 DEF Claims, BlocksApart
<1>6. Weight(FreeSizes(WholeHeap)) = HeapSize
  <2> DEFINE e == [i \in Slot |-> NoSpace]
  <2>1. e \in [Slot -> Space] /\ \A i \in Slot : e[i].size = 0
    BY EntryTypes
  <2>2. /\ Weight(FreeSizes(e)) \in Nat /\ Weight(FreeSizes(WholeHeap)) \in Nat
        /\ Weight(FreeSizes(WholeHeap)) + e[1].size = Weight(FreeSizes(e)) + WholeHeap[1].size
    <3>1. \A i \in Slot : i # 1 => WholeHeap[i] = e[i]
      BY DEF WholeHeap
    <3> HIDE DEF e
    <3> QED BY <1>2, <2>1, <3>1, Constants, OneEntry
  <2>3. Weight(FreeSizes(e)) = 0
    <3> DEFINE f == [i \in Slot |-> 0]
    <3>1. FreeSizes(e) = Triples("free", Slot, f)
      <4> HIDE DEF e
      <4> QED BY <2>1 DEF FreeSizes, Triples
    <3>2. Weighed(Triples("free", Slot, f))
      <4>1. IsFiniteSet(Slot) /\ \A i \in Slot : f[i] \in Nat
        BY Constants, FS_Interval
      <4> HIDE DEF f
      <4> QED BY <4>1, TriplesWeighed
    <3>3. \A x \in Triples("free", Slot, f) : x[3] = 0
      BY DEF Triples
    <3> HIDE DEF f, e
    <3> QED BY <3>1, <3>2, <3>3, WeightOfZeros
  <2> HIDE DEF e
  <2> QED BY <1>2, <2>1, <2>2, <2>3, Constants
<1>7. Owned(rm) = 0
  <2>1. DataSizes(rm) = {} /\ BoundsSizes(rm) = {}
    BY <1>1 DEF DataSizes, BoundsSizes
  <2>2. Weighed({})
    BY FS_EmptySet DEF Weighed
  <2>3. Weight({}) = 0
    BY <2>2, WeightIs
  <2> HIDE DEF rm
  <2> QED BY <2>1, <2>3 DEF Owned
<1>8. RoomStates(rm)
  BY <1>1 DEF RoomStates
<1>9. m \in Memories /\ m.spaces = WholeHeap /\ m.room = rm /\ m.lost = 0
  BY <1>1, <1>2 DEF Memories
<1> HIDE DEF m, rm
<1>10. WholeHeap \in Tables({}, Spare(m))
  <2>1. Spare(m) = HeapSize
    BY <1>9, <1>7, Constants DEF Spare
  <2> QED BY <2>1, <1>2, <1>3, <1>6 DEF Tables, Avoids
<1>11. m \in Good
  BY <1>5, <1>8, <1>9, <1>10 DEF Good
<1> QED BY <1>11 DEF m, rm

\* The invariant holds initially.
LEMMA InitRooms == Init => RoomsInv
<1> SUFFICES ASSUME Init PROVE RoomsInv
  OBVIOUS
<1>1. Memory = [spaces |-> WholeHeap, room |-> [r \in Room |-> NewRoom], lost |-> 0]
  BY DEF Init, Memory
<1>2. \A r \in Room : room[r].cur_room_totalsize = 0 /\ ~(r < stage)
  BY Stages DEF Init, NewRoom
<1> QED BY <1>1, <1>2, WholeHeapIsGood, Stages DEF RoomsInv, Init

\* What the rooms' steps start from.
LEMMA AtRooms ==
  ASSUME RoomsInv
  PROVE  /\ Memory \in Good /\ Memory.spaces = spaces /\ Memory.room = room
         /\ stage = Playing => Memory \in Settled
         /\ stage \in 1 .. Left
         /\ \A r \in Room : room[r].cur_room_totalsize # 0 <=> r < stage
<1>1. Memory.spaces = spaces /\ Memory.room = room
  BY DEF Memory
<1> QED BY <1>1, Stages DEF RoomsInv, Settled

\* A step while a stage is played, or that ends it, to a memory in which all is known.
LEMMA SettledStep ==
  ASSUME NEW m \in Settled, Become(m), stage' \in {Playing, Left}
  PROVE  RoomsInv'
<1>1. m \in Good /\ m \in Memories /\ \A r \in Room : m.room[r].cur_room_totalsize # 0
  BY GoodParts DEF Settled
<1>2. Memory' = m /\ room' = m.room
  BY <1>1, Becomes DEF Become
<1>3. stage' \in 1 .. Left /\ \A r \in Room : r < stage'
  BY Stages
<1> QED BY <1>1, <1>2, <1>3 DEF RoomsInv

\* A room in view is loaded while there is room for it.
LEMMA RenderStep ==
  ASSUME RoomsInv, NEW r \in Room, Render(r)
  PROVE  RoomsInv'
<1> DEFINE m == Loaded(Memory, r)
           X == UseSet(m, r, 1)
<1>1. stage = Playing /\ stage' = stage
  BY DEF Render
<1>2. Memory \in Settled /\ Memory \in Good /\ Memory.room[r].cur_room_totalsize # 0
  BY <1>1, AtRooms DEF Settled
<1>3. m \in Good /\ OnlyRoom(Memory.room, m.room, r) /\ m.room[r].cur_room_totalsize # 0
  BY <1>2, LoadedKeeps
<1>4. m \in Settled
  BY <1>2, <1>3 DEF Settled, OnlyRoom
<1>5. Become(IF m.room[r].model_bin_loaded = 0 THEN m ELSE X)
  BY DEF Render, UseSet
<1>6. CASE m.room[r].model_bin_loaded = 0
  <2>1. Become(m)
    BY <1>5, <1>6
  <2> HIDE DEF m
  <2> QED BY <2>1, <1>1, <1>4, SettledStep
<1>7. CASE m.room[r].model_bin_loaded # 0
  <2>1. Become(X)
    BY <1>5, <1>7
  <2> HIDE DEF m
  <2>2. m \in Memories /\ 1 \in 0 .. MaxAge
    BY <1>3, GoodParts, Needs
  <2>3. PICK Y : Y = X
    OBVIOUS
  <2>4. /\ Y \in Memories /\ Y.spaces = m.spaces /\ Y.lost = m.lost /\ OnlyRoom(m.room, Y.room, r)
        /\ Y.room[r].model_bin_loaded = 1
        /\ Y.room[r].vertices = m.room[r].vertices
        /\ Y.room[r].cur_room_totalsize = m.room[r].cur_room_totalsize
        /\ Y.room[r].vtx_batch_bounds = m.room[r].vtx_batch_bounds
    BY <2>2, <2>3, SetUse
  <2>5. Keeps(Y, m, r)
    BY <1>3, <1>7, <2>4, UseKeeps
  <2>6. Y \in Settled
    BY <1>4, <2>5, KeepsSettled
  <2>7. Become(Y)
    BY <2>1, <2>3
  <2> QED BY <2>6, <2>7, <1>1, SettledStep
<1> QED BY <1>6, <1>7

\* A room that is to be kept is loaded.
LEMMA PreloadStep ==
  ASSUME RoomsInv, NEW r \in Room, Preload(r)
  PROVE  RoomsInv'
<1> DEFINE k == Memory.room[r].model_bin_loaded
<1>1. PICK Y : Y = KeptSet(Memory, r)
  OBVIOUS
<1>2. PICK X : X = Loaded(Y, r)
  OBVIOUS
<1>3. stage = Playing /\ stage' = stage /\ Become(X)
  BY <1>1, <1>2 DEF Preload, KeptSet
<1>4. Memory \in Settled /\ Memory \in Good /\ Memory \in Memories
  BY <1>3, AtRooms, GoodParts
<1>5. k \in 0 .. MaxAge
  BY <1>4 DEF Memories, RoomInfo
<1>6. /\ Y \in Memories /\ Y.spaces = Memory.spaces /\ Y.lost = Memory.lost
      /\ OnlyRoom(Memory.room, Y.room, r)
      /\ Y.room[r].model_bin_loaded = k
      /\ Y.room[r].vertices = Memory.room[r].vertices
      /\ Y.room[r].cur_room_totalsize = Memory.room[r].cur_room_totalsize
      /\ Y.room[r].vtx_batch_bounds = Memory.room[r].vtx_batch_bounds
  BY <1>1, <1>4, <1>5, SetUse
<1>7. Keeps(Y, Memory, r)
  BY <1>4, <1>6, UseKeeps
<1>8. Y \in Settled
  BY <1>4, <1>7, KeepsSettled
<1>9. Y \in Good /\ Y.room[r].cur_room_totalsize # 0
  BY <1>8 DEF Settled
<1>10. X \in Good /\ OnlyRoom(Y.room, X.room, r) /\ X.room[r].cur_room_totalsize # 0
  BY <1>2, <1>9, LoadedKeeps
<1>11. X \in Settled
  BY <1>8, <1>10 DEF Settled, OnlyRoom
<1> QED BY <1>3, <1>11, SettledStep

\* A room is measured: loaded into the longest space and deleted.
LEMMA MeasureStep ==
  ASSUME RoomsInv, MeasuredRoomFits, Measure
  PROVE  RoomsInv'
<1>1. PICK r \in Room : r = stage
  BY DEF Measure
<1>2. PICK L : L = Loaded(Memory, r)
  OBVIOUS
<1>3. PICK X : X = Deleted(L, r)
  OBVIOUS
<1>4. stage' = r + 1 /\ Become(X)
  BY <1>1, <1>2, <1>3 DEF Measure
<1>5. Memory \in Good /\ Memory.room = room /\ Longest(Defrag(Memory.spaces)) >= Need[r] + 2
  BY <1>1, AtRooms DEF MeasuredRoomFits
<1>6. Memory.room[r].cur_room_totalsize = 0
  BY <1>1, <1>5, AtRooms, Stages
<1>7. /\ L \in Good /\ OnlyRoom(Memory.room, L.room, r)
      /\ L.room[r].cur_room_totalsize # 0 /\ L.room[r].vertices # NULL
  BY <1>2, <1>5, <1>6, LoadedKeeps
<1>8. Keeps(X, L, r)
  BY <1>3, <1>7, DeletedKeeps
<1>9. X \in Good /\ X \in Memories
  BY <1>8, GoodParts DEF Keeps
<1>10. Memory' = X /\ room' = X.room
  BY <1>4, <1>9, Becomes DEF Become
<1>11. ASSUME NEW q \in Room
       PROVE  X.room[q].cur_room_totalsize # 0 <=> q < r + 1
  <2>1. CASE q = r
    BY <2>1, <1>7, <1>8, Stages DEF Keeps
  <2>2. CASE q # r
    <3>1. X.room[q] = room[q]
      BY <2>2, <1>5, <1>7, <1>8 DEF Keeps, OnlyRoom
    <3>2. room[q].cur_room_totalsize # 0 <=> q < r
      BY <1>1, AtRooms
    <3> QED BY <3>1, <3>2, <2>2, Stages
  <2> QED BY <2>1, <2>2
<1>12. stage' \in 1 .. Left
  BY <1>4, Stages
<1> QED BY <1>4, <1>9, <1>10, <1>11, <1>12 DEF RoomsInv

\* The other steps.
LEMMA TickUnloadStep ==
  ASSUME RoomsInv, TickUnload
  PROVE  RoomsInv'
<1>1. PICK X : X = FoldLeft(Aged, Memory, [r \in Room |-> r])
  OBVIOUS
<1>2. stage = Playing /\ stage' = stage /\ Become(X)
  BY <1>1 DEF TickUnload
<1>3. Memory \in Settled
  BY <1>2, AtRooms
<1>4. X \in Settled
  BY <1>1, <1>3, AllAged
<1> QED BY <1>2, <1>4, SettledStep

\* All rooms are unloaded at the end of a stage.
LEMMA LeaveStageStep ==
  ASSUME RoomsInv, LeaveStage
  PROVE  RoomsInv'
<1>1. PICK X : X = FoldLeft(Unload, Memory, [r \in Room |-> r])
  OBVIOUS
<1>2. stage = Playing /\ stage' = Left /\ Become(X)
  BY <1>1 DEF LeaveStage
<1>3. Memory \in Settled
  BY <1>2, AtRooms
<1>4. X \in Settled
  BY <1>1, <1>3, AllUnloaded
<1> QED BY <1>2, <1>4, SettledStep

\* A pass over the table changes no block.
LEMMA SingleDefragPassStep ==
  ASSUME RoomsInv, SingleDefragPass
  PROVE  RoomsInv'
<1>1. PICK t : t = DefragPass(spaces).table
  OBVIOUS
<1>2. PICK X : X = [spaces |-> t, room |-> room, lost |-> lost]
  OBVIOUS
<1>3. stage = Playing /\ stage' = stage /\ spaces' = t /\ room' = room /\ lost' = lost
  BY <1>1 DEF SingleDefragPass
<1>4. Memory \in Good /\ Memory \in Settled /\ Memory.spaces = spaces /\ Memory.room = room
  BY <1>3, AtRooms
<1>5. t \in Tables(Claims(room), Spare(Memory))
  BY <1>1, <1>4, GoodParts, PassKeeps
<1>6. t \in [Slot -> Space]
  BY <1>5, EntryTypes
<1>7. X \in Memories /\ X.spaces = t /\ X.room = room /\ X.lost = lost
  <2>1. Memory \in Memories /\ Memory.lost = lost
    BY <1>4, GoodParts DEF Memory
  <2> QED BY <2>1, <1>2, <1>4, <1>6 DEF Memories
<1>8. Spare(X) = Spare(Memory)
  BY <1>4, <1>7 DEF Spare, Memory
<1>9. X \in Good
  BY <1>4, <1>5, <1>7, <1>8, GoodParts DEF Good
<1>10. X \in Settled
  BY <1>4, <1>7, <1>9 DEF Settled
<1>11. Become(X)
  BY <1>3, <1>7 DEF Become
<1> QED BY <1>3, <1>10, <1>11, SettledStep

\* The next stage starts with the whole heap and no rooms.
LEMMA NextStageStep ==
  ASSUME RoomsInv, NextStage
  PROVE  RoomsInv'
<1>1. Memory' = [spaces |-> WholeHeap, room |-> [r \in Room |-> NewRoom], lost |-> 0]
  BY DEF NextStage, Memory
<1>2. \A r \in Room : room'[r].cur_room_totalsize = 0 /\ ~(r < stage')
  BY Stages DEF NextStage, NewRoom
<1>3. stage' \in 1 .. Left
  BY Stages DEF NextStage
<1>4. Memory' \in Good
  BY <1>1, WholeHeapIsGood
<1> QED BY <1>2, <1>3, <1>4 DEF RoomsInv

\* Every step keeps the invariant, as long as what is measured fits.
LEMMA NextRooms ==
  ASSUME RoomsInv, MeasuredRoomFits, [Next]_vars
  PROVE  RoomsInv'
<1>1. CASE Measure
  BY <1>1, MeasureStep
<1>2. ASSUME NEW r \in Room, Render(r) PROVE RoomsInv'
  BY <1>2, RenderStep
<1>3. ASSUME NEW r \in Room, Preload(r) PROVE RoomsInv'
  BY <1>3, PreloadStep
<1>4. CASE TickUnload
  BY <1>4, TickUnloadStep
<1>5. CASE SingleDefragPass
  BY <1>5, SingleDefragPassStep
<1>6. CASE LeaveStage
  BY <1>6, LeaveStageStep
<1>7. CASE NextStage
  BY <1>7, NextStageStep
<1>8. CASE UNCHANGED vars
  BY <1>8 DEF RoomsInv, Memory, vars
<1> QED BY <1>1, <1>2, <1>3, <1>4, <1>5, <1>6, <1>7, <1>8 DEF Next

\* The invariant is an invariant while measured rooms fit.
LEMMA RoomsInvariant == Spec /\ []MeasuredRoomFits => []RoomsInv
<1>1. Init => RoomsInv
  BY InitRooms
<1>2. RoomsInv /\ MeasuredRoomFits /\ [Next]_vars => RoomsInv'
  BY NextRooms
<1> QED BY <1>1, <1>2, PTL DEF Spec

-------------------------------------------------------------------------------
(* The theorems.                                                           *)

\* Types: as long as the longest space holds the room that is measured, the heap's
\* table, the rooms and the stage stay what their declarations say (mema.c, bg.c).
THEOREM TypeCorrect == Spec /\ []MeasuredRoomFits => []TypeOK
<1>1. RoomsInv => TypeOK
  <2> SUFFICES ASSUME RoomsInv PROVE TypeOK
    OBVIOUS
  <2>1. Memory \in Memories /\ stage \in 1 .. Left
    BY AtRooms, GoodParts
  <2>2. Memory.spaces = spaces /\ Memory.room = room /\ Memory.lost = lost
    BY DEF Memory
  <2> QED BY <2>1, <2>2 DEF TypeOK, Memories
<1> QED BY <1>1, RoomsInvariant, PTL

\* Extents of blocks that lie apart are disjoint, and in the heap if the blocks are.
LEMMA Extents ==
  ASSUME NEW a \in Nat, NEW n \in Nat
  PROVE  /\ InHeap(a, n) => Extent(a, n) \subseteq Units
         /\ n # 0 => Extent(a, n) # {}
         /\ \A b, k \in Nat : Apart(a, n, b, k) => Extent(a, n) \cap Extent(b, k) = {}
<1>1. InHeap(a, n) => Extent(a, n) \subseteq Units
  BY Constants DEF InHeap, Extent, Units
<1>2. n # 0 => a \in Extent(a, n)
  BY DEF Extent
<1>3. ASSUME NEW b \in Nat, NEW k \in Nat, Apart(a, n, b, k)
      PROVE  Extent(a, n) \cap Extent(b, k) = {}
  BY <1>3 DEF Apart, Extent
<1> QED BY <1>1, <1>2, <1>3

\* The blocks of the rooms are the claims of the proof.
LEMMA BlocksAreClaims == Blocks = Claims(room)
<1> DEFINE data == {q \in Room : room[q].vertices # NULL}
           bounds == {q \in Room : room[q].vtx_batch_bounds # NULL}
<1>1. \A r \in data : <<r, 1>> \in Held(room)
                      /\ Claim(room, <<r, 1>>) = <<room[r].vertices, room[r].cur_room_totalsize>>
  BY DEF Held, Keys, Claim
<1>2. \A r \in bounds : <<r, 2>> \in Held(room)
                        /\ Claim(room, <<r, 2>>) = <<room[r].vtx_batch_bounds, Bounds[r]>>
  BY DEF Held, Keys, Claim
<1>3. \A x \in Held(room) :
        \/ /\ x[1] \in data
           /\ Claim(room, x) = <<room[x[1]].vertices, room[x[1]].cur_room_totalsize>>
        \/ /\ x[1] \in bounds
           /\ Claim(room, x) = <<room[x[1]].vtx_batch_bounds, Bounds[x[1]]>>
  BY DEF Held, Keys, Claim
<1>4. Blocks = {<<room[r].vertices, room[r].cur_room_totalsize>> : r \in data}
                 \cup {<<room[r].vtx_batch_bounds, Bounds[r]>> : r \in bounds}
  BY DEF Blocks
<1> HIDE DEF data, bounds
<1>5. Blocks \subseteq Claims(room)
  BY <1>1, <1>2, <1>4, Zenon DEF Claims
<1>6. Claims(room) \subseteq Blocks
  BY <1>3, <1>4, Zenon DEF Claims
<1> QED BY <1>5, <1>6

\* The rooms' blocks and the free spaces of the ad hoc heap stay in the heap and never
\* overlap, in whatever order bg.c loads, keeps, ages and deletes rooms and mema.c
\* sorts, merges and gives up spaces, for any rooms and any heap in which the room
\* that is measured fits the longest space.
THEOREM RoomsKeepApart == Spec /\ []MeasuredRoomFits => []BlocksDisjoint
<1>1. RoomsInv => BlocksDisjoint
  <2> SUFFICES ASSUME RoomsInv PROVE BlocksDisjoint
    OBVIOUS
  <2>1. /\ BlocksApart(room) /\ spaces \in Tables(Claims(room), Spare(Memory))
        /\ Claims(room) \in SUBSET Blks
    BY AtRooms, GoodParts
  <2>2. /\ spaces \in [Slot -> Space] /\ Entries(spaces) /\ SpacesApart(spaces)
        /\ Avoids(spaces, Claims(room))
    BY <2>1 DEF Tables
  <2> DEFINE B == Claims(room)
             F == FreeSpaces
             Clear(b, c) == Apart(b[1], b[2], c[1], c[2])
  <2>3. ASSUME NEW b \in B
        PROVE  /\ b[1] \in Nat /\ b[2] \in Nat /\ b[2] # 0 /\ InHeap(b[1], b[2])
               /\ \A c \in B : b # c => Clear(b, c)
    <3>1. PICK x \in Held(room) : b = Claim(room, x)
      BY DEF Claims
    <3>2. b \in Blks /\ InHeap(b[1], b[2])
      BY <2>1, <3>1 DEF BlocksApart
    <3>3. ASSUME NEW c \in B, b # c PROVE Clear(b, c)
      <4>1. PICK y \in Held(room) : c = Claim(room, y)
        BY DEF Claims
      <4>2. x # y
        BY <3>1, <3>3, <4>1
      <4> QED BY <2>1, <3>1, <4>1, <4>2 DEF BlocksApart
    <3> QED BY <3>2, <3>3 DEF Blks
  <2>4. ASSUME NEW f \in F
        PROVE  /\ f[1] \in Nat /\ f[2] \in Nat /\ f[2] # 0 /\ InHeap(f[1], f[2])
               /\ \A c \in F : f # c => Clear(f, c)
               /\ \A c \in B : Clear(f, c)
    <3>1. PICK i \in Slot : spaces[i].size # 0 /\ f = <<spaces[i].addr, spaces[i].size>>
      BY DEF FreeSpaces
    <3>2. spaces[i].addr \in Nat /\ spaces[i].size \in Nat
      BY <2>1, EntryTypes
    <3>3. InHeap(spaces[i].addr, spaces[i].size)
      BY <2>2, <3>1 DEF Entries
    <3>4. ASSUME NEW c \in F, f # c PROVE Clear(f, c)
      <4>1. PICK j \in Slot : spaces[j].size # 0 /\ c = <<spaces[j].addr, spaces[j].size>>
        BY DEF FreeSpaces
      <4>2. i # j
        BY <3>1, <3>4, <4>1
      <4>3. Apart(spaces[i].addr, spaces[i].size, spaces[j].addr, spaces[j].size)
        BY <2>2, <3>1, <4>1, <4>2 DEF SpacesApart
      <4> QED BY <3>1, <4>1, <4>3
    <3>5. \A c \in B : Clear(f, c)
      BY <2>2, <3>1 DEF Avoids
    <3> QED BY <3>1, <3>2, <3>3, <3>4, <3>5
  <2> HIDE DEF B, F
  <2>5. \A b \in B, f \in F : Clear(b, f)
    BY <2>4 DEF Apart
  <2>6. \A b, c \in B \cup F : b # c => Clear(b, c)
    BY <2>3, <2>4, <2>5
  <2>7. \A b \in B \cup F : b[1] \in Nat /\ b[2] \in Nat /\ b[2] # 0 /\ InHeap(b[1], b[2])
    BY <2>3, <2>4
  <2> HIDE DEF Clear
  <2>8. \A b \in B \cup F : Extent(b[1], b[2]) \subseteq Units
    BY <2>7, Extents
  <2>9. \A b, c \in B \cup F : b # c => Extent(b[1], b[2]) \cap Extent(c[1], c[2]) = {}
    BY <2>6, <2>7, Extents DEF Clear
  <2>10. B \cap F = {}
    <3> SUFFICES ASSUME NEW b \in B \cap F PROVE FALSE
      OBVIOUS
    <3>1. Clear(b, b) /\ b[1] \in Nat /\ b[2] \in Nat /\ b[2] # 0
      BY <2>5, <2>7
    <3> QED BY <3>1 DEF Clear, Apart
  <2> QED BY <2>8, <2>9, <2>10, BlocksAreClaims DEF BlocksDisjoint, B, F
<1> QED BY <1>1, RoomsInvariant, PTL

\* No unit of the heap goes astray, in whatever order rooms are loaded, deleted and
\* their spaces swapped and merged: what is neither in a room's block nor in the table
\* was given up by memaSearch (bg.c, mema.c).
THEOREM RoomsLoseNothing == Spec /\ []MeasuredRoomFits => []NothingLost
<1>1. RoomsInv => NothingLost
  <2> SUFFICES ASSUME RoomsInv PROVE NothingLost
    OBVIOUS
  <2>1. NothingLost <=>
          Weight(FreeSizes(spaces)) + Weight(DataSizes(room)) + Weight(BoundsSizes(room)) + lost
            = HeapSize
    BY Zenon DEF NothingLost, Weight, FreeSizes, DataSizes, BoundsSizes
  <2>2. Memory.spaces = spaces /\ Memory.room = room /\ Memory.lost = lost
    BY DEF Memory
  <2>3. Memory \in Memories /\ spaces \in Tables(Claims(room), Spare(Memory))
    BY <2>2, AtRooms, GoodParts
  <2>4. Weight(FreeSizes(spaces)) = HeapSize - (Owned(room) + lost)
    BY <2>2, <2>3 DEF Tables, Spare
  <2>5. /\ Weight(DataSizes(room)) \in Nat /\ Weight(BoundsSizes(room)) \in Nat
        /\ lost \in Nat /\ HeapSize \in Nat
    BY <2>2, <2>3, SizesWeighed, Spares
  <2> QED BY <2>1, <2>4, <2>5 DEF Owned
<1> QED BY <1>1, RoomsInvariant, PTL

-------------------------------------------------------------------------------
(* The search for a slot sorts.                                            *)

\* Counting in rounds of S: what a number is after some rounds and a rest.
LEMMA Rounds ==
  ASSUME NEW S \in Nat \ {0}, NEW p \in Nat, NEW k \in Nat, k < S
  PROVE  (p * S + k) % S = k
<1>1. PICK n : n = p * S + k
  OBVIOUS
<1>2. PICK q, r : q = n \div S /\ r = n % S
  OBVIOUS
<1>3. n \in Nat /\ p * S \in Nat
  BY <1>1
<1>4. q \in Int /\ r \in 0 .. (S - 1) /\ n = S * q + r
  BY <1>2, <1>3
<1>5. CASE q = p
  <2>1. S * q = p * S
    BY <1>5, <1>4
  <2> QED BY <2>1, <1>1, <1>2, <1>3, <1>4
<1>6. CASE q < p
  <2>1. S * q <= S * (p - 1)
    BY <1>4, <1>6
  <2>2. S * (p - 1) = p * S - S
    OBVIOUS
  <2> QED BY <2>1, <2>2, <1>1, <1>3, <1>4
<1>7. CASE p < q
  <2>1. S * q >= S * (p + 1)
    BY <1>4, <1>7
  <2>2. S * (p + 1) = p * S + S
    OBVIOUS
  <2> QED BY <2>1, <2>2, <1>1, <1>3, <1>4
<1> QED BY <1>4, <1>5, <1>6, <1>7

\* The table after p rounds and the first k entries of another: the last p entries are
\* the greatest, in order, entry k + 1 is the greatest so far, and one more entry is in
\* its place when the round has come that far; in the last round nothing is out of
\* order and no space met so far is empty or followed by its next.
Sorting(t, p, k) ==
  /\ \A j \in Slot : j > Slots - p => \A i \in Slot : i < j => t[i].addr <= t[j].addr
  /\ \A i \in Slot : i <= k => t[i].addr <= t[k + 1].addr
  /\ Slots - p <= k + 1
       => \A i \in Slot : i < Slots - p => t[i].addr <= t[Slots - p].addr
  /\ p = Slots - 1
       => \A i \in Slot : i <= k => t[i].size # 0 /\ ~Follows(t, i, i + 1)

\* The last round is over.
SortedOut(t) ==
  /\ \A i, j \in Slot : i < j => t[i].addr <= t[j].addr
  /\ \A i \in Slot : t[i].size # 0 /\ (i # Slots => ~Follows(t, i, i + 1))

\* Every entry of one table is somewhere in the other.
HasAll(t, u) == \A i \in Slot : \E j \in Slot : t[j] = u[i]

\* Exchanging two of them loses none.
LEMMA SwapHasAll ==
  ASSUME NEW t \in [Slot -> Space], NEW u, HasAll(t, u), NEW i \in Slot, NEW j \in Slot
  PROVE  HasAll(Swapped(t, i, j), u)
<1> DEFINE w == Swapped(t, i, j)
<1>1. w[i] = t[j] /\ w[j] = t[i] /\ \A k \in Slot : k # i /\ k # j => w[k] = t[k]
  BY DEF Swapped
<1> HIDE DEF w
<1>2. \A k \in Slot : \E l \in Slot : w[l] = t[k]
  BY <1>1
<1>3. HasAll(w, u)
  BY <1>2 DEF HasAll
<1> QED BY <1>3 DEF w

\* One more entry of a round is looked at, and neither an empty one nor two that can
\* be merged are found.
LEMMA SortingStep ==
  ASSUME NEW C \in SUBSET Blks, NEW free, NEW t \in Tables(C, free), NEW u, HasAll(t, u),
         NEW p \in Nat, p < Slots, NEW k \in Nat, k + 1 < Slots, Sorting(t, p, k),
         NEW s, s = SearchStep([table |-> t, slot |-> NoSlot], k + 1), s.slot = NoSlot
  PROVE  HasAll(s.table, u) /\ Sorting(s.table, p, k + 1)
<1>1. PICK i \in Slot : i = k + 1
  BY Constants
<1>2. PICK b \in Slot : b = i + 1
  BY <1>1, Constants
<1>3. Slots \in Nat /\ Slot = 1 .. Slots /\ i # Slots /\ NoSlot = 0 /\ i # 0 /\ b # 0
  BY <1>1, Constants
<1> DEFINE w == IF t[b].addr < t[i].addr THEN Swapped(t, i, b) ELSE t
           z == [table |-> t, slot |-> NoSlot]
<1>4. s = IF t[i].size = 0 THEN [z EXCEPT !.slot = i]
          ELSE IF Follows(w, i, b) THEN [table |-> Merged(w, i, b), slot |-> b]
          ELSE [table |-> w, slot |-> NoSlot]
  BY <1>1, <1>2, <1>3 DEF SearchStep
<1>5. t[i].size # 0 /\ ~Follows(w, i, b) /\ s.table = w
  <2>1. [z EXCEPT !.slot = i].slot = i
    OBVIOUS
  <2> HIDE DEF w, z
  <2>2. t[i].size # 0
    BY <1>3, <1>4, <2>1
  <2>3. ~Follows(w, i, b)
    BY <1>3, <1>4, <2>2
  <2> QED BY <1>4, <2>2, <2>3
<1>6. t \in [Slot -> Space] /\ \A l \in Slot : t[l].addr \in Nat
  BY EntryTypes
<1>7. HasAll(w, u)
  BY <1>6, SwapHasAll
<1>8. \A l \in Slot : l # i /\ l # b => w[l] = t[l]
  BY <1>6 DEF Swapped
<1>9. \/ t[b].addr < t[i].addr /\ w[i] = t[b] /\ w[b] = t[i]
      \/ ~(t[b].addr < t[i].addr) /\ w = t
  BY <1>2, <1>6 DEF Swapped
<1> HIDE DEF w, z
<1>10. \A j \in Slot : j > Slots - p => \A l \in Slot : l < j => t[l].addr <= t[j].addr
  BY DEF Sorting
<1>11. \A l \in Slot : l <= k => t[l].addr <= t[i].addr
  BY <1>1 DEF Sorting
<1>12. w[i].addr <= w[b].addr /\ w[i].addr \in Nat /\ w[b].addr \in Nat
       /\ t[i].addr <= w[b].addr
  BY <1>6, <1>9
<1>13. ASSUME NEW j \in Slot, j > Slots - p, NEW l \in Slot, l < j
       PROVE  w[l].addr <= w[j].addr
  <2>1. CASE j = i
    <3>1. b > Slots - p /\ i < b
      BY <2>1, <1>13, <1>2, <1>3
    <3>2. t[i].addr <= t[b].addr
      BY <3>1, <1>10
    <3>3. w = t
      BY <3>2, <1>6, <1>9
    <3> QED BY <3>3, <1>10, <1>13
  <2>2. CASE j = b
    <3>1. l # b
      BY <2>2, <1>3, <1>13
    <3>2. CASE l = i
      BY <2>2, <3>2, <1>12
    <3>3. CASE l # i
      <4>1. l <= k
        BY <2>2, <3>1, <3>3, <1>1, <1>2, <1>3, <1>13
      <4>2. t[l].addr <= t[i].addr
        BY <4>1, <1>11
      <4>3. w[l] = t[l]
        BY <3>1, <3>3, <1>8
      <4> QED BY <2>2, <4>2, <4>3, <1>6, <1>12
    <3> QED BY <3>2, <3>3
  <2>3. CASE j # i /\ j # b
    <3>1. w[j] = t[j] /\ t[l].addr <= t[j].addr
      BY <2>3, <1>8, <1>10, <1>13
    <3>2. CASE l # i /\ l # b
      BY <3>1, <3>2, <1>8
    <3>3. CASE l = i \/ l = b
      <4>1. i < j /\ b < j
        BY <2>3, <3>3, <1>1, <1>2, <1>3, <1>13
      <4>2. t[i].addr <= t[j].addr /\ t[b].addr <= t[j].addr
        BY <4>1, <1>10, <1>13
      <4> QED BY <3>1, <3>3, <4>2, <1>9
    <3> QED BY <3>2, <3>3
  <2> QED BY <2>1, <2>2, <2>3
<1>14. ASSUME NEW l \in Slot, l <= i
       PROVE  w[l].addr <= w[b].addr
  <2>1. CASE l = i
    BY <2>1, <1>12
  <2>2. CASE l # i
    <3>1. l <= k /\ l # b
      BY <2>2, <1>1, <1>2, <1>3, <1>14
    <3>2. w[l] = t[l] /\ t[l].addr <= t[i].addr
      BY <2>2, <3>1, <1>8, <1>11
    <3> QED BY <3>2, <1>6, <1>12
  <2> QED BY <2>1, <2>2
<1>15. ASSUME p = Slots - 1, NEW l \in Slot, l <= i
       PROVE  w[l].size # 0 /\ ~Follows(w, l, l + 1)
  <2>1. b > Slots - p /\ i < b
    BY <1>15, <1>1, <1>2, <1>3
  <2>2. t[i].addr <= t[b].addr
    BY <2>1, <1>10
  <2>3. w = t
    BY <2>2, <1>6, <1>9
  <2>4. CASE l = i
    BY <2>3, <2>4, <1>2, <1>5
  <2>5. CASE l # i
    <3>1. l <= k
      BY <2>5, <1>1, <1>3, <1>15
    <3> QED BY <3>1, <2>3, <1>15 DEF Sorting
  <2> QED BY <2>4, <2>5
<1>16. ASSUME Slots - p <= i + 1, NEW l \in Slot, l < Slots - p
       PROVE  w[l].addr <= w[Slots - p].addr
  <2>1. CASE Slots - p = b
    BY <2>1, <1>2, <1>3, <1>14, <1>16
  <2>2. CASE Slots - p # b
    <3>1. Slots - p <= k + 1 /\ b > Slots - p /\ i < b
      BY <2>2, <1>1, <1>2, <1>3, <1>16
    <3>2. t[i].addr <= t[b].addr
      BY <3>1, <1>10
    <3>3. w = t
      BY <3>2, <1>6, <1>9
    <3> QED BY <3>1, <3>3, <1>16 DEF Sorting
  <2> QED BY <2>1, <2>2
<1>17. Sorting(w, p, i)
  BY <1>2, <1>13, <1>14, <1>15, <1>16 DEF Sorting
<1> QED BY <1>1, <1>5, <1>7, <1>17

\* A round ends.
LEMMA SortingRound ==
  ASSUME NEW C \in SUBSET Blks, NEW free, NEW t \in Tables(C, free), NEW p \in Nat, p < Slots,
         Sorting(t, p, Slots - 1), t[Slots].size # 0
  PROVE  IF p + 1 = Slots THEN SortedOut(t) ELSE Sorting(t, p + 1, 0)
<1>1. Slots \in Nat /\ Slot = 1 .. Slots /\ Slots \in Slot
  BY Constants
<1>2. PICK b \in Slot : b = Slots - p
  BY <1>1
<1>3. ASSUME NEW j \in Slot, j >= b, NEW i \in Slot, i < j
      PROVE  t[i].addr <= t[j].addr
  <2>1. CASE j = b
    <3>1. Slots - p <= (Slots - 1) + 1
      BY <1>1
    <3>2. \A l \in Slot : l < Slots - p => t[l].addr <= t[Slots - p].addr
      BY <3>1 DEF Sorting
    <3> QED BY <2>1, <3>2, <1>2, <1>3
  <2>2. CASE j # b
    <3>1. j > Slots - p
      BY <2>2, <1>1, <1>2, <1>3
    <3> QED BY <3>1, <1>3 DEF Sorting
  <2> QED BY <2>1, <2>2
<1>4. CASE p + 1 = Slots
  <2>1. p = Slots - 1 /\ b = 1
    BY <1>4, <1>1, <1>2
  <2>2. \A i, j \in Slot : i < j => t[i].addr <= t[j].addr
    BY <2>1, <1>1, <1>3
  <2>3. \A i \in Slot : i <= Slots - 1 => t[i].size # 0 /\ ~Follows(t, i, i + 1)
    BY <2>1 DEF Sorting
  <2>4. \A i \in Slot : i # Slots => i <= Slots - 1
    BY <1>1
  <2>5. SortedOut(t)
    BY <2>2, <2>3, <2>4 DEF SortedOut
  <2> QED BY <2>5, <1>4
<1>5. CASE p + 1 # Slots
  <2>1. PICK q \in Nat : q = p + 1
    OBVIOUS
  <2>2. \A j \in Slot : j > Slots - q => j >= b
    BY <2>1, <1>1, <1>2
  <2>3. \A j \in Slot : ~(j <= 0)
    BY <1>1
  <2>4. ASSUME Slots - q <= 0 + 1, NEW i \in Slot, i < Slots - q
        PROVE  t[i].addr <= t[Slots - q].addr
    BY <2>1, <2>4, <1>1
  <2>5. Sorting(t, q, 0)
    BY <2>2, <2>3, <2>4, <1>3 DEF Sorting
  <2> QED BY <2>1, <2>5, <1>5
<1> QED BY <1>4, <1>5

\* What the search has after n entries: a slot that is empty, or none, with every space
\* of u still there and the table sorted that far.
Searched(C, free, u, n) ==
  {s \in SearchStates(C, free) :
     IF s.slot # NoSlot THEN s.table[s.slot].size = 0
     ELSE /\ HasAll(s.table, u)
          /\ IF n = Slots * Slots THEN SortedOut(s.table)
             ELSE \E p, k \in Nat : /\ p < Slots /\ k < Slots /\ n = p * Slots + k
                                   /\ Sorting(s.table, p, k)}

\* The search looks at one more entry.
LEMMA SearchedStep ==
  ASSUME NEW C \in SUBSET Blks, NEW free, NEW u, NEW n \in 1 .. (Slots * Slots),
         NEW s \in Searched(C, free, u, n - 1)
  PROVE  SearchStep(s, ((n - 1) % Slots) + 1) \in Searched(C, free, u, n)
<1>1. Slots \in Nat \ {0} /\ Slot = 1 .. Slots /\ Slots \in Slot /\ Slots * Slots \in Nat
      /\ NoSlot = 0
  BY Constants
<1>2. s \in SearchStates(C, free) /\ s.table \in Tables(C, free) /\ s.slot \in {NoSlot} \cup Slot
  BY DEF Searched, SearchStates
<1>3. CASE s.slot # NoSlot
  <2>1. SearchStep(s, ((n - 1) % Slots) + 1) = s
    BY <1>3 DEF SearchStep
  <2>2. s.table[s.slot].size = 0
    BY <1>3 DEF Searched
  <2> QED BY <1>2, <1>3, <2>1, <2>2 DEF Searched
<1>4. CASE s.slot = NoSlot
  <2>1. n - 1 # Slots * Slots
    BY <1>1
  <2>2. PICK p \in Nat, k \in Nat : /\ p < Slots /\ k < Slots /\ n - 1 = p * Slots + k
                                  /\ HasAll(s.table, u) /\ Sorting(s.table, p, k)
    BY <1>4, <2>1 DEF Searched
  <2>3. (n - 1) % Slots = k
    BY <2>2, <1>1, Rounds
  <2>4. PICK i \in Slot : i = k + 1
    BY <2>2, <1>1
  <2>5. PICK e : e = SearchStep(s, i)
    OBVIOUS
  <2>6. e \in SearchStates(C, free)
    BY <2>5, <1>2, SearchStepKeeps
  <2>7. e.slot # NoSlot => e.table[e.slot].size = 0
    <3>1. CASE s.table[i].size = 0
      <4>1. e = [s EXCEPT !.slot = i]
        BY <3>1, <2>5, <1>4 DEF SearchStep
      <4>2. e.table = s.table /\ e.slot = i
        BY <4>1, <1>2 DEF SearchStates
      <4> QED BY <4>2, <3>1
    <3>2. CASE s.table[i].size # 0 /\ i = Slots
      BY <3>2, <2>5, <1>4 DEF SearchStep
    <3>3. CASE s.table[i].size # 0 /\ i # Slots
      <4>1. PICK b \in Slot : b = i + 1
        BY <3>3, <1>1
      <4>2. PICK w : w = IF s.table[b].addr < s.table[i].addr
                         THEN Swapped(s.table, i, b) ELSE s.table
        OBVIOUS
      <4>3. w \in Tables(C, free)
        BY <4>2, <1>2, SwapKeeps
      <4>4. w \in [Slot -> Space]
        BY <4>3, EntryTypes
      <4>5. e = IF Follows(w, i, b) THEN [table |-> Merged(w, i, b), slot |-> b]
                ELSE [table |-> w, slot |-> NoSlot]
        BY <3>3, <4>1, <4>2, <2>5, <1>4 DEF SearchStep
      <4>6. Merged(w, i, b)[b].size = 0
        BY <4>4, EntryTypes DEF Merged
      <4> QED BY <4>5, <4>6
    <3> QED BY <3>1, <3>2, <3>3
  <2>8. ASSUME e.slot = NoSlot
        PROVE  /\ HasAll(e.table, u)
               /\ IF n = Slots * Slots THEN SortedOut(e.table)
                  ELSE \E q, l \in Nat : /\ q < Slots /\ l < Slots /\ n = q * Slots + l
                                        /\ Sorting(e.table, q, l)
    <3>1. s = [table |-> s.table, slot |-> NoSlot]
      BY <1>2, <1>4 DEF SearchStates
    <3>2. CASE k + 1 < Slots
      <4>1. HasAll(e.table, u) /\ Sorting(e.table, p, k + 1)
        BY <3>1, <3>2, <2>2, <2>4, <2>5, <2>8, <1>2, SortingStep
      <4>2. n = p * Slots + (k + 1) /\ k + 1 \in Nat
        BY <2>2, <1>1
      <4>3. p * Slots <= (Slots - 1) * Slots /\ (Slots - 1) * Slots = Slots * Slots - Slots
        BY <2>2, <1>1
      <4>4. n # Slots * Slots
        BY <3>2, <4>2, <4>3, <1>1
      <4> QED BY <3>2, <4>1, <4>2, <4>4, <2>2
    <3>3. CASE ~(k + 1 < Slots)
      <4>1. k = Slots - 1 /\ i = Slots
        BY <3>3, <2>2, <2>4, <1>1
      <4>2. s.table[i].size # 0
        <5>1. s.table[i].size = 0 => e.slot = i
          BY <2>5, <1>2, <1>4 DEF SearchStep, SearchStates
        <5> QED BY <5>1, <2>8, <1>1
      <4>3. e = s
        BY <4>1, <4>2, <2>5, <1>4 DEF SearchStep
      <4>4. IF p + 1 = Slots THEN SortedOut(s.table) ELSE Sorting(s.table, p + 1, 0)
        BY <4>1, <4>2, <2>2, <1>2, SortingRound
      <4>5. n = (p + 1) * Slots /\ (p + 1) * Slots = p * Slots + Slots
        BY <4>1, <2>2, <1>1
      <4>6. CASE p + 1 = Slots
        <5>1. n = Slots * Slots
          BY <4>5, <4>6
        <5> QED BY <5>1, <4>3, <4>4, <4>6, <2>2
      <4>7. CASE p + 1 # Slots
        <5>1. p + 1 \in Nat /\ p + 1 < Slots /\ n = (p + 1) * Slots + 0
          BY <4>5, <4>7, <2>2, <1>1
        <5>2. (p + 1) * Slots <= (Slots - 1) * Slots
              /\ (Slots - 1) * Slots = Slots * Slots - Slots
          BY <5>1, <1>1
        <5>3. n # Slots * Slots
          BY <4>5, <5>2, <1>1
        <5> QED BY <5>1, <5>3, <4>3, <4>4, <4>7, <2>2, <1>1
      <4> QED BY <4>6, <4>7
    <3> QED BY <3>2, <3>3
  <2>9. e \in Searched(C, free, u, n)
    BY <2>6, <2>7, <2>8 DEF Searched
  <2> QED BY <2>3, <2>4, <2>5, <2>9
<1> QED BY <1>3, <1>4

\* The search finds an empty slot, or there is none and no two spaces can be merged.
LEMMA SearchSorts ==
  ASSUME NEW C \in SUBSET Blks, NEW free, NEW t \in Tables(C, free),
         Search(t).table[Search(t).slot].size # 0
  PROVE  \E e \in Tables(C, free) : HasAll(e, t) /\ SortedOut(e)
<1> DEFINE N == Slots * Slots
           V == [n \in 0 .. N |-> Searched(C, free, t, n)]
<1>1. Slots \in Nat /\ Slots # 0 /\ N \in Nat /\ N # 0 /\ Slot = 1 .. Slots
  <2>1. PICK S \in Nat : S = Slots /\ 1 <= S
    BY Constants
  <2>2. S * S >= S * 1
    BY <2>1
  <2> QED BY <2>1, <2>2, Constants
<1>0. PICK f : SearchRun(t, f)
  BY SearchRuns
<1>2. /\ f[{}] = [table |-> t, slot |-> NoSlot]
      /\ \A n \in 1 .. N :
           f[1 .. n] = SearchStep(f[1 .. (n - 1)], ((n - 1) % Slots) + 1)
      /\ LET e == f[1 .. N]
             least == {i \in Slot : \A j \in Slot : e.table[i].size <= e.table[j].size}
         IN Search(t) = IF e.slot # NoSlot THEN e ELSE [e EXCEPT !.slot = SmallestIn(least)]
  BY <1>0 DEF SearchRun
<1>3. f[{}] \in V[0]
  <2>1. Sorting(t, 0, 0)
    BY <1>1 DEF Sorting
  <2>2. HasAll(t, t)
    BY DEF HasAll
  <2>3. 0 < Slots /\ 0 = 0 * Slots + 0 /\ 0 \in Nat
    BY <1>1
  <2>4. [table |-> t, slot |-> NoSlot] \in Searched(C, free, t, 0)
    BY <2>1, <2>2, <2>3, <1>1 DEF Searched, SearchStates
  <2> QED BY <2>4, <1>1, <1>2
<1>4. ASSUME NEW n \in 1 .. N, f[1 .. (n - 1)] \in V[n - 1]
      PROVE  f[1 .. n] \in V[n]
  <2>1. n - 1 \in 0 .. N /\ n \in 0 .. N
    BY <1>1
  <2>2. f[1 .. (n - 1)] \in Searched(C, free, t, n - 1)
    BY <2>1, <1>4
  <2>3. f[1 .. n] \in Searched(C, free, t, n)
    BY <2>2, <1>2, SearchedStep
  <2> QED BY <2>1, <2>3
<1>5. f[1 .. N] \in Searched(C, free, t, N)
  <2> HIDE DEF V
  <2>1. f[1 .. N] \in V[N]
    BY <1>1, <1>3, <1>4, FoldClimbs
  <2> QED BY <2>1, <1>1 DEF V
<1>6. PICK e : e = f[1 .. N]
  OBVIOUS
<1>7. e.slot = NoSlot
  <2> SUFFICES ASSUME e.slot # NoSlot PROVE FALSE
    OBVIOUS
  <2>1. Search(t) = e
    BY <1>2, <1>6
  <2> QED BY <2>1, <1>5, <1>6 DEF Searched
<1>8. e.table \in Tables(C, free) /\ HasAll(e.table, t) /\ SortedOut(e.table)
  BY <1>5, <1>6, <1>7 DEF Searched, SearchStates
<1> QED BY <1>8

\* In a sorted table a space that follows another is the next one, and two spaces of a
\* table are still two when it is sorted.
LEMMA NothingFollows ==
  ASSUME NEW C \in SUBSET Blks, NEW t \in [Slot -> Space], NEW free, NEW e \in Tables(C, free),
         HasAll(e, t), SortedOut(e), NEW i \in Slot, NEW j \in Slot
  PROVE  ~Follows(t, i, j)
<1>1. PICK a \in Slot, b \in Slot : e[a] = t[i] /\ e[b] = t[j]
  BY DEF HasAll
<1> SUFFICES ASSUME e[a].addr + e[a].size = e[b].addr PROVE FALSE
  BY <1>1 DEF Follows
<1>2. \A k \in Slot : e[k].addr \in Nat /\ e[k].size \in Nat /\ e[k].size # 0
  BY EntryTypes DEF SortedOut
<1>3. \A k, l \in Slot : k < l => e[k].addr <= e[l].addr
  BY DEF SortedOut
<1>4. a < b
  <2>1. ~(b < a) /\ a # b
    BY <1>2, <1>3
  <2> QED BY <2>1, Constants
<1>5. PICK c \in Slot : c = a + 1
  BY <1>4, Constants
<1>6. a # Slots /\ a < c /\ a # c /\ (c = b \/ c < b)
  BY <1>4, <1>5, Constants
<1>7. e[a].addr <= e[c].addr /\ e[c].addr <= e[b].addr
  BY <1>2, <1>3, <1>6
<1>8. Apart(e[a].addr, e[a].size, e[c].addr, e[c].size)
  BY <1>2, <1>6 DEF Tables, SpacesApart
<1>9. e[c].addr = e[b].addr
  BY <1>2, <1>7, <1>8 DEF Apart
<1>10. Follows(e, a, c)
  BY <1>9 DEF Follows
<1> QED BY <1>5, <1>6, <1>10 DEF SortedOut

\* memaSearch gives up a free space only when the table is full of spaces no two of
\* which could be merged: its passes leave the table in order, as its comment says.
THEOREM SearchGivesUpOnlyWhenStuck == Spec /\ []MeasuredRoomFits => []GivesUpOnlyWhenStuck
<1>1. RoomsInv => GivesUpOnlyWhenStuck
  <2> SUFFICES ASSUME RoomsInv, Search(spaces).table[Search(spaces).slot].size # 0,
                      NEW i \in Slot, NEW j \in Slot
               PROVE  ~Follows(spaces, i, j)
    BY DEF GivesUpOnlyWhenStuck
  <2>1. PICK C \in SUBSET Blks, free \in Int : spaces \in Tables(C, free)
    BY AtRooms, GoodParts, Spares
  <2>2. \E e \in Tables(C, free) : HasAll(e, spaces) /\ SortedOut(e)
    BY <2>1, SearchSorts
  <2> QED BY <2>1, <2>2, EntryTypes, NothingFollows
<1> QED BY <1>1, RoomsInvariant, PTL
===============================================================================
