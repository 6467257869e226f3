---------------------------- MODULE SndPlayer_proofs ----------------------------
(***************************************************************************)
(* Proofs, for any number of sound states, any size of the event queue and *)
(* any sounds, that the sound player accounts for its sounds (each state   *)
(* on one list, the lists sound, the voices counted) and that a sound in   *)
(* use has an event that will end it.                                      *)
(*                                                                         *)
(* The argument: what the audio manager has yet to do for an event is one  *)
(* of a few plans (Plan), and what it does with an event is one of a few   *)
(* reactions (Reaction), each of which leaves one of the plans.  The       *)
(* events to come and the operations of the plan are then seen as sets:    *)
(* what is posted, disposed of and removed.  A sound in use needs an event *)
(* of a type that follows from its playing state (Needs), and the          *)
(* invariant says that it is coming, or that the sound is being disposed   *)
(* of (HasEvent); that one that is about to lose its decay event has been  *)
(* released (DecayGone); and that the end comes only for a sound in use,   *)
(* once, so that no state is freed twice (Ends).  The two lists hold the   *)
(* states in order of two sequences (Lists), which the operations on links *)
(* take an element from or add one to.                                     *)
(*                                                                         *)
(* The lemmas about the event queue say what the folds over it compute: a  *)
(* post and a removal keep the time at which each other event falls due.   *)
(* From them the queue keeps the agenda of EventSchedule, at every step.   *)
(***************************************************************************)
EXTENDS SndPlayer, FiniteSetTheorems, WellFoundedInduction, TLAPS

\* Induction over the numbers up to a bound, for a set of them.
LEMMA Climb ==
  ASSUME NEW N \in Nat, NEW T, 0 \in T, \A n \in 1 .. N : n - 1 \in T => n \in T
  PROVE  \A n \in 0 .. N : n \in T
<1> DEFINE Bad == {n \in 0 .. N : n \notin T}
           R == OpToRel(<, Nat)
<1>1. SUFFICES ASSUME Bad # {} PROVE FALSE
  OBVIOUS
<1>2. \A x \in Nat, y \in Nat : x < y => <<x, y>> \in R
  BY DEF OpToRel
<1>3. IsWellFoundedOn(R, Nat)
  BY NatLessThanWellFounded
<1>4. Bad \subseteq Nat
  OBVIOUS
<1> HIDE DEF R
<1>5. PICK b \in Bad : \A y \in Bad : ~(<<y, b>> \in R)
  BY <1>1, <1>3, <1>4, WFMin
<1>6. \A y \in Bad : ~(y < b)
  BY <1>2, <1>4, <1>5
<1>7. b # 0 /\ b \in 0 .. N /\ b \notin T
  BY <1>5
<1>8. b \in 1 .. N /\ b - 1 \in 0 .. N /\ b - 1 < b
  BY <1>7
<1>9. b - 1 \in T
  BY <1>6, <1>8
<1> QED BY <1>7, <1>8, <1>9

\* The constants, and that NULL is no state.
LEMMA Constants ==
  /\ NumStates \in Nat /\ 1 <= NumStates /\ MaxEvents \in Nat /\ 1 <= MaxEvents
  /\ State = 1 .. NumStates /\ State \subseteq Nat /\ NULL = 0 /\ NULL \notin State
  /\ IsFiniteSet(State)
<1>1. NumStates \in Nat /\ 1 <= NumStates /\ MaxEvents \in Nat /\ 1 <= MaxEvents
  BY SndAssumption
<1>2. IsFiniteSet(1 .. NumStates)
  BY <1>1, FS_Interval
<1> QED BY <1>1, <1>2 DEF State, NULL

-------------------------------------------------------------------------------
(* The lists of states.                                                    *)

Links == [State -> State \cup {NULL}]

\* What the definition of Chain says.
Chained(c, link, s) ==
  c = [n \in 0 .. NumStates |->
         IF n = 0 THEN s ELSE IF c[n - 1] = NULL THEN NULL ELSE link[c[n - 1]]]

\* A chain exists, and so is what its definition says.
LEMMA ChainExists ==
  ASSUME NEW link \in Links, NEW s \in State \cup {NULL}
  PROVE  Chained(Chain(link, s), link, s)
<1> DEFINE D(m) == {n \in 0 .. NumStates : n <= m}
           Eq(c, n) == c[n] = IF n = 0 THEN s ELSE IF c[n - 1] = NULL THEN NULL ELSE link[c[n - 1]]
           T == {m \in 0 .. NumStates :
                   \E c \in [D(m) -> State \cup {NULL}] : \A n \in D(m) : Eq(c, n)}
<1>0. NumStates \in Nat /\ NULL \notin State
  BY Constants
<1>1. 0 \in T
  <2> DEFINE z == [n \in D(0) |-> s]
  <2>1. z \in [D(0) -> State \cup {NULL}] /\ \A n \in D(0) : n = 0 /\ z[n] = s
    BY <1>0
  <2>2. \A n \in D(0) : Eq(z, n)
    BY <2>1
  <2>3. 0 \in 0 .. NumStates
    BY <1>0
  <2> HIDE DEF z, D, Eq
  <2> QED BY <2>1, <2>2, <2>3
<1>2. ASSUME NEW m \in 1 .. NumStates, m - 1 \in T PROVE m \in T
  <2>1. PICK c \in [D(m - 1) -> State \cup {NULL}] : \A n \in D(m - 1) : Eq(c, n)
    BY <1>2
  <2>2. /\ m \in 0 .. NumStates /\ m # 0 /\ m - 1 \in D(m - 1) /\ m \notin D(m - 1)
        /\ D(m) = D(m - 1) \cup {m}
        /\ \A n \in D(m - 1) : n # 0 => n - 1 \in D(m - 1)
    BY <1>0
  <2>3. PICK w : w = IF c[m - 1] = NULL THEN NULL ELSE link[c[m - 1]]
    OBVIOUS
  <2>4. w \in State \cup {NULL}
    BY <2>1, <2>2, <2>3 DEF Links
  <2> HIDE DEF D
  <2> DEFINE d == [n \in D(m) |-> IF n = m THEN w ELSE c[n]]
  <2>5. d \in [D(m) -> State \cup {NULL}]
    BY <2>1, <2>2, <2>4
  <2>6. ASSUME NEW n \in D(m) PROVE Eq(d, n)
    <3>1. CASE n = m
      <4>1. d[n] = w /\ d[n - 1] = c[m - 1] /\ n # 0
        BY <3>1, <2>2
      <4> HIDE DEF d
      <4> QED BY <4>1, <2>3
    <3>2. CASE n # m
      <4>1. n \in D(m - 1) /\ d[n] = c[n] /\ (n # 0 => d[n - 1] = c[n - 1])
        BY <3>2, <2>2
      <4>2. Eq(c, n)
        BY <2>1, <4>1
      <4> HIDE DEF d
      <4> QED BY <4>1, <4>2
    <3> QED BY <3>1, <3>2
  <2> HIDE DEF d, Eq
  <2> QED BY <2>2, <2>5, <2>6
<1>3. NumStates \in T
  <2> HIDE DEF T
  <2>1. \A n \in 0 .. NumStates : n \in T
    BY <1>0, <1>1, <1>2, Climb
  <2> QED BY <2>1, <1>0
<1>4. D(NumStates) = 0 .. NumStates
  BY <1>0
<1>5. PICK c \in [0 .. NumStates -> State \cup {NULL}] : \A n \in 0 .. NumStates : Eq(c, n)
  BY <1>3, <1>4
<1>6. Chained(c, link, s)
  BY <1>5 DEF Chained
<1>7. Chain(link, s) = CHOOSE x : Chained(x, link, s)
  BY Zenon DEF Chain, Chained
<1> QED BY <1>6, <1>7

\* A set of states that the links do not lead out of keeps the chain.
LEMMA ChainStays ==
  ASSUME NEW link \in Links, NEW S \in SUBSET State, NEW s \in S \cup {NULL},
         \A x \in S : link[x] \in S \cup {NULL}
  PROVE  \A n \in 0 .. NumStates : Chain(link, s)[n] \in S \cup {NULL}
<1>1. PICK c : c = Chain(link, s)
  OBVIOUS
<1>2. Chained(c, link, s)
  BY <1>1, ChainExists
<1> DEFINE T == {n \in 0 .. NumStates : c[n] \in S \cup {NULL}}
<1>3. NumStates \in Nat
  BY Constants
<1>4. 0 \in T
  BY <1>2, <1>3 DEF Chained
<1>5. ASSUME NEW n \in 1 .. NumStates, n - 1 \in T PROVE n \in T
  <2>1. n \in 0 .. NumStates /\ n # 0 /\ c[n - 1] \in S \cup {NULL}
    BY <1>5, <1>3
  <2>2. c[n] = IF c[n - 1] = NULL THEN NULL ELSE link[c[n - 1]]
    BY <2>1, <1>2 DEF Chained
  <2> QED BY <2>1, <2>2
<1>6. \A n \in 0 .. NumStates : n \in T
  <2> HIDE DEF T
  <2> QED BY <1>3, <1>4, <1>5, Climb
<1> QED BY <1>1, <1>6

\* The links follow the list q from s on.
Along(link, s, q, k) ==
  /\ s = IF k = 0 THEN NULL ELSE q[1]
  /\ \A i \in 1 .. k : link[q[i]] = IF i = k THEN NULL ELSE q[i + 1]

\* A chain along a list is that list.
LEMMA ChainIs ==
  ASSUME NEW link \in Links, NEW k \in 0 .. NumStates, NEW q \in [1 .. k -> State],
         NEW s, Along(link, s, q, k)
  PROVE  \A n \in 0 .. NumStates : Chain(link, s)[n] = IF n < k THEN q[n + 1] ELSE NULL
<1>1. PICK c : c = Chain(link, s)
  OBVIOUS
<1>3. NumStates \in Nat /\ NULL \notin State /\ k \in Nat
  BY Constants
<1>2. Chained(c, link, s)
  <2>1. s \in State \cup {NULL}
    BY <1>3 DEF Along
  <2> QED BY <1>1, <2>1, ChainExists
<1> DEFINE T == {n \in 0 .. NumStates : c[n] = IF n < k THEN q[n + 1] ELSE NULL}
<1>4. 0 \in T
  BY <1>2, <1>3 DEF Chained, Along
<1>5. ASSUME NEW n \in 1 .. NumStates, n - 1 \in T PROVE n \in T
  <2>1. n \in 0 .. NumStates /\ n # 0 /\ c[n - 1] = IF n - 1 < k THEN q[n] ELSE NULL
    BY <1>5, <1>3
  <2>2. c[n] = IF c[n - 1] = NULL THEN NULL ELSE link[c[n - 1]]
    BY <2>1, <1>2 DEF Chained
  <2>3. CASE n - 1 < k
    <3>1. n \in 1 .. k /\ q[n] \in State
      BY <2>3, <1>3
    <3>2. c[n] = IF n = k THEN NULL ELSE q[n + 1]
      BY <3>1, <2>1, <2>2, <2>3, <1>3 DEF Along
    <3> QED BY <3>1, <3>2, <2>1, <1>3
  <2>4. CASE ~(n - 1 < k)
    BY <2>1, <2>2, <2>4, <1>3
  <2> QED BY <2>3, <2>4
<1>6. \A n \in 0 .. NumStates : n \in T
  <2> HIDE DEF T
  <2> QED BY <1>3, <1>4, <1>5, Climb
<1> QED BY <1>1, <1>6

\* Where the states of S are: in the order in which q has them.
Linked(q, n) ==
  \A i \in 1 .. n : /\ next[q[i]] = IF i = n THEN NULL ELSE q[i + 1]
                    /\ prev[q[i]] = IF i = 1 THEN NULL ELSE q[i - 1]

InOrder(q, n, S) ==
  /\ Linked(q, n)
  /\ \A i, j \in 1 .. n : q[i] = q[j] => i = j
  /\ \A s \in State : s \in S <=> \E i \in 1 .. n : q[i] = s

\* The states of U are on the list of those in use, the others on that of the free ones.
Ordered(f, n, u, k, U) ==
  /\ InOrder(f, n, State \ U) /\ InOrder(u, k, U)
  /\ head = (IF n = 0 THEN NULL ELSE f[1])
  /\ first = (IF k = 0 THEN NULL ELSE u[1])
  /\ last = (IF k = 0 THEN NULL ELSE u[k])

Lists(U) ==
  \E n, k \in 0 .. NumStates : n + k = NumStates /\
    \E f \in [1 .. n -> State], u \in [1 .. k -> State] : Ordered(f, n, u, k, U)

\* At first all states are free.
LEMMA ListsInit ==
  ASSUME Init
  PROVE  Lists({})
<1>1. /\ next = [s \in State |-> IF s = NumStates THEN NULL ELSE s + 1]
      /\ prev = [s \in State |-> s - 1]
      /\ head = 1 /\ first = NULL /\ last = NULL
  BY DEF Init
<1>2. /\ NumStates \in Nat /\ 1 <= NumStates /\ State = 1 .. NumStates /\ NULL = 0
  BY Constants
<1> DEFINE f == [i \in 1 .. NumStates |-> i]
           u == [i \in 1 .. 0 |-> i]
<1>3. f \in [1 .. NumStates -> State] /\ u \in [1 .. 0 -> State] /\ 1 .. 0 = {}
  BY <1>2
<1>4. \A i \in 1 .. NumStates : f[i] = i
  OBVIOUS
<1> HIDE DEF f, u
<1>5. InOrder(f, NumStates, State \ {})
  <2>1. Linked(f, NumStates)
    BY <1>1, <1>2, <1>4 DEF Linked
  <2> QED BY <2>1, <1>2, <1>4 DEF InOrder
<1>6. InOrder(u, 0, {})
  BY <1>3 DEF InOrder, Linked
<1>7. Ordered(f, NumStates, u, 0, {})
  BY <1>1, <1>2, <1>4, <1>5, <1>6 DEF Ordered
<1>8. NumStates \in 0 .. NumStates /\ 0 \in 0 .. NumStates /\ NumStates + 0 = NumStates
  BY <1>2
<1> QED BY <1>3, <1>7, <1>8 DEF Lists

\* The first free state becomes the first one in use.
LEMMA ListsTake ==
  ASSUME NEW U \in SUBSET State, Lists(U), next \in Links, prev \in Links,
         NEW s, s = head, s # NULL, TakeState(s)
  PROVE  /\ s \in State \ U
         /\ (Lists(U \cup {s}))'
<1>1. PICK n \in 0 .. NumStates, k \in 0 .. NumStates : n + k = NumStates /\
        \E f \in [1 .. n -> State], u \in [1 .. k -> State] : Ordered(f, n, u, k, U)
  BY DEF Lists
<1>2. PICK f \in [1 .. n -> State], u \in [1 .. k -> State] : Ordered(f, n, u, k, U)
  BY <1>1
<1>3. NumStates \in Nat /\ NULL \notin State /\ n \in Nat /\ k \in Nat
  BY Constants
<1>4. n # 0 /\ s = f[1] /\ 1 \in 1 .. n /\ s \in State
  BY <1>2, <1>3 DEF Ordered
<1>5. s \notin U
  BY <1>2, <1>4 DEF Ordered, InOrder
<1>6. /\ prev[s] = NULL /\ next[s] = (IF n = 1 THEN NULL ELSE f[2])
      /\ first = (IF k = 0 THEN NULL ELSE u[1]) /\ last = (IF k = 0 THEN NULL ELSE u[k])
  BY <1>2, <1>4 DEF Ordered, InOrder, Linked
<1>7. k # 0 => u[1] \in U /\ u[1] \in State /\ u[1] # s
  BY <1>2, <1>3, <1>5 DEF Ordered, InOrder
<1>8. n # 1 => f[2] \in State /\ f[2] # s /\ f[2] \notin U
  <2> SUFFICES ASSUME n # 1 PROVE f[2] \in State /\ f[2] # s /\ f[2] \notin U
    OBVIOUS
  <2>1. 2 \in 1 .. n
    BY <1>3, <1>4
  <2> QED BY <2>1, <1>2, <1>4 DEF Ordered, InOrder
<1>9. /\ next' \in Links /\ prev' \in Links
      /\ \A x \in State : next'[x] = IF x = s THEN first ELSE next[x]
      /\ \A x \in State : prev'[x] = IF x = s THEN NULL
                                     ELSE IF first # NULL /\ x = first THEN s
                                     ELSE IF next[s] # NULL /\ x = next[s] THEN NULL
                                     ELSE prev[x]
  <2>1. NextUnlinked(s) = next
    BY <1>6 DEF NextUnlinked
  <2>2. PICK p : p = PrevUnlinked(s)
    OBVIOUS
  <2>3. /\ p \in Links
        /\ \A x \in State : p[x] = IF next[s] # NULL /\ x = next[s] THEN NULL ELSE prev[x]
    BY <2>2, <1>6, <1>8 DEF PrevUnlinked, Links
  <2>4. CASE first # NULL
    <3>1. next' = [next EXCEPT ![s] = first] /\ prev' = [p EXCEPT ![s] = NULL, ![first] = s]
      BY <2>1, <2>2, <2>4 DEF TakeState
    <3>2. first \in State /\ first # s
      BY <2>4, <1>6, <1>7
    <3> QED BY <3>1, <3>2, <2>3, <2>4, <1>4 DEF Links
  <2>5. CASE first = NULL
    <3>1. next' = [next EXCEPT ![s] = NULL] /\ prev' = [p EXCEPT ![s] = NULL]
      BY <2>1, <2>2, <2>5 DEF TakeState
    <3> QED BY <3>1, <2>3, <2>5, <1>4 DEF Links
  <2> QED BY <2>4, <2>5
<1>10. /\ head' = next[s] /\ first' = s
       /\ last' = (IF k = 0 THEN s ELSE u[k])
  BY <1>3, <1>6, <1>7 DEF TakeState
<1> DEFINE f2 == [i \in 1 .. (n - 1) |-> f[i + 1]]
           u2 == [i \in 1 .. (k + 1) |-> IF i = 1 THEN s ELSE u[i - 1]]
<1>11. /\ f2 \in [1 .. (n - 1) -> State] /\ \A i \in 1 .. (n - 1) : f2[i] = f[i + 1]
       /\ u2 \in [1 .. (k + 1) -> State] /\ u2[1] = s /\ \A i \in 2 .. (k + 1) : u2[i] = u[i - 1]
  BY <1>3, <1>4
<1> HIDE DEF f2, u2
<1>12. (InOrder(f2, n - 1, State \ (U \cup {s})))'
  <2>1. \A i \in 1 .. n : f[i] \in State \ U /\ (f[i] = s <=> i = 1)
    BY <1>2, <1>4 DEF Ordered, InOrder
  <2>2. ASSUME NEW i \in 1 .. (n - 1)
        PROVE  /\ next'[f2[i]] = IF i = n - 1 THEN NULL ELSE f2[i + 1]
               /\ prev'[f2[i]] = IF i = 1 THEN NULL ELSE f2[i - 1]
    <3>1. i + 1 \in 1 .. n /\ f2[i] = f[i + 1] /\ f[i + 1] # s /\ f[i + 1] \in State \ U
      BY <1>3, <1>11, <2>1
    <3>2. /\ next[f[i + 1]] = IF i + 1 = n THEN NULL ELSE f[i + 2]
          /\ prev[f[i + 1]] = f[i]
      BY <3>1, <1>2 DEF Ordered, InOrder, Linked
    <3>3. next'[f2[i]] = next[f[i + 1]]
      BY <3>1, <1>9
    <3>4. i # n - 1 => f2[i + 1] = f[i + 2]
      BY <1>3, <1>11
    <3>5. first # NULL => f[i + 1] # first
      BY <3>1, <1>6, <1>7
    <3>6. CASE i = 1
      BY <3>1, <3>3, <3>2, <3>4, <3>5, <3>6, <1>3, <1>6, <1>9
    <3>7. CASE i # 1
      <4>1. 2 \in 1 .. n /\ i + 1 # 2 /\ f[i + 1] # f[2] /\ f2[i - 1] = f[i]
        BY <3>1, <3>7, <1>2, <1>3, <1>11 DEF Ordered, InOrder
      <4> QED BY <4>1, <3>1, <3>2, <3>3, <3>4, <3>5, <3>7, <1>3, <1>6, <1>9
    <3> QED BY <3>6, <3>7
  <2>3. \A i, j \in 1 .. (n - 1) : f2[i] = f2[j] => i = j
    BY <1>2, <1>3, <1>11 DEF Ordered, InOrder
  <2>4. ASSUME NEW x \in State
        PROVE  x \in State \ (U \cup {s}) <=> \E i \in 1 .. (n - 1) : f2[i] = x
    <3>1. ASSUME x \in State \ (U \cup {s}) PROVE \E i \in 1 .. (n - 1) : f2[i] = x
      <4>1. PICK i \in 1 .. n : f[i] = x
        BY <3>1, <1>2 DEF Ordered, InOrder
      <4>2. i - 1 \in 1 .. (n - 1) /\ f2[i - 1] = x
        BY <4>1, <3>1, <2>1, <1>3, <1>11
      <4> QED BY <4>2
    <3>2. ASSUME NEW i \in 1 .. (n - 1), f2[i] = x PROVE x \in State \ (U \cup {s})
      BY <3>2, <2>1, <1>3, <1>11
    <3> QED BY <3>1, <3>2
  <2> QED BY <2>2, <2>3, <2>4 DEF InOrder, Linked
<1>13. (InOrder(u2, k + 1, U \cup {s}))'
  <2>1. \A i \in 1 .. k : u[i] \in U
    BY <1>2 DEF Ordered, InOrder
  <2>2. ASSUME NEW i \in 1 .. (k + 1)
        PROVE  /\ next'[u2[i]] = IF i = k + 1 THEN NULL ELSE u2[i + 1]
               /\ prev'[u2[i]] = IF i = 1 THEN NULL ELSE u2[i - 1]
    <3>1. CASE i = 1
      <4>1. next'[s] = first /\ prev'[s] = NULL /\ u2[i] = s
        BY <3>1, <1>4, <1>9, <1>11
      <4>2. k # 0 => u2[2] = u[1]
        BY <1>3, <1>11
      <4> QED BY <4>1, <4>2, <3>1, <1>3, <1>6
    <3>2. CASE i # 1
      <4>1. i - 1 \in 1 .. k /\ u2[i] = u[i - 1] /\ u[i - 1] \in U /\ u[i - 1] # s
        BY <3>2, <2>1, <1>3, <1>5, <1>11
      <4>2. /\ next[u[i - 1]] = IF i - 1 = k THEN NULL ELSE u[i]
            /\ prev[u[i - 1]] = IF i - 1 = 1 THEN NULL ELSE u[i - 2]
        BY <4>1, <1>2 DEF Ordered, InOrder, Linked
      <4>3. next'[u2[i]] = next[u[i - 1]] /\ (i - 1 # k => u2[i + 1] = u[i])
        <5>1. next'[u2[i]] = next[u[i - 1]]
          BY <4>1, <1>9
        <5>2. i - 1 # k => i + 1 \in 2 .. (k + 1) /\ (i + 1) - 1 = i
          BY <1>3
        <5> QED BY <5>1, <5>2, <1>11
      <4>4. u[i - 1] = u[1] <=> i = 2
        BY <4>1, <1>2, <1>3 DEF Ordered, InOrder
      <4>5. u2[i - 1] = IF i = 2 THEN s ELSE u[i - 2]
        BY <4>1, <1>3, <1>11
      <4>6. next[s] # NULL => u[i - 1] # next[s]
        BY <4>1, <1>6, <1>8
      <4>7. first = u[1] /\ first # NULL
        BY <4>1, <1>3, <1>6, <1>7
      <4> QED BY <4>1, <4>2, <4>3, <4>4, <4>5, <4>6, <4>7, <3>2, <1>3, <1>9
    <3> QED BY <3>1, <3>2
  <2>3. \A i, j \in 1 .. (k + 1) : u2[i] = u2[j] => i = j
    <3> SUFFICES ASSUME NEW i \in 1 .. (k + 1), NEW j \in 1 .. (k + 1), u2[i] = u2[j]
                 PROVE  i = j
      OBVIOUS
    <3>1. \A l \in 1 .. (k + 1) : l # 1 => l - 1 \in 1 .. k /\ u2[l] = u[l - 1] /\ u2[l] # s
      BY <2>1, <1>3, <1>5, <1>11
    <3>2. i # 1 /\ j # 1 => i - 1 = j - 1
      BY <3>1, <1>2 DEF Ordered, InOrder
    <3> QED BY <3>1, <3>2, <1>11
  <2>4. ASSUME NEW x \in State
        PROVE  x \in U \cup {s} <=> \E i \in 1 .. (k + 1) : u2[i] = x
    <3>1. ASSUME x \in U PROVE \E i \in 1 .. (k + 1) : u2[i] = x
      <4>1. PICK i \in 1 .. k : u[i] = x
        BY <3>1, <1>2 DEF Ordered, InOrder
      <4>2. i + 1 \in 1 .. (k + 1) /\ u2[i + 1] = x
        BY <4>1, <1>3, <1>11
      <4> QED BY <4>2
    <3>2. ASSUME x = s PROVE \E i \in 1 .. (k + 1) : u2[i] = x
      <4>1. 1 \in 1 .. (k + 1)
        BY <1>3
      <4> QED BY <3>2, <4>1, <1>11
    <3>3. ASSUME NEW i \in 1 .. (k + 1), u2[i] = x PROVE x \in U \cup {s}
      <4>1. i # 1 => i - 1 \in 1 .. k /\ u2[i] = u[i - 1]
        BY <1>3, <1>11
      <4> QED BY <3>3, <4>1, <2>1, <1>11
    <3> QED BY <3>1, <3>2, <3>3
  <2> QED BY <2>2, <2>3, <2>4 DEF InOrder, Linked
<1>14. (Ordered(f2, n - 1, u2, k + 1, U \cup {s}))'
  <2>1. head' = IF n - 1 = 0 THEN NULL ELSE f2[1]
    BY <1>3, <1>4, <1>6, <1>10, <1>11
  <2>2. k + 1 # 0 /\ last' = u2[k + 1] /\ first' = u2[1]
    BY <1>3, <1>10, <1>11
  <2> QED BY <2>1, <2>2, <1>12, <1>13 DEF Ordered
<1>15. n - 1 \in 0 .. NumStates /\ k + 1 \in 0 .. NumStates /\ (n - 1) + (k + 1) = NumStates
  BY <1>1, <1>3, <1>4
<1> QED BY <1>4, <1>5, <1>11, <1>14, <1>15 DEF Lists

\* A state in use becomes the first free one.
LEMMA ListsFree ==
  ASSUME NEW U \in SUBSET State, Lists(U), next \in Links, prev \in Links,
         NEW s \in U, FreeState(s)
  PROVE  (Lists(U \ {s}))'
<1>1. PICK n \in 0 .. NumStates, k \in 0 .. NumStates : n + k = NumStates /\
        \E f \in [1 .. n -> State], u \in [1 .. k -> State] : Ordered(f, n, u, k, U)
  BY DEF Lists
<1>2. PICK f \in [1 .. n -> State], u \in [1 .. k -> State] : Ordered(f, n, u, k, U)
  BY <1>1
<1>3. NumStates \in Nat /\ NULL \notin State /\ n \in Nat /\ k \in Nat
  BY Constants
<1>4. PICK p \in 1 .. k : u[p] = s
  BY <1>2 DEF Ordered, InOrder
<1>5. s \in State /\ k # 0 /\ p \in Nat /\ 1 <= p /\ p <= k
  BY <1>3, <1>4
<1>6. /\ next[s] = (IF p = k THEN NULL ELSE u[p + 1])
      /\ prev[s] = (IF p = 1 THEN NULL ELSE u[p - 1])
      /\ first = u[1] /\ last = u[k] /\ head = (IF n = 0 THEN NULL ELSE f[1])
  BY <1>2, <1>4, <1>5 DEF Ordered, InOrder, Linked
<1>7. /\ \A i \in 1 .. k : u[i] \in U /\ (u[i] = s <=> i = p)
      /\ \A i, j \in 1 .. k : u[i] = u[j] => i = j
      /\ \A i \in 1 .. n : f[i] \in State \ U
      /\ \A i, j \in 1 .. n : f[i] = f[j] => i = j
  BY <1>2, <1>4 DEF Ordered, InOrder
<1>8. /\ p # k => u[p + 1] \in U /\ u[p + 1] # s
      /\ p # 1 => u[p - 1] \in U /\ u[p - 1] # s
      /\ n # 0 => f[1] \in State \ U
  <2>1. /\ p # k => p + 1 \in 1 .. k /\ p + 1 # p
        /\ p # 1 => p - 1 \in 1 .. k /\ p - 1 # p
        /\ n # 0 => 1 \in 1 .. n
    BY <1>3, <1>5
  <2> QED BY <2>1, <1>7
<1>9. /\ next' \in Links /\ prev' \in Links
      /\ \A x \in State : next'[x] = IF x = s THEN head
                                     ELSE IF p # 1 /\ x = u[p - 1] THEN next[s]
                                     ELSE next[x]
      /\ \A x \in State : prev'[x] = IF n # 0 /\ x = f[1] THEN s
                                     ELSE IF x = s THEN NULL
                                     ELSE IF p # k /\ x = u[p + 1] THEN prev[s]
                                     ELSE prev[x]
  <2>1. PICK a, b : a = NextUnlinked(s) /\ b = PrevUnlinked(s)
    OBVIOUS
  <2>2. /\ a \in Links
        /\ \A x \in State : a[x] = IF p # 1 /\ x = u[p - 1] THEN next[s] ELSE next[x]
    <3>1. a = IF p = 1 THEN next ELSE [next EXCEPT ![u[p - 1]] = next[s]]
      BY <2>1, <1>3, <1>6, <1>8 DEF NextUnlinked
    <3>2. next[s] \in State \cup {NULL}
      BY <1>5 DEF Links
    <3> QED BY <3>1, <3>2, <1>8 DEF Links
  <2>3. /\ b \in Links
        /\ \A x \in State : b[x] = IF p # k /\ x = u[p + 1] THEN prev[s] ELSE prev[x]
    <3>1. b = IF p = k THEN prev ELSE [prev EXCEPT ![u[p + 1]] = prev[s]]
      BY <2>1, <1>3, <1>6, <1>8 DEF PrevUnlinked
    <3>2. prev[s] \in State \cup {NULL}
      BY <1>5 DEF Links
    <3> QED BY <3>1, <3>2, <1>8 DEF Links
  <2>4. next' = [a EXCEPT ![s] = head] /\ head \in State \cup {NULL}
    BY <2>1, <1>6, <1>8 DEF FreeState
  <2>5. CASE n = 0
    <3>1. prev' = [b EXCEPT ![s] = NULL]
      BY <2>1, <2>5, <1>6 DEF FreeState
    <3> QED BY <3>1, <2>2, <2>3, <2>4, <2>5, <1>5 DEF Links
  <2>6. CASE n # 0
    <3>1. prev' = [b EXCEPT ![s] = NULL, ![f[1]] = s]
      BY <2>1, <2>6, <1>3, <1>6, <1>8 DEF FreeState
    <3>2. f[1] \in State /\ f[1] # s
      BY <2>6, <1>8
    <3>3. prev' \in Links
      BY <3>1, <3>2, <2>3, <1>5 DEF Links
    <3>4. \A x \in State : prev'[x] = IF x = f[1] THEN s ELSE IF x = s THEN NULL ELSE b[x]
      BY <3>1, <3>2, <2>3, <1>5 DEF Links
    <3>5. next' \in Links
      BY <2>2, <2>4, <1>5 DEF Links
    <3>6. \A x \in State : next'[x] = IF x = s THEN head ELSE a[x]
      BY <2>2, <2>4, <1>5 DEF Links
    <3> QED BY <3>3, <3>4, <3>5, <3>6, <2>2, <2>3, <2>6
  <2> QED BY <2>5, <2>6
<1>10. /\ head' = s
       /\ first' = IF p = 1 THEN next[s] ELSE u[1]
       /\ last' = IF p = k THEN prev[s] ELSE u[k]
  <2>1. 1 \in 1 .. k /\ k \in 1 .. k
    BY <1>5
  <2>2. (s = first <=> p = 1) /\ (s = last <=> p = k)
    BY <2>1, <1>6, <1>7
  <2> QED BY <2>2, <1>6 DEF FreeState, LastWithout
<1> DEFINE f2 == [i \in 1 .. (n + 1) |-> IF i = 1 THEN s ELSE f[i - 1]]
           u2 == [i \in 1 .. (k - 1) |-> IF i < p THEN u[i] ELSE u[i + 1]]
<1>11. /\ f2 \in [1 .. (n + 1) -> State] /\ f2[1] = s
       /\ \A i \in 2 .. (n + 1) : f2[i] = f[i - 1]
       /\ u2 \in [1 .. (k - 1) -> State]
       /\ \A i \in 1 .. (k - 1) : u2[i] = IF i < p THEN u[i] ELSE u[i + 1]
  BY <1>3, <1>5
<1> HIDE DEF f2, u2
<1>12. (InOrder(f2, n + 1, State \ (U \ {s})))'
  <2>1. \A l \in 1 .. (n + 1) : l # 1 => /\ l - 1 \in 1 .. n /\ f2[l] = f[l - 1] /\ f2[l] # s
                                         /\ f2[l] \in State \ U
    BY <1>3, <1>5, <1>7, <1>11
  <2>2. ASSUME NEW i \in 1 .. (n + 1)
        PROVE  /\ next'[f2[i]] = IF i = n + 1 THEN NULL ELSE f2[i + 1]
               /\ prev'[f2[i]] = IF i = 1 THEN NULL ELSE f2[i - 1]
    <3>1. CASE i = 1
      <4>1. f2[i] = s /\ next'[s] = head
        BY <3>1, <1>5, <1>9, <1>11
      <4>2. prev'[s] = NULL
        BY <1>5, <1>8, <1>9
      <4>3. n # 0 => 2 \in 2 .. (n + 1) /\ f2[2] = f[1]
        BY <1>3, <1>11
      <4> QED BY <4>1, <4>2, <4>3, <3>1, <1>3, <1>6
    <3>2. CASE i # 1
      <4>1. i - 1 \in 1 .. n /\ f2[i] = f[i - 1] /\ f[i - 1] \in State \ U /\ f[i - 1] # s
        BY <3>2, <2>1
      <4>2. /\ next[f[i - 1]] = IF i - 1 = n THEN NULL ELSE f[i]
            /\ prev[f[i - 1]] = IF i - 1 = 1 THEN NULL ELSE f[i - 2]
        BY <4>1, <1>2 DEF Ordered, InOrder, Linked
      <4>3. /\ p # 1 => f[i - 1] # u[p - 1]
            /\ p # k => f[i - 1] # u[p + 1]
        BY <4>1, <1>8
      <4>4. next'[f2[i]] = next[f[i - 1]]
        BY <4>1, <4>3, <1>9
      <4>5. i - 1 # n => i + 1 \in 2 .. (n + 1) /\ (i + 1) - 1 = i
        BY <1>3
      <4>6. i - 1 # n => f2[i + 1] = f[i]
        BY <4>5, <1>11
      <4>7. f[i - 1] = f[1] <=> i = 2
        BY <4>1, <1>3, <1>7
      <4>8. prev'[f2[i]] = IF i = 2 THEN s ELSE prev[f[i - 1]]
        BY <4>1, <4>3, <4>7, <1>3, <1>9
      <4>9. f2[i - 1] = IF i = 2 THEN s ELSE f[i - 2]
        BY <4>1, <1>3, <1>11
      <4>10. i - 1 = n <=> i = n + 1
        BY <1>3
      <4> QED BY <4>2, <4>4, <4>6, <4>8, <4>9, <4>10, <3>2
    <3> QED BY <3>1, <3>2
  <2>3. \A i, j \in 1 .. (n + 1) : f2[i] = f2[j] => i = j
    <3> SUFFICES ASSUME NEW i \in 1 .. (n + 1), NEW j \in 1 .. (n + 1), f2[i] = f2[j]
                 PROVE  i = j
      OBVIOUS
    <3>1. i # 1 /\ j # 1 => i - 1 = j - 1
      BY <2>1, <1>7
    <3> QED BY <3>1, <2>1, <1>11
  <2>4. ASSUME NEW x \in State
        PROVE  x \in State \ (U \ {s}) <=> \E i \in 1 .. (n + 1) : f2[i] = x
    <3>1. ASSUME x \notin U PROVE \E i \in 1 .. (n + 1) : f2[i] = x
      <4>1. PICK i \in 1 .. n : f[i] = x
        BY <3>1, <1>2 DEF Ordered, InOrder
      <4>2. i + 1 \in 2 .. (n + 1) /\ i + 1 \in 1 .. (n + 1) /\ (i + 1) - 1 = i
        BY <1>3
      <4> QED BY <4>1, <4>2, <1>11
    <3>2. ASSUME x = s PROVE \E i \in 1 .. (n + 1) : f2[i] = x
      <4>1. 1 \in 1 .. (n + 1)
        BY <1>3
      <4> QED BY <3>2, <4>1, <1>11
    <3>3. ASSUME NEW i \in 1 .. (n + 1), f2[i] = x PROVE x \in State \ (U \ {s})
      BY <3>3, <2>1, <1>11
    <3> QED BY <3>1, <3>2, <3>3
  <2> QED BY <2>2, <2>3, <2>4 DEF InOrder, Linked
<1>13. (InOrder(u2, k - 1, U \ {s}))'
  <2> DEFINE at(i) == IF i < p THEN i ELSE i + 1
  <2>1. ASSUME NEW i \in 1 .. (k - 1)
        PROVE  /\ at(i) \in 1 .. k /\ at(i) # p /\ u2[i] = u[at(i)]
               /\ u[at(i)] \in U /\ u[at(i)] \in State /\ u[at(i)] # s
    <3>1. at(i) \in 1 .. k /\ at(i) # p
      BY <1>5
    <3> QED BY <3>1, <1>7, <1>11
  <2>2. ASSUME NEW i \in 1 .. (k - 1)
        PROVE  /\ next'[u2[i]] = IF i = k - 1 THEN NULL ELSE u2[i + 1]
               /\ prev'[u2[i]] = IF i = 1 THEN NULL ELSE u2[i - 1]
    <3>1. PICK j \in 1 .. k : j = at(i)
      BY <2>1
    <3>2. /\ u2[i] = u[j] /\ u[j] \in U /\ u[j] \in State /\ u[j] # s /\ j # p
          /\ j = IF i < p THEN i ELSE i + 1
      BY <2>1, <3>1
    <3> HIDE DEF at
    <3>3. /\ next[u[j]] = IF j = k THEN NULL ELSE u[j + 1]
          /\ prev[u[j]] = IF j = 1 THEN NULL ELSE u[j - 1]
      BY <1>2 DEF Ordered, InOrder, Linked
    <3>4. /\ p # 1 => p - 1 \in 1 .. k /\ (u[j] = u[p - 1] <=> j = p - 1)
          /\ p # k => p + 1 \in 1 .. k /\ (u[j] = u[p + 1] <=> j = p + 1)
      <4>1. /\ p # 1 => p - 1 \in 1 .. k
            /\ p # k => p + 1 \in 1 .. k
        BY <1>5
      <4> QED BY <4>1, <1>7
    <3>5. n # 0 => u[j] # f[1]
      BY <3>2, <1>8
    <3>6. next'[u[j]] = IF p # 1 /\ j = p - 1 THEN next[s] ELSE next[u[j]]
      BY <3>2, <3>4, <1>9
    <3>7. prev'[u[j]] = IF p # k /\ j = p + 1 THEN prev[s] ELSE prev[u[j]]
      BY <3>2, <3>4, <3>5, <1>9
    <3>8. i # k - 1 => /\ i + 1 \in 1 .. (k - 1)
                       /\ u2[i + 1] = IF i + 1 < p THEN u[i + 1] ELSE u[i + 2]
      BY <1>5, <1>11
    <3>9. i # 1 => i - 1 \in 1 .. (k - 1) /\ u2[i - 1] = IF i - 1 < p THEN u[i - 1] ELSE u[i]
      BY <1>5, <1>11
    <3>10. next'[u[j]] = IF i = k - 1 THEN NULL ELSE u2[i + 1]
      <4>1. CASE j = p - 1
        BY <4>1, <3>2, <3>6, <3>8, <1>5, <1>6
      <4>2. CASE j # p - 1
        BY <4>2, <3>2, <3>3, <3>6, <3>8, <1>5
      <4> QED BY <4>1, <4>2
    <3>11. prev'[u[j]] = IF i = 1 THEN NULL ELSE u2[i - 1]
      <4>1. CASE j = p + 1
        BY <4>1, <3>2, <3>7, <3>9, <1>5, <1>6
      <4>2. CASE j # p + 1
        BY <4>2, <3>2, <3>3, <3>7, <3>9, <1>5
      <4> QED BY <4>1, <4>2
    <3> QED BY <3>2, <3>10, <3>11
  <2>3. \A i, j \in 1 .. (k - 1) : u2[i] = u2[j] => i = j
    <3> SUFFICES ASSUME NEW i \in 1 .. (k - 1), NEW j \in 1 .. (k - 1), u2[i] = u2[j]
                 PROVE  i = j
      OBVIOUS
    <3>1. at(i) = at(j)
      BY <2>1, <1>7
    <3> QED BY <3>1, <1>5
  <2>4. ASSUME NEW x \in State
        PROVE  x \in U \ {s} <=> \E i \in 1 .. (k - 1) : u2[i] = x
    <3>1. ASSUME x \in U \ {s} PROVE \E i \in 1 .. (k - 1) : u2[i] = x
      <4>1. PICK i \in 1 .. k : u[i] = x
        BY <3>1, <1>2 DEF Ordered, InOrder
      <4>2. i # p
        BY <3>1, <4>1, <1>4
      <4>3. CASE i < p
        <5>1. i \in 1 .. (k - 1)
          BY <4>3, <1>5
        <5> QED BY <5>1, <4>1, <4>3, <1>11
      <4>4. CASE p < i
        <5>1. i - 1 \in 1 .. (k - 1) /\ ~(i - 1 < p) /\ (i - 1) + 1 = i
          BY <4>4, <1>5
        <5>2. u2[i - 1] = u[i]
          BY <5>1, <1>11
        <5> QED BY <5>1, <5>2, <4>1
      <4> QED BY <4>2, <4>3, <4>4, <1>5
    <3>2. ASSUME NEW i \in 1 .. (k - 1), u2[i] = x PROVE x \in U \ {s}
      BY <3>2, <2>1
    <3> QED BY <3>1, <3>2
  <2> QED BY <2>2, <2>3, <2>4 DEF InOrder, Linked
<1>14. (Ordered(f2, n + 1, u2, k - 1, U \ {s}))'
  <2>1. n + 1 # 0 /\ head' = f2[1]
    BY <1>3, <1>10, <1>11
  <2>2. first' = IF k - 1 = 0 THEN NULL ELSE u2[1]
    <3>1. k - 1 # 0 => u2[1] = IF 1 < p THEN u[1] ELSE u[2]
      BY <1>5, <1>11
    <3> QED BY <3>1, <1>5, <1>6, <1>10
  <2>3. last' = IF k - 1 = 0 THEN NULL ELSE u2[k - 1]
    <3>1. k - 1 # 0 => u2[k - 1] = IF k - 1 < p THEN u[k - 1] ELSE u[(k - 1) + 1]
      BY <1>5, <1>11
    <3>2. (k - 1) + 1 = k
      BY <1>5
    <3> QED BY <3>1, <3>2, <1>5, <1>6, <1>10
  <2> QED BY <2>1, <2>2, <2>3, <1>12, <1>13 DEF Ordered
<1>15. n + 1 \in 0 .. NumStates /\ k - 1 \in 0 .. NumStates /\ (n + 1) + (k - 1) = NumStates
  BY <1>1, <1>3, <1>5
<1> QED BY <1>11, <1>14, <1>15 DEF Lists

\* What the lists say of the chains: which states are reached along which.
LEMMA ListsReach ==
  ASSUME NEW U \in SUBSET State, Lists(U), next \in Links, prev \in Links
  PROVE  /\ {Chain(next, head)[n] : n \in 0 .. NumStates} \ {NULL} = State \ U
         /\ {Chain(next, first)[n] : n \in 0 .. NumStates} \ {NULL} = U
         /\ \A n \in 0 .. NumStates : Chain(prev, last)[n] \in U \cup {NULL}
         /\ \A s \in State : next[s] # NULL => prev[next[s]] = s
         /\ U # {} => next[last] = NULL /\ last \in U
         /\ {head, first, last} \subseteq State \cup {NULL}
<1>1. PICK n \in 0 .. NumStates, k \in 0 .. NumStates : n + k = NumStates /\
        \E f \in [1 .. n -> State], u \in [1 .. k -> State] : Ordered(f, n, u, k, U)
  BY DEF Lists
<1>2. PICK f \in [1 .. n -> State], u \in [1 .. k -> State] : Ordered(f, n, u, k, U)
  BY <1>1
<1>3. /\ NumStates \in Nat /\ NULL \notin State /\ n \in Nat /\ k \in Nat
      /\ NumStates # 0
  BY Constants
<1>4. /\ InOrder(f, n, State \ U) /\ InOrder(u, k, U)
      /\ head = (IF n = 0 THEN NULL ELSE f[1])
      /\ first = (IF k = 0 THEN NULL ELSE u[1]) /\ last = (IF k = 0 THEN NULL ELSE u[k])
  BY <1>2 DEF Ordered
<1>5. ASSUME NEW q, NEW m \in 0 .. NumStates, q \in [1 .. m -> State], NEW S \in SUBSET State,
             InOrder(q, m, S), NEW h, h = IF m = 0 THEN NULL ELSE q[1]
      PROVE  {Chain(next, h)[i] : i \in 0 .. NumStates} \ {NULL} = S
  <2>1. Along(next, h, q, m)
    BY <1>5 DEF InOrder, Linked, Along
  <2>2. \A i \in 0 .. NumStates : Chain(next, h)[i] = IF i < m THEN q[i + 1] ELSE NULL
    BY <1>5, <2>1, ChainIs
  <2>3. ASSUME NEW x \in {Chain(next, h)[i] : i \in 0 .. NumStates} \ {NULL} PROVE x \in S
    <3>1. PICK i \in 0 .. NumStates : x = Chain(next, h)[i]
      BY <2>3
    <3>2. i < m /\ x = q[i + 1] /\ i + 1 \in 1 .. m
      BY <3>1, <2>2, <2>3, <1>3
    <3>3. x \in State
      BY <3>2, <1>5
    <3> QED BY <3>2, <3>3, <1>5 DEF InOrder
  <2>4. ASSUME NEW x \in S PROVE x \in {Chain(next, h)[i] : i \in 0 .. NumStates} \ {NULL}
    <3>1. PICK i \in 1 .. m : q[i] = x
      BY <1>5 DEF InOrder
    <3>2. i - 1 \in 0 .. NumStates /\ i - 1 < m /\ (i - 1) + 1 = i
      BY <1>3
    <3>3. Chain(next, h)[i - 1] = x
      BY <3>1, <3>2, <2>2
    <3> QED BY <3>2, <3>3, <1>3
  <2> QED BY <2>3, <2>4
<1>6. State \ U \in SUBSET State
  OBVIOUS
<1>7. last \in U \cup {NULL} /\ (U # {} => last \in U)
  <2>1. k # 0 => k \in 1 .. k /\ u[k] \in State
    BY <1>3
  <2>2. U # {} => k # 0
    BY <1>4, <1>3 DEF InOrder
  <2>3. k # 0 => u[k] \in U
    BY <2>1, <1>4 DEF InOrder
  <2> QED BY <2>2, <2>3, <1>4
<1>8. \A n2 \in 0 .. NumStates : Chain(prev, last)[n2] \in U \cup {NULL}
  <2>1. ASSUME NEW x \in U PROVE prev[x] \in U \cup {NULL}
    <3>1. PICK i \in 1 .. k : u[i] = x
      BY <1>4 DEF InOrder
    <3>2. prev[x] = IF i = 1 THEN NULL ELSE u[i - 1]
      BY <3>1, <1>4 DEF InOrder, Linked
    <3>3. i # 1 => i - 1 \in 1 .. k /\ u[i - 1] \in State
      BY <1>3
    <3> QED BY <3>2, <3>3, <1>4 DEF InOrder
  <2> QED BY <2>1, <1>7, ChainStays
<1>9. ASSUME NEW q, NEW m \in Nat, q \in [1 .. m -> State], Linked(q, m), NEW i \in 1 .. m,
             next[q[i]] # NULL
      PROVE  prev[next[q[i]]] = q[i]
  <2>1. next[q[i]] = q[i + 1] /\ i # m
    BY <1>9 DEF Linked
  <2>2. i + 1 \in 1 .. m /\ i + 1 # 1 /\ (i + 1) - 1 = i
    BY <2>1
  <2>3. prev[q[i + 1]] = q[i]
    BY <2>2, <1>9 DEF Linked
  <2> QED BY <2>1, <2>3
<1>10. ASSUME NEW s \in State, next[s] # NULL PROVE prev[next[s]] = s
  <2>1. CASE s \in U
    <3>1. PICK i \in 1 .. k : u[i] = s
      BY <2>1, <1>4 DEF InOrder
    <3> QED BY <3>1, <1>3, <1>4, <1>9, <1>10 DEF InOrder
  <2>2. CASE s \notin U
    <3>1. PICK i \in 1 .. n : f[i] = s
      BY <2>2, <1>4 DEF InOrder
    <3> QED BY <3>1, <1>3, <1>4, <1>9, <1>10 DEF InOrder
  <2> QED BY <2>1, <2>2
<1>11. U # {} => next[last] = NULL
  <2>1. U # {} => k \in 1 .. k /\ last = u[k]
    BY <1>4, <1>3 DEF InOrder
  <2> QED BY <2>1, <1>4 DEF InOrder, Linked
<1>12. {head, first} \subseteq State \cup {NULL}
  <2>1. (n # 0 => 1 \in 1 .. n) /\ (k # 0 => 1 \in 1 .. k)
    BY <1>3
  <2> QED BY <2>1, <1>4
<1> QED BY <1>4, <1>5, <1>6, <1>7, <1>8, <1>10, <1>11, <1>12

-------------------------------------------------------------------------------
(* Folds over sequences.                                                   *)

\* A set of naturals below a bound with an element has a greatest one.
LEMMA GreatestNatural ==
  ASSUME NEW N \in Nat, NEW T \in SUBSET (0 .. N), T # {}
  PROVE  /\ Max(T) \in T /\ \A y \in T : y <= Max(T)
<1> DEFINE B == {n \in 0 .. N :
                   (\E x \in T : x <= n) => \E z \in T : z <= n /\ \A y \in T : y <= n => y <= z}
<1>1. 0 \in B
  OBVIOUS
<1>2. ASSUME NEW n \in 1 .. N, n - 1 \in B PROVE n \in B
  <2>1. CASE n \in T
    BY <2>1
  <2>2. CASE n \notin T
    <3>1. \A x \in T : x \in Nat /\ (x <= n => x <= n - 1)
      BY <2>2
    <3> QED BY <3>1, <1>2
  <2> QED BY <2>1, <2>2
<1> HIDE DEF B
<1>3. \A n \in 0 .. N : n \in B
  BY <1>1, <1>2, Climb
<1>4. N \in B
  BY <1>3
<1>5. \E z \in T : \A y \in T : z >= y
  <2>1. \A y \in T : y \in Nat /\ y <= N
    OBVIOUS
  <2>2. \E x \in T : x <= N
    BY <2>1
  <2>3. PICK z \in T : z <= N /\ \A y \in T : y <= N => y <= z
    BY <2>2, <1>4 DEF B
  <2>4. \A y \in T : z >= y
    BY <2>1, <2>3
  <2> QED BY <2>4
<1>6. Max(T) \in T /\ \A y \in T : Max(T) >= y
  BY <1>5 DEF Max
<1> QED BY <1>6

\* The last of some positions, and what comes before it.
LEMMA LastOf ==
  ASSUME NEW n \in Nat, NEW s \in SUBSET (1 .. n), s # {}
  PROVE  /\ Max(s) \in s /\ Max(s) \in 1 .. n /\ \A y \in s : y <= Max(s)
         /\ s \ {Max(s)} \in SUBSET (1 .. (Max(s) - 1))
<1>1. s \in SUBSET (0 .. n)
  OBVIOUS
<1>2. Max(s) \in s /\ \A y \in s : y <= Max(s)
  BY <1>1, GreatestNatural
<1>3. PICK x \in s : x = Max(s)
  BY <1>2
<1>4. \A y \in s \ {x} : y \in 1 .. (x - 1)
  <2> TAKE y \in s \ {x}
  <2>1. x \in Nat /\ y \in Nat /\ 1 <= y /\ y <= x /\ y # x
    BY <1>2, <1>3
  <2> QED BY <2>1
<1> QED BY <1>2, <1>3, <1>4

\* The equation of a fold from the left over the positions 1 .. n, and with h for
\* its step (the definition of the community modules).
Folding(it, n, base, h) ==
  \A s \in SUBSET (1 .. n) :
    it[s] = IF s = {} THEN base ELSE h[<<it[s \ {Max(s)}], Max(s)>>]

\* There is such a function.
LEMMA FoldExists ==
  ASSUME NEW N \in Nat, NEW V, NEW base \in V, NEW h \in [V \X (1 .. N) -> V]
  PROVE  \E it \in [SUBSET (1 .. N) -> V] : Folding(it, N, base, h)
<1> DEFINE P(n) == n <= N => \E it \in [SUBSET (1 .. n) -> V] : Folding(it, n, base, h)
<1>1. P(0)
  <2> DEFINE z == [s \in SUBSET (1 .. 0) |-> base]
  <2>1. z \in [SUBSET (1 .. 0) -> V] /\ \A s \in SUBSET (1 .. 0) : s = {} /\ z[s] = base
    OBVIOUS
  <2> QED BY <2>1 DEF Folding
<1>2. ASSUME NEW n \in Nat, P(n) PROVE P(n + 1)
  <2> SUFFICES ASSUME n + 1 <= N
               PROVE  \E it \in [SUBSET (1 .. (n + 1)) -> V] : Folding(it, n + 1, base, h)
    OBVIOUS
  <2>1. PICK g \in [SUBSET (1 .. n) -> V] : Folding(g, n, base, h)
    <3>1. n <= N
      OBVIOUS
    <3> QED BY <1>2, <3>1
  <2> DEFINE it == [s \in SUBSET (1 .. (n + 1)) |->
                      IF s = {} THEN base ELSE h[<<g[s \ {Max(s)}], Max(s)>>]]
  <2>2. ASSUME NEW s \in SUBSET (1 .. (n + 1)), s # {}
        PROVE  /\ Max(s) \in 1 .. (n + 1) /\ s \ {Max(s)} \in SUBSET (1 .. n)
    <3>1. Max(s) \in 1 .. (n + 1) /\ s \ {Max(s)} \in SUBSET (1 .. (Max(s) - 1))
      BY <2>2, LastOf
    <3>2. 1 .. (Max(s) - 1) \subseteq 1 .. n
      BY <3>1
    <3> QED BY <3>1, <3>2
  <2>3. it \in [SUBSET (1 .. (n + 1)) -> V]
    <3> SUFFICES ASSUME NEW s \in SUBSET (1 .. (n + 1)), s # {}
                 PROVE  h[<<g[s \ {Max(s)}], Max(s)>>] \in V
      OBVIOUS
    <3>1. g[s \ {Max(s)}] \in V /\ Max(s) \in 1 .. N
      BY <2>1, <2>2
    <3> QED BY <3>1
  <2>4. \A s \in SUBSET (1 .. n) : it[s] = g[s]
    <3> TAKE s \in SUBSET (1 .. n)
    <3>1. s \in SUBSET (1 .. (n + 1))
      OBVIOUS
    <3>2. it[s] = IF s = {} THEN base ELSE h[<<g[s \ {Max(s)}], Max(s)>>]
      BY <3>1
    <3>3. g[s] = IF s = {} THEN base ELSE h[<<g[s \ {Max(s)}], Max(s)>>]
      BY <2>1 DEF Folding
    <3> QED BY <3>2, <3>3
  <2>5. Folding(it, n + 1, base, h)
    <3> SUFFICES ASSUME NEW s \in SUBSET (1 .. (n + 1))
                 PROVE  it[s] = IF s = {} THEN base ELSE h[<<it[s \ {Max(s)}], Max(s)>>]
      BY DEF Folding
    <3>1. it[s] = IF s = {} THEN base ELSE h[<<g[s \ {Max(s)}], Max(s)>>]
      OBVIOUS
    <3>2. s # {} => it[s \ {Max(s)}] = g[s \ {Max(s)}]
      BY <2>2, <2>4
    <3> HIDE DEF it
    <3> QED BY <3>1, <3>2
  <2> QED BY <2>3, <2>5
<1>3. N \in 0 .. N /\ \A n \in 0 .. N : n \in {k \in 0 .. N : P(k)}
  <2> HIDE DEF P
  <2> DEFINE T == {k \in 0 .. N : P(k)}
  <2>1. 0 \in T
    BY <1>1
  <2>2. ASSUME NEW n \in 1 .. N, n - 1 \in T PROVE n \in T
    <3>1. n - 1 \in Nat /\ P(n - 1) /\ (n - 1) + 1 = n
      BY <2>2
    <3>2. P((n - 1) + 1)
      BY <1>2, <3>1
    <3> QED BY <3>1, <3>2
  <2> HIDE DEF T
  <2>3. \A n \in 0 .. N : n \in T
    BY <2>1, <2>2, Climb
  <2> QED BY <2>3 DEF T
<1>4. P(N)
  BY <1>3
<1>5. N <= N
  OBVIOUS
<1> QED BY <1>4, <1>5, Zenon

\* The first n positions.
LEMMA Firsts ==
  ASSUME NEW n \in Nat \ {0}
  PROVE  1 .. n # {} /\ Max(1 .. n) = n /\ (1 .. n) \ {n} = 1 .. (n - 1)
<1>1. n \in 1 .. n /\ (1 .. n) \ {n} = 1 .. (n - 1)
  OBVIOUS
<1>2. Max(1 .. n) \in 1 .. n /\ \A y \in 1 .. n : y <= Max(1 .. n)
  BY <1>1, LastOf
<1> QED BY <1>1, <1>2

-------------------------------------------------------------------------------
(* The event queue.                                                        *)

Item == [event : Event, delta : Nat]

\* What PostStep passes on from one item to the next.
PostStates ==
  [event : Event, delay : Int, list : Seq([event : Event, delta : Int]), placed : BOOLEAN]

\* Posting goes through the list from its start.
LEMMA PostRuns ==
  ASSUME NEW list \in Seq(Item), NEW e \in Event, NEW delay \in Nat
  PROVE  \E f : /\ f[0] = [event |-> e, delay |-> delay, list |-> <<>>, placed |-> FALSE]
                /\ \A n \in 1 .. Len(list) : f[n] = PostStep(f[n - 1], list[n])
                /\ Posted(list, e, delay) =
                     IF f[Len(list)].placed THEN f[Len(list)].list
                     ELSE Append(f[Len(list)].list, [event |-> e, delta |-> f[Len(list)].delay])
<1> DEFINE N == Len(list)
           V == PostStates
           base == [event |-> e, delay |-> delay, list |-> <<>>, placed |-> FALSE]
           h == [x \in V \X (1 .. N) |-> PostStep(x[1], list[x[2]])]
           Eq(it) == it = [s \in SUBSET DOMAIN list |->
                             IF s = {} THEN base ELSE PostStep(it[s \ {Max(s)}], list[Max(s)])]
<1>1. /\ base \in V /\ N \in Nat /\ DOMAIN list = 1 .. N
      /\ \A i \in 1 .. N : list[i] \in Item
  BY DEF PostStates
<1>2. \A s \in V, i \in 1 .. N : PostStep(s, list[i]) \in V
  <2> SUFFICES ASSUME NEW s \in V, NEW i \in 1 .. N PROVE PostStep(s, list[i]) \in V
    OBVIOUS
  <2>1. PICK x \in Item : x = list[i]
    BY <1>1
  <2>2. /\ s.event \in Event /\ s.delay \in Int /\ s.placed \in BOOLEAN
        /\ s.list \in Seq([event : Event, delta : Int])
        /\ x \in [event : Event, delta : Int] /\ x.delta \in Nat
    BY DEF PostStates, Item
  <2>3. CASE s.placed
    <3>1. Append(s.list, x) \in Seq([event : Event, delta : Int])
      BY <2>2
    <3> QED BY <3>1, <2>1, <2>3 DEF PostStep, PostStates
  <2>4. CASE ~s.placed /\ Passed(s.delay, x.delta)
    <3>1. Append(s.list, x) \in Seq([event : Event, delta : Int]) /\ s.delay - x.delta \in Int
      BY <2>2
    <3> QED BY <3>1, <2>1, <2>4 DEF PostStep, PostStates
  <2>5. CASE ~s.placed /\ ~Passed(s.delay, x.delta)
    <3>1. PICK a, b : /\ a = [event |-> s.event, delta |-> s.delay]
                      /\ b = [x EXCEPT !.delta = @ - s.delay]
      OBVIOUS
    <3>2. a \in [event : Event, delta : Int] /\ b \in [event : Event, delta : Int]
      <4>1. a \in [event : Event, delta : Int]
        BY <2>2, <3>1
      <4>2. PICK k \in Int : k = x.delta - s.delay
        BY <2>2
      <4>3. b = [x EXCEPT !.delta = k]
        BY <3>1, <4>2
      <4>4. b \in [event : Event, delta : Int]
        BY <2>2, <4>2, <4>3
      <4> QED BY <4>1, <4>4
    <3>3. s.list \o <<a, b>> \in Seq([event : Event, delta : Int])
      BY <2>2, <3>2
    <3>4. PICK l \in Seq([event : Event, delta : Int]) : l = s.list \o <<a, b>>
      BY <3>3
    <3>5. PostStep(s, x) = [s EXCEPT !.list = l, !.placed = TRUE]
      BY <2>5, <3>1, <3>4 DEF PostStep
    <3>6. [s EXCEPT !.list = l, !.placed = TRUE] \in PostStates
      BY DEF PostStates
    <3> QED BY <2>1, <3>5, <3>6
  <2> QED BY <2>3, <2>4, <2>5
<1>3. h \in [V \X (1 .. N) -> V]
  BY <1>2
<1>4. PICK w : w = (CHOOSE it : Eq(it))
  OBVIOUS
<1>5. Posted(list, e, delay) =
        IF w[1 .. N].placed THEN w[1 .. N].list
        ELSE Append(w[1 .. N].list, [event |-> e, delta |-> w[1 .. N].delay])
  <2>1. Posted(list, e, delay) =
          LET s == (CHOOSE it : Eq(it))[DOMAIN list]
          IN IF s.placed THEN s.list ELSE Append(s.list, [event |-> e, delta |-> s.delay])
    BY Zenon DEF Posted, FoldLeft, MapThenFoldSet
  <2> QED BY <2>1, <1>1, <1>4
<1> HIDE DEF V, base, h
<1>6. PICK g \in [SUBSET (1 .. N) -> V] : Folding(g, N, base, h)
  BY <1>1, <1>3, FoldExists
<1>7. Eq(g)
  <2>1. ASSUME NEW s \in SUBSET (1 .. N)
        PROVE  g[s] = IF s = {} THEN base ELSE PostStep(g[s \ {Max(s)}], list[Max(s)])
    <3>1. CASE s = {}
      BY <3>1, <1>6 DEF Folding
    <3>2. CASE s # {}
      <4>1. Max(s) \in 1 .. N /\ s \ {Max(s)} \in SUBSET (1 .. N)
        BY <3>2, <1>1, LastOf
      <4>2. g[s \ {Max(s)}] \in V
        BY <4>1, <1>6
      <4>3. h[<<g[s \ {Max(s)}], Max(s)>>] = PostStep(g[s \ {Max(s)}], list[Max(s)])
        BY <4>1, <4>2 DEF h
      <4> QED BY <3>2, <4>3, <1>6 DEF Folding
    <3> QED BY <3>1, <3>2
  <2> QED BY <2>1, <1>1, <1>6
<1>8. Eq(w)
  BY <1>4, <1>7
<1> DEFINE f == [n \in 0 .. N |-> w[1 .. n]]
<1>9. f[0] = base
  BY <1>1, <1>8
<1>10. ASSUME NEW n \in 1 .. N PROVE f[n] = PostStep(f[n - 1], list[n])
  <2>1. n \in Nat \ {0} /\ n \in 0 .. N /\ n - 1 \in 0 .. N /\ 1 .. n \in SUBSET (1 .. N)
    BY <1>1
  <2>2. w[1 .. n] = PostStep(w[1 .. (n - 1)], list[n])
    <3>1. PICK s \in SUBSET DOMAIN list : s = 1 .. n
      BY <2>1, <1>1
    <3>2. s # {} /\ Max(s) = n /\ s \ {n} = 1 .. (n - 1)
      BY <2>1, <3>1, Firsts
    <3>3. w[s] = PostStep(w[s \ {Max(s)}], list[Max(s)])
      BY <3>2, <1>8
    <3> QED BY <3>1, <3>2, <3>3
  <2> QED BY <2>1, <2>2
<1>11. N \in 0 .. N /\ f[N] = w[1 .. N]
  BY <1>1
<1> HIDE DEF f
<1> QED BY <1>5, <1>9, <1>10, <1>11 DEF base

\* What the items of a list are.
LEMMA ItemIs ==
  ASSUME NEW list \in Seq(Item)
  PROVE  /\ Len(list) \in Nat
         /\ \A n \in 1 .. Len(list) :
              /\ list[n] \in Item /\ list[n].event \in Event /\ list[n].delta \in Nat
              /\ list[n] = [event |-> list[n].event, delta |-> list[n].delta]
<1>1. \A n \in 1 .. Len(list) : list[n] \in Item
  OBVIOUS
<1>2. \A x \in Item : /\ x.event \in Event /\ x.delta \in Nat
                      /\ x = [event |-> x.event, delta |-> x.delta]
  BY DEF Item
<1> QED BY <1>1, <1>2

\* What posting passes on: the event with the delay that is left, the list so far, and
\* whether the event is on it; and one step in its three cases.
PassedOn(r, ev, D, L, placed) == r = [event |-> ev, delay |-> D, list |-> L, placed |-> placed]

\* A post passes the items that are due before it, and copies those behind it.
LEMMA PostStepIs ==
  ASSUME NEW r, NEW ev, NEW D, NEW L, NEW x
  PROVE  /\ PassedOn(r, ev, D, L, TRUE) => PassedOn(PostStep(r, x), ev, D, Append(L, x), TRUE)
         /\ PassedOn(r, ev, D, L, FALSE) /\ D >= x.delta =>
              PassedOn(PostStep(r, x), ev, D - x.delta, Append(L, x), FALSE)
<1>1. ASSUME PassedOn(r, ev, D, L, TRUE)
      PROVE  PassedOn(PostStep(r, x), ev, D, Append(L, x), TRUE)
  <2>1. r = [event |-> ev, delay |-> D, list |-> L, placed |-> TRUE]
    BY <1>1 DEF PassedOn
  <2>2. PostStep(r, x) = [r EXCEPT !.list = Append(@, x)]
    BY <2>1 DEF PostStep
  <2> QED BY <2>1, <2>2 DEF PassedOn
<1>2. ASSUME PassedOn(r, ev, D, L, FALSE), D >= x.delta
      PROVE  PassedOn(PostStep(r, x), ev, D - x.delta, Append(L, x), FALSE)
  <2>1. r = [event |-> ev, delay |-> D, list |-> L, placed |-> FALSE]
    BY <1>2 DEF PassedOn
  <2>2. PostStep(r, x) = [r EXCEPT !.list = Append(@, x), !.delay = @ - x.delta]
    BY <2>1, <1>2 DEF PostStep, Passed
  <2> QED BY <2>1, <2>2 DEF PassedOn
<1> QED BY <1>1, <1>2

\* It is put ahead of the first item that is due after it, whose delta is cut by its own.
LEMMA PostStepPuts ==
  ASSUME NEW r, NEW ev, NEW D, NEW L, NEW x, PassedOn(r, ev, D, L, FALSE), ~(D >= x.delta),
         NEW a, a = [event |-> ev, delta |-> D], NEW b, b = [x EXCEPT !.delta = @ - D]
  PROVE  PassedOn(PostStep(r, x), ev, D, L \o <<a, b>>, TRUE)
<1>1. r = [event |-> ev, delay |-> D, list |-> L, placed |-> FALSE]
  BY DEF PassedOn
<1>2. PostStep(r, x) = [r EXCEPT !.list = @ \o <<[event |-> r.event, delta |-> r.delay],
                                                [x EXCEPT !.delta = @ - r.delay]>>,
                                 !.placed = TRUE]
  BY <1>1 DEF PostStep, Passed
<1>3. r.event = ev /\ r.delay = D
  BY <1>1
<1>4. PICK c : c = r.list \o <<a, b>>
  OBVIOUS
<1>5. PostStep(r, x) = [r EXCEPT !.list = c, !.placed = TRUE]
  BY <1>2, <1>3, <1>4
<1>6. c = L \o <<a, b>>
  BY <1>1, <1>4
<1>7. PassedOn(PostStep(r, x), ev, D, c, TRUE)
  <2>1. [r EXCEPT !.list = c, !.placed = TRUE]
          = [event |-> ev, delay |-> D, list |-> c, placed |-> TRUE]
    <3>1. ASSUME NEW q, NEW t, NEW m, m = [event |-> ev, delay |-> D, list |-> L, placed |-> q]
          PROVE  [m EXCEPT !.list = c, !.placed = t]
                   = [event |-> ev, delay |-> D, list |-> c, placed |-> t]
      <4>1. DOMAIN m = {"event", "delay", "list", "placed"}
        BY <3>1
      <4>2. m.event = ev /\ m.delay = D
        BY <3>1
      <4>3. [m EXCEPT !.list = c, !.placed = t]
              = [i \in DOMAIN m |-> IF i = "placed" THEN t ELSE IF i = "list" THEN c ELSE m[i]]
        BY <4>1
      <4> QED BY <4>1, <4>2, <4>3
    <3> QED BY <3>1, <1>1, Zenon
  <2> QED BY <2>1, <1>5 DEF PassedOn
<1> QED BY <1>6, <1>7

\* When the items of a list fall due: the equation of the definition in Agenda.
Times(due, list) ==
  due = [i \in 0 .. Len(list) |-> IF i = 0 THEN 0 ELSE due[i - 1] + list[i].delta]

\* There are such times, only one for each list, and they do not decrease.
LEMMA TimesExist ==
  ASSUME NEW list \in Seq(Item)
  PROVE  \E due \in [0 .. Len(list) -> Nat] : Times(due, list)
<1> DEFINE N == Len(list)
           Eq(c, n) == c[n] = IF n = 0 THEN 0 ELSE c[n - 1] + list[n].delta
           T == {m \in 0 .. N : \E c \in [0 .. m -> Nat] : \A n \in 0 .. m : Eq(c, n)}
<1>1. N \in Nat /\ \A n \in 1 .. N : list[n].delta \in Nat
  BY ItemIs
<1>2. 0 \in T
  <2> DEFINE z == [n \in 0 .. 0 |-> 0]
  <2>1. z \in [0 .. 0 -> Nat] /\ \A n \in 0 .. 0 : n = 0 /\ z[n] = 0
    OBVIOUS
  <2>2. \A n \in 0 .. 0 : Eq(z, n)
    BY <2>1
  <2>3. 0 \in 0 .. N
    BY <1>1
  <2> HIDE DEF z, Eq
  <2> QED BY <2>1, <2>2, <2>3
<1>3. ASSUME NEW m \in 1 .. N, m - 1 \in T PROVE m \in T
  <2>1. PICK c \in [0 .. (m - 1) -> Nat] : \A n \in 0 .. (m - 1) : Eq(c, n)
    BY <1>3
  <2>2. /\ m \in 0 .. N /\ m # 0 /\ m - 1 \in 0 .. (m - 1) /\ m \notin 0 .. (m - 1)
        /\ \A n \in 0 .. m : n # m => n \in 0 .. (m - 1)
        /\ \A n \in 0 .. m : n # 0 => n - 1 \in 0 .. (m - 1) /\ n - 1 # m /\ n - 1 \in 0 .. m
    BY <1>1
  <2>3. PICK w \in Nat : w = c[m - 1] + list[m].delta
    <3>1. c[m - 1] \in Nat
      BY <2>1, <2>2
    <3>2. list[m].delta \in Nat
      BY <1>1
    <3> QED BY <3>1, <3>2
  <2> DEFINE d == [n \in 0 .. m |-> IF n = m THEN w ELSE c[n]]
  <2>4. d \in [0 .. m -> Nat]
    BY <2>1, <2>2
  <2>5. ASSUME NEW n \in 0 .. m PROVE Eq(d, n)
    <3>1. CASE n = m
      <4>1. d[n] = w /\ d[n - 1] = c[m - 1] /\ n # 0
        BY <3>1, <2>2
      <4> HIDE DEF d
      <4> QED BY <4>1, <2>3, <3>1
    <3>2. CASE n # m
      <4>1. n \in 0 .. (m - 1) /\ d[n] = c[n] /\ (n # 0 => d[n - 1] = c[n - 1])
        BY <3>2, <2>2
      <4>2. Eq(c, n)
        BY <2>1, <4>1
      <4> HIDE DEF d
      <4> QED BY <4>1, <4>2
    <3> QED BY <3>1, <3>2
  <2> HIDE DEF d, Eq
  <2> QED BY <2>2, <2>4, <2>5
<1>4. N \in T
  <2> HIDE DEF T
  <2>1. \A n \in 0 .. N : n \in T
    BY <1>1, <1>2, <1>3, Climb
  <2> QED BY <2>1, <1>1
<1>5. PICK c \in [0 .. N -> Nat] : \A n \in 0 .. N : Eq(c, n)
  BY <1>4
<1>6. Times(c, list)
  BY <1>5 DEF Times
<1> QED BY <1>5, <1>6

\* A list has one function of the times at which its items fall due.
LEMMA TimesUnique ==
  ASSUME NEW list \in Seq(Item), NEW due, Times(due, list), NEW d, Times(d, list)
  PROVE  due = d
<1> DEFINE T == {n \in 0 .. Len(list) : due[n] = d[n]}
<1>1. Len(list) \in Nat
  OBVIOUS
<1>2. 0 \in T
  BY <1>1 DEF Times
<1>3. ASSUME NEW n \in 1 .. Len(list), n - 1 \in T PROVE n \in T
  <2>1. n \in 0 .. Len(list) /\ n # 0 /\ due[n - 1] = d[n - 1]
    BY <1>3
  <2>2. due[n] = due[n - 1] + list[n].delta
    BY <2>1 DEF Times
  <2>3. d[n] = d[n - 1] + list[n].delta
    BY <2>1 DEF Times
  <2> QED BY <2>1, <2>2, <2>3
<1>4. \A n \in 0 .. Len(list) : n \in T
  <2> HIDE DEF T
  <2> QED BY <1>1, <1>2, <1>3, Climb
<1>5. \A n \in 0 .. Len(list) : due[n] = d[n]
  BY <1>4
<1>6. DOMAIN due = 0 .. Len(list) /\ DOMAIN d = 0 .. Len(list)
  BY DEF Times
<1>7. due = [n \in 0 .. Len(list) |-> due[n]] /\ d = [n \in 0 .. Len(list) |-> d[n]]
  BY Zenon DEF Times
<1> QED BY <1>5, <1>7

\* One step of the times, and their order.
LEMMA TimesStep ==
  ASSUME NEW list \in Seq(Item), NEW due, Times(due, list)
  PROVE  /\ due \in [0 .. Len(list) -> Nat] /\ due[0] = 0
         /\ \A i \in 1 .. Len(list) : due[i] = due[i - 1] + list[i].delta
<1>1. PICK d \in [0 .. Len(list) -> Nat] : Times(d, list)
  BY TimesExist
<1>2. due = d
  BY <1>1, TimesUnique
<1>3. Len(list) \in Nat /\ 0 \in 0 .. Len(list)
        /\ \A i \in 1 .. Len(list) : i \in 0 .. Len(list) /\ i # 0
  OBVIOUS
<1>4. \A i \in 0 .. Len(list) : due[i] = IF i = 0 THEN 0 ELSE due[i - 1] + list[i].delta
  BY DEF Times
<1> QED BY <1>1, <1>2, <1>3, <1>4

\* The items of a list fall due in its order.
LEMMA TimesRise ==
  ASSUME NEW list \in Seq(Item), NEW due, Times(due, list),
         NEW i \in 0 .. Len(list), NEW j \in i .. Len(list)
  PROVE  due[i] <= due[j]
<1>1. /\ due \in [0 .. Len(list) -> Nat]
      /\ \A k \in 1 .. Len(list) : due[k] = due[k - 1] + list[k].delta
      /\ \A k \in 1 .. Len(list) : list[k].delta \in Nat
  BY TimesStep, ItemIs
<1> DEFINE M == Len(list) - i
           T == {n \in 0 .. M : due[i] <= due[i + n]}
<1>2. M \in Nat /\ i \in Nat
  OBVIOUS
<1>3. 0 \in T
  BY <1>1, <1>2
<1>4. ASSUME NEW n \in 1 .. M, n - 1 \in T PROVE n \in T
  <2>1. i + n \in 1 .. Len(list) /\ (i + n) - 1 = i + (n - 1) /\ i + (n - 1) \in 0 .. Len(list)
    BY <1>2
  <2>2. due[i + n] = due[i + (n - 1)] + list[i + n].delta /\ list[i + n].delta \in Nat
    BY <2>1, <1>1
  <2>3. due[i] <= due[i + (n - 1)] /\ n \in 0 .. M
    BY <1>4
  <2>4. due[i] \in Nat /\ due[i + (n - 1)] \in Nat
    BY <2>1, <1>1
  <2> QED BY <2>2, <2>3, <2>4
<1>5. \A n \in 0 .. M : n \in T
  <2> HIDE DEF T, M
  <2> QED BY <1>2, <1>3, <1>4, Climb
<1>6. j - i \in 0 .. M /\ i + (j - i) = j
  BY <1>2
<1> QED BY <1>5, <1>6

\* new is the first n items of list with e put in at p, due after d.
PutIn(new, n, list, due, e, d, p) ==
  /\ new \in Seq(Item) /\ Len(new) = n + 1
  /\ \A i \in 1 .. (p - 1) : new[i] = list[i]
  /\ due[p - 1] <= d /\ new[p] = [event |-> e, delta |-> d - due[p - 1]]
  /\ p <= n => d < due[p] /\ new[p + 1] = [event |-> list[p].event, delta |-> due[p] - d]
  /\ \A i \in (p + 2) .. (n + 1) : new[i] = list[i - 1]

\* A new event goes in at the place where it is due.
LEMMA PostedIs ==
  ASSUME NEW list \in Seq(Item), NEW due, Times(due, list), NEW e \in Event, NEW d \in Nat
  PROVE  \E p \in 1 .. (Len(list) + 1) : PutIn(Posted(list, e, d), Len(list), list, due, e, d, p)
<1> DEFINE N == Len(list)
           Before(r, n) == \E L \in Seq(Item) :
             /\ PassedOn(r, e, d - due[n], L, FALSE)
             /\ due[n] <= d /\ Len(L) = n /\ \A i \in 1 .. n : L[i] = list[i]
           After(r, n) == \E L \in Seq(Item), D \in Int, p \in 1 .. n :
             /\ PassedOn(r, e, D, L, TRUE)
             /\ PutIn(L, n, list, due, e, d, p)
<1>1. PICK f : /\ f[0] = [event |-> e, delay |-> d, list |-> <<>>, placed |-> FALSE]
               /\ \A n \in 1 .. N : f[n] = PostStep(f[n - 1], list[n])
               /\ Posted(list, e, d) =
                    IF f[N].placed THEN f[N].list
                    ELSE Append(f[N].list, [event |-> e, delta |-> f[N].delay])
  BY PostRuns
<1>2. /\ N \in Nat /\ due \in [0 .. N -> Nat] /\ due[0] = 0
      /\ \A n \in 1 .. N : due[n] = due[n - 1] + list[n].delta
      /\ \A n \in 1 .. N : list[n] \in Item
  BY TimesStep
<1> DEFINE T == {n \in 0 .. N : Before(f[n], n) \/ After(f[n], n)}
<1>3. 0 \in T
  <2>1. <<>> \in Seq(Item) /\ Len(<<>>) = 0 /\ d - 0 = d
    OBVIOUS
  <2>2. PICK L \in Seq(Item) : L = <<>>
    BY <2>1
  <2>3. /\ PassedOn(f[0], e, d - due[0], L, FALSE)
        /\ due[0] <= d /\ Len(L) = 0 /\ \A i \in 1 .. 0 : L[i] = list[i]
    <3>1. d - due[0] = d /\ due[0] <= d
      BY <1>2
    <3>2. PassedOn(f[0], e, d - due[0], L, FALSE)
      BY <3>1, <2>2, <1>1 DEF PassedOn
    <3>3. Len(L) = 0 /\ 1 .. 0 = {}
      BY <2>1, <2>2
    <3> QED BY <3>1, <3>2, <3>3
  <2>4. Before(f[0], 0)
    BY <2>3
  <2> HIDE DEF Before, After
  <2> QED BY <2>4, <1>2
<1>4. ASSUME NEW n \in 1 .. N, n - 1 \in T PROVE n \in T
  <2>1. PICK x \in Item : x = list[n]
    BY <1>2
  <2>2. x = [event |-> x.event, delta |-> x.delta] /\ x.event \in Event /\ x.delta \in Nat
    BY DEF Item
  <2>3. /\ n \in Nat /\ 1 <= n /\ n - 1 \in 0 .. N /\ n \in 0 .. N
        /\ due[n - 1] \in Nat /\ due[n] \in Nat /\ due[n] = due[n - 1] + x.delta
        /\ f[n] = PostStep(f[n - 1], x)
    BY <1>1, <1>2, <2>1
  <2>4. CASE Before(f[n - 1], n - 1)
    <3>1. PICK L \in Seq(Item) :
             /\ PassedOn(f[n - 1], e, d - due[n - 1], L, FALSE)
             /\ due[n - 1] <= d /\ Len(L) = n - 1 /\ \A i \in 1 .. (n - 1) : L[i] = list[i]
      BY <2>4
    <3>2. CASE x.delta <= d - due[n - 1]
      <4>1. PassedOn(f[n], e, d - due[n], Append(L, x), FALSE)
        <5>1. (d - due[n - 1]) - x.delta = d - due[n] /\ d - due[n - 1] >= x.delta
          BY <2>2, <2>3, <3>2
        <5>2. PassedOn(f[n], e, (d - due[n - 1]) - x.delta, Append(L, x), FALSE)
          BY <5>1, <2>3, <3>1, PostStepIs
        <5> QED BY <5>1, <5>2
      <4>2. due[n] <= d
        BY <2>2, <2>3, <3>2
      <4>3. Append(L, x) \in Seq(Item) /\ Len(Append(L, x)) = n
        BY <3>1, <2>3
      <4>4. \A i \in 1 .. n : Append(L, x)[i] = list[i]
        BY <2>1, <2>3, <3>1
      <4>5. Before(f[n], n)
        BY <4>1, <4>2, <4>3, <4>4
      <4> HIDE DEF Before, After
      <4> QED BY <4>5, <2>3
    <3>3. CASE ~(x.delta <= d - due[n - 1])
      <4>1. PICK a, b : /\ a = [event |-> e, delta |-> d - due[n - 1]]
                        /\ b = [event |-> x.event, delta |-> due[n] - d]
        OBVIOUS
      <4>2. a \in Item /\ b \in Item /\ d < due[n]
        <5>1. d - due[n - 1] \in Nat /\ due[n] - d \in Nat /\ d < due[n]
          BY <2>2, <2>3, <3>1, <3>3
        <5> QED BY <5>1, <4>1, <2>2 DEF Item
      <4>3. [x EXCEPT !.delta = @ - (d - due[n - 1])] = b
        <5>1. x.delta - (d - due[n - 1]) = due[n] - d
          BY <2>2, <2>3
        <5> QED BY <5>1, <4>1, <2>2
      <4>4. ~(d - due[n - 1] >= x.delta)
        BY <2>2, <2>3, <3>3
      <4>5. PassedOn(f[n], e, d - due[n - 1], L \o <<a, b>>, TRUE)
        <5>1. PICK D : D = d - due[n - 1]
          OBVIOUS
        <5>2. /\ a = [event |-> e, delta |-> D] /\ b = [x EXCEPT !.delta = @ - D]
              /\ PassedOn(f[n - 1], e, D, L, FALSE) /\ ~(D >= x.delta)
          BY <5>1, <4>1, <4>3, <4>4, <3>1
        <5>3. PassedOn(PostStep(f[n - 1], x), e, D, L \o <<a, b>>, TRUE)
          BY <5>2, PostStepPuts
        <5> QED BY <5>1, <5>3, <2>3
      <4>6. PICK M : M = L \o <<a, b>>
        OBVIOUS
      <4>7. M \in Seq(Item) /\ Len(M) = n + 1 /\ M[n] = a /\ M[n + 1] = b
              /\ \A i \in 1 .. (n - 1) : M[i] = L[i]
        <5>1. <<a, b>> \in Seq(Item) /\ Len(<<a, b>>) = 2 /\ <<a, b>>[1] = a /\ <<a, b>>[2] = b
          BY <4>2
        <5>2. PICK w \in Seq(Item) : w = <<a, b>> /\ Len(w) = 2 /\ w[1] = a /\ w[2] = b
          BY <5>1
        <5>3. M = L \o w
          BY <4>6, <5>2
        <5>4. M \in Seq(Item) /\ Len(M) = (n - 1) + 2
          BY <5>2, <5>3, <3>1
        <5>5. M[(n - 1) + 1] = w[1] /\ M[(n - 1) + 2] = w[2] /\ \A i \in 1 .. (n - 1) : M[i] = L[i]
          <6>1. L \in Seq(Item) /\ Len(L) = n - 1 /\ n - 1 \in Nat
            BY <3>1, <2>3
          <6>2. \A i \in 1 .. (Len(L) + Len(w)) :
                  (L \o w)[i] = IF i <= Len(L) THEN L[i] ELSE w[i - Len(L)]
            BY <6>1, <5>2
          <6>3. \A i \in 1 .. (n + 1) : M[i] = IF i <= n - 1 THEN L[i] ELSE w[i - (n - 1)]
            BY <6>1, <6>2, <5>2, <5>3, <2>3
          <6> HIDE DEF T
          <6>4. /\ n \in 1 .. (n + 1) /\ ~(n <= n - 1) /\ n - (n - 1) = 1 /\ n + 1 \in 1 .. (n + 1)
                /\ ~(n + 1 <= n - 1) /\ (n + 1) - (n - 1) = 2
            BY <2>3
          <6>5. M[n] = w[1] /\ M[n + 1] = w[2]
            BY <6>3, <6>4
          <6>6. \A i \in 1 .. (n - 1) : i \in 1 .. (n + 1) /\ i <= n - 1
            BY <2>3
          <6>7. (n - 1) + 1 = n /\ (n - 1) + 2 = n + 1
            BY <2>3
          <6> QED BY <6>3, <6>5, <6>6, <6>7
        <5>6. (n - 1) + 1 = n /\ (n - 1) + 2 = n + 1
          BY <2>3
        <5> QED BY <5>2, <5>4, <5>5, <5>6
      <4>8. PutIn(M, n, list, due, e, d, n)
        BY <4>1, <4>2, <4>7, <3>1, <2>1, <2>3 DEF PutIn
      <4>9. After(f[n], n)
        <5>1. d - due[n - 1] \in Int /\ n \in 1 .. n
          BY <2>3
        <5> QED BY <5>1, <4>5, <4>6, <4>7, <4>8
      <4> HIDE DEF Before, After
      <4> QED BY <4>9, <2>3
    <3> QED BY <3>2, <3>3
  <2>5. CASE After(f[n - 1], n - 1)
    <3>1. PICK L \in Seq(Item), D \in Int, p \in 1 .. (n - 1) :
             /\ PassedOn(f[n - 1], e, D, L, TRUE)
             /\ PutIn(L, n - 1, list, due, e, d, p)
      BY <2>5
    <3>2. PassedOn(f[n], e, D, Append(L, x), TRUE)
      BY <2>3, <3>1, PostStepIs
    <3>3. PICK M : M = Append(L, x)
      OBVIOUS
    <3>4. /\ M \in Seq(Item) /\ Len(L) = n /\ Len(M) = n + 1 /\ M[n + 1] = x
          /\ \A i \in 1 .. n : M[i] = L[i]
      <4>1. L \in Seq(Item) /\ Len(L) = n /\ x \in Item
        BY <3>1, <2>3 DEF PutIn
      <4> QED BY <4>1, <3>3, <2>3
    <3>5. PutIn(M, n, list, due, e, d, p)
      <4>1. p \in Nat /\ 1 <= p /\ p <= n - 1 /\ p + 1 <= n
        BY <2>3
      <4>2. \A i \in (p + 2) .. (n + 1) : M[i] = list[i - 1]
        <5> TAKE i \in (p + 2) .. (n + 1)
        <5>1. CASE i = n + 1
          BY <5>1, <3>4, <2>1, <2>3
        <5>2. CASE i # n + 1
          <6>1. i \in 1 .. n /\ i \in (p + 2) .. ((n - 1) + 1)
            BY <5>2, <4>1, <2>3
          <6> QED BY <6>1, <3>1, <3>4 DEF PutIn
        <5> QED BY <5>1, <5>2
      <4>3. /\ p \in 1 .. n /\ p + 1 \in 1 .. n
            /\ \A i \in 1 .. (p - 1) : i \in 1 .. n
        BY <4>1, <2>3
      <4> QED BY <4>1, <4>2, <4>3, <3>1, <3>4 DEF PutIn
    <3>6. p \in 1 .. n
      BY <2>3
    <3>7. After(f[n], n)
      BY <3>2, <3>3, <3>4, <3>5, <3>6
    <3> HIDE DEF Before, After
    <3> QED BY <3>7, <2>3
  <2> HIDE DEF Before, After
  <2> QED BY <1>4, <2>4, <2>5
<1>5. N \in T
  <2> HIDE DEF T
  <2>1. \A n \in 0 .. N : n \in T
    BY <1>2, <1>3, <1>4, Climb
  <2> QED BY <2>1, <1>2
<1>6. CASE Before(f[N], N)
  <2>1. PICK L \in Seq(Item) :
           /\ PassedOn(f[N], e, d - due[N], L, FALSE)
           /\ due[N] <= d /\ Len(L) = N /\ \A i \in 1 .. N : L[i] = list[i]
    BY <1>6
  <2>2. PICK a : a = [event |-> e, delta |-> d - due[N]]
    OBVIOUS
  <2>3. Posted(list, e, d) = Append(L, a)
    BY <1>1, <2>1, <2>2 DEF PassedOn
  <2>4. due[N] \in Nat /\ N + 1 \in 1 .. (N + 1) /\ (N + 1) - 1 = N
    BY <1>2
  <2>5. a \in Item
    BY <2>1, <2>2, <2>4 DEF Item
  <2>6. PICK M : M = Append(L, a)
    OBVIOUS
  <2>7. M \in Seq(Item) /\ Len(M) = N + 1 /\ M[N + 1] = a /\ \A i \in 1 .. N : M[i] = list[i]
    BY <2>1, <2>5, <2>6, <1>2
  <2>8. PutIn(M, N, list, due, e, d, N + 1)
    BY <2>1, <2>2, <2>4, <2>7, <1>2 DEF PutIn
  <2> QED BY <2>3, <2>4, <2>6, <2>8
<1>7. CASE After(f[N], N)
  <2>1. PICK L \in Seq(Item), D \in Int, p \in 1 .. N :
           /\ PassedOn(f[N], e, D, L, TRUE)
           /\ PutIn(L, N, list, due, e, d, p)
    BY <1>7
  <2>2. Posted(list, e, d) = L
    BY <1>1, <2>1 DEF PassedOn
  <2>3. p \in 1 .. (N + 1)
    BY <1>2
  <2> QED BY <2>1, <2>2, <2>3
<1> HIDE DEF Before, After
<1> QED BY <1>5, <1>6, <1>7

\* The items that WithoutEvents takes out, and its step.
Goes(item, s, types) == item.event.state = s /\ item.event.type \in types

WithoutStep(r, item, s, types) ==
  LET delta == item.delta + r.carry
  IN IF Goes(item, s, types)
     THEN [r EXCEPT !.carry = Carried(delta)]
     ELSE [list |-> Append(r.list, [item EXCEPT !.delta = delta]), carry |-> 0]

WithoutStates == [list : Seq(Item), carry : Nat]

\* The list so far and the time carried over; and one step in its two cases.
Carrying(r, L, c) == r = [list |-> L, carry |-> c]

\* An item that goes leaves its delta to the next one; one that stays takes what was left.
LEMMA WithoutStepIs ==
  ASSUME NEW r, NEW L \in Seq(Item), NEW c \in Nat, Carrying(r, L, c),
         NEW x \in Item, NEW s, NEW types
  PROVE  /\ Goes(x, s, types) => Carrying(WithoutStep(r, x, s, types), L, x.delta + c)
         /\ ~Goes(x, s, types) =>
              Carrying(WithoutStep(r, x, s, types),
                       Append(L, [event |-> x.event, delta |-> x.delta + c]), 0)
<1>1. r = [list |-> L, carry |-> c] /\ r.list = L /\ r.carry = c
  BY DEF Carrying
<1>2. ASSUME Goes(x, s, types)
      PROVE  Carrying(WithoutStep(r, x, s, types), L, x.delta + c)
  <2>1. WithoutStep(r, x, s, types) = [r EXCEPT !.carry = x.delta + c]
    BY <1>1, <1>2 DEF WithoutStep, Carried
  <2> QED BY <2>1, <1>1 DEF Carrying
<1>3. ASSUME ~Goes(x, s, types)
      PROVE  Carrying(WithoutStep(r, x, s, types),
                      Append(L, [event |-> x.event, delta |-> x.delta + c]), 0)
  <2>1. WithoutStep(r, x, s, types)
          = [list |-> Append(r.list, [x EXCEPT !.delta = x.delta + c]), carry |-> 0]
    BY <1>1, <1>3 DEF WithoutStep
  <2>2. [x EXCEPT !.delta = x.delta + c] = [event |-> x.event, delta |-> x.delta + c]
    BY DEF Item
  <2>3. WithoutStep(r, x, s, types)
          = [list |-> Append(L, [event |-> x.event, delta |-> x.delta + c]), carry |-> 0]
    BY <2>1, <2>2, <1>1
  <2> QED BY <2>3 DEF Carrying
<1> QED BY <1>2, <1>3

\* Taking events out goes through the list from its start as well.
LEMMA WithoutRuns ==
  ASSUME NEW list \in Seq(Item), NEW s, NEW types
  PROVE  \E f : /\ Carrying(f[0], <<>>, 0)
                /\ \A n \in 1 .. Len(list) : f[n] = WithoutStep(f[n - 1], list[n], s, types)
                /\ WithoutEvents(list, s, types) = f[Len(list)].list
<1> DEFINE N == Len(list)
           V == WithoutStates
           base == [list |-> <<>>, carry |-> 0]
           h == [x \in V \X (1 .. N) |-> WithoutStep(x[1], list[x[2]], s, types)]
           Eq(it) == it = [S \in SUBSET DOMAIN list |->
                             IF S = {} THEN base
                             ELSE WithoutStep(it[S \ {Max(S)}], list[Max(S)], s, types)]
<1>1. /\ base \in V /\ N \in Nat /\ DOMAIN list = 1 .. N
      /\ \A i \in 1 .. N : list[i] \in Item
  BY DEF WithoutStates
<1>2. \A r \in V, i \in 1 .. N : WithoutStep(r, list[i], s, types) \in V
  <2> SUFFICES ASSUME NEW r \in V, NEW i \in 1 .. N
               PROVE  WithoutStep(r, list[i], s, types) \in V
    OBVIOUS
  <2>1. PICK x \in Item : x = list[i]
    BY <1>1
  <2>2. PICK L \in Seq(Item), c \in Nat : r = [list |-> L, carry |-> c]
    BY DEF WithoutStates
  <2>3. Carrying(r, L, c)
    BY <2>2 DEF Carrying
  <2>4. x.delta \in Nat /\ x.event \in Event
    BY DEF Item
  <2>5. x.delta + c \in Nat
    BY <2>4
  <2>6. CASE Goes(x, s, types)
    <3>1. Carrying(WithoutStep(r, x, s, types), L, x.delta + c)
      BY <2>3, <2>6, WithoutStepIs
    <3> QED BY <3>1, <2>1, <2>5 DEF Carrying, WithoutStates
  <2>7. CASE ~Goes(x, s, types)
    <3>1. PICK y \in Item : y = [event |-> x.event, delta |-> x.delta + c]
      BY <2>4, <2>5 DEF Item
    <3>2. Carrying(WithoutStep(r, x, s, types), Append(L, y), 0)
      BY <2>3, <2>7, <3>1, WithoutStepIs
    <3>3. Append(L, y) \in Seq(Item)
      BY <3>1
    <3>4. PICK M \in Seq(Item) : M = Append(L, y)
      BY <3>3
    <3>5. [list |-> M, carry |-> 0] \in WithoutStates
      BY DEF WithoutStates
    <3> QED BY <3>2, <3>4, <3>5, <2>1 DEF Carrying
  <2> QED BY <2>6, <2>7
<1>3. h \in [V \X (1 .. N) -> V]
  BY <1>2
<1>4. PICK w : w = (CHOOSE it : Eq(it))
  OBVIOUS
<1>5. WithoutEvents(list, s, types) = w[1 .. N].list
  <2>1. WithoutEvents(list, s, types) = (CHOOSE it : Eq(it))[DOMAIN list].list
    BY Zenon DEF WithoutEvents, WithoutStep, Goes, FoldLeft, MapThenFoldSet
  <2> QED BY <2>1, <1>1, <1>4
<1> HIDE DEF V, base, h
<1>6. PICK g \in [SUBSET (1 .. N) -> V] : Folding(g, N, base, h)
  BY <1>1, <1>3, FoldExists
<1>7. Eq(g)
  <2>1. ASSUME NEW S \in SUBSET (1 .. N)
        PROVE  g[S] = IF S = {} THEN base
                      ELSE WithoutStep(g[S \ {Max(S)}], list[Max(S)], s, types)
    <3>1. CASE S = {}
      BY <3>1, <1>6 DEF Folding
    <3>2. CASE S # {}
      <4>1. Max(S) \in 1 .. N /\ S \ {Max(S)} \in SUBSET (1 .. N)
        BY <3>2, <1>1, LastOf
      <4>2. g[S \ {Max(S)}] \in V
        BY <4>1, <1>6
      <4>3. h[<<g[S \ {Max(S)}], Max(S)>>] = WithoutStep(g[S \ {Max(S)}], list[Max(S)], s, types)
        BY <4>1, <4>2 DEF h
      <4> QED BY <3>2, <4>3, <1>6 DEF Folding
    <3> QED BY <3>1, <3>2
  <2> QED BY <2>1, <1>1, <1>6
<1>8. Eq(w)
  BY <1>4, <1>7
<1> DEFINE f == [n \in 0 .. N |-> w[1 .. n]]
<1>9. f[0] = base
  BY <1>1, <1>8
<1>10. ASSUME NEW n \in 1 .. N PROVE f[n] = WithoutStep(f[n - 1], list[n], s, types)
  <2>1. n \in Nat \ {0} /\ n \in 0 .. N /\ n - 1 \in 0 .. N /\ 1 .. n \in SUBSET (1 .. N)
    BY <1>1
  <2>2. w[1 .. n] = WithoutStep(w[1 .. (n - 1)], list[n], s, types)
    <3>1. PICK S \in SUBSET DOMAIN list : S = 1 .. n
      BY <2>1, <1>1
    <3>2. S # {} /\ Max(S) = n /\ S \ {n} = 1 .. (n - 1)
      BY <2>1, <3>1, Firsts
    <3>3. w[S] = WithoutStep(w[S \ {Max(S)}], list[Max(S)], s, types)
      BY <3>2, <1>8
    <3> QED BY <3>1, <3>2, <3>3
  <2> QED BY <2>1, <2>2
<1>11. N \in 0 .. N /\ f[N] = w[1 .. N]
  BY <1>1
<1>12. Carrying(f[0], <<>>, 0)
  BY <1>9 DEF base, Carrying
<1> HIDE DEF f
<1> QED BY <1>5, <1>10, <1>11, <1>12

\* new is what stays of the first n items of list: those at the places k, each due
\* when it was.
Prior(due, k, j) == IF j = 1 THEN 0 ELSE due[k[j - 1]]

Selected(new, m, n, list, due, k, s, types) ==
  /\ new \in Seq(Item) /\ Len(new) = m
  /\ k \in [1 .. m -> 1 .. n]
  /\ \A i, j \in 1 .. m : i < j => k[i] < k[j]
  /\ \A j \in 1 .. m :
       new[j] = [event |-> list[k[j]].event, delta |-> due[k[j]] - Prior(due, k, j)]
  /\ \A i \in 1 .. n : ~Goes(list[i], s, types) <=> \E j \in 1 .. m : k[j] = i

\* Taking events out keeps the others in their order, each due when it was.
LEMMA WithoutIs ==
  ASSUME NEW list \in Seq(Item), NEW due, Times(due, list), NEW s, NEW types
  PROVE  \E m \in 0 .. Len(list) : \E k :
           Selected(WithoutEvents(list, s, types), m, Len(list), list, due, k, s, types)
<1> DEFINE N == Len(list)
           C(m, k, n) == due[n] - Prior(due, k, m + 1)
           P(n, r) == \E L, k : \E m \in 0 .. n :
             /\ Selected(L, m, n, list, due, k, s, types)
             /\ C(m, k, n) \in Nat /\ Carrying(r, L, C(m, k, n))
<1>1. PICK f : /\ Carrying(f[0], <<>>, 0)
               /\ \A n \in 1 .. N : f[n] = WithoutStep(f[n - 1], list[n], s, types)
               /\ WithoutEvents(list, s, types) = f[N].list
  BY WithoutRuns
<1>2. /\ N \in Nat /\ due \in [0 .. N -> Nat] /\ due[0] = 0
      /\ \A n \in 1 .. N : due[n] = due[n - 1] + list[n].delta
      /\ \A n \in 1 .. N : list[n] \in Item /\ list[n].event \in Event /\ list[n].delta \in Nat
  BY TimesStep, ItemIs
<1> DEFINE U == {n \in 0 .. N : P(n, f[n])}
<1>3. 0 \in U
  <2>1. PICK L \in Seq(Item) : L = <<>> /\ Len(L) = 0
    <3>1. <<>> \in Seq(Item) /\ Len(<<>>) = 0
      OBVIOUS
    <3> QED BY <3>1
  <2> DEFINE k == [i \in 1 .. 0 |-> i]
  <2>2. k \in [1 .. 0 -> 1 .. 0] /\ 1 .. 0 = {}
    OBVIOUS
  <2> HIDE DEF k
  <2>3. Selected(L, 0, 0, list, due, k, s, types)
    BY <2>1, <2>2 DEF Selected
  <2>4. C(0, k, 0) = 0
    BY <1>2 DEF Prior
  <2>5. Carrying(f[0], L, C(0, k, 0)) /\ C(0, k, 0) \in Nat
    BY <2>1, <2>4, <1>1
  <2> HIDE DEF C
  <2>6. 0 \in 0 .. 0 /\ 0 \in 0 .. N
    BY <1>2
  <2>7. P(0, f[0])
    BY <2>3, <2>5, <2>6
  <2> HIDE DEF P
  <2> QED BY <2>6, <2>7
<1>4. ASSUME NEW n \in 1 .. N, n - 1 \in U PROVE n \in U
  <2>1. PICK x \in Item : x = list[n]
    BY <1>2
  <2>2. /\ n \in Nat /\ 1 <= n /\ n - 1 \in 0 .. N /\ n \in 0 .. N /\ n - 1 \in Nat
        /\ due[n - 1] \in Nat /\ due[n] \in Nat /\ due[n] = due[n - 1] + x.delta
        /\ x.delta \in Nat /\ x.event \in Event
        /\ f[n] = WithoutStep(f[n - 1], x, s, types)
    BY <1>1, <1>2, <2>1
  <2>3. PICK L, k : \E m \in 0 .. (n - 1) :
          /\ Selected(L, m, n - 1, list, due, k, s, types)
          /\ C(m, k, n - 1) \in Nat /\ Carrying(f[n - 1], L, C(m, k, n - 1))
    BY <1>4
  <2>4. PICK m \in 0 .. (n - 1) :
          /\ Selected(L, m, n - 1, list, due, k, s, types)
          /\ C(m, k, n - 1) \in Nat /\ Carrying(f[n - 1], L, C(m, k, n - 1))
    BY <2>3
  <2>5. PICK c \in Nat : c = C(m, k, n - 1)
    BY <2>4
  <2>6. /\ m \in Nat /\ L \in Seq(Item) /\ Len(L) = m /\ Carrying(f[n - 1], L, c)
        /\ k \in [1 .. m -> 1 .. (n - 1)]
        /\ \A i, j \in 1 .. m : i < j => k[i] < k[j]
        /\ \A j \in 1 .. m : L[j] = [event |-> list[k[j]].event,
                                     delta |-> due[k[j]] - Prior(due, k, j)]
        /\ \A i \in 1 .. (n - 1) : ~Goes(list[i], s, types) <=> \E j \in 1 .. m : k[j] = i
    BY <2>4, <2>5 DEF Selected
  <2>7. Prior(due, k, m + 1) \in Nat
    <3>1. CASE m = 0
      BY <3>1 DEF Prior
    <3>2. CASE m # 0
      <4>1. m \in 1 .. m /\ (m + 1) - 1 = m /\ m + 1 # 1
        BY <3>2, <2>6
      <4>2. k[m] \in 0 .. N
        BY <4>1, <2>6, <2>2
      <4>3. due[k[m]] \in Nat
        BY <4>2, <1>2
      <4> QED BY <4>1, <4>3 DEF Prior
    <3> QED BY <3>1, <3>2
  <2>8. /\ c = due[n - 1] - Prior(due, k, m + 1) /\ C(m, k, n) = x.delta + c
        /\ x.delta + c \in Nat
    BY <2>2, <2>5, <2>7
  <2> HIDE DEF C
  <2>9. CASE Goes(x, s, types)
    <3>1. Carrying(f[n], L, C(m, k, n))
      <4>1. Carrying(WithoutStep(f[n - 1], x, s, types), L, x.delta + c)
        BY <2>6, <2>9, WithoutStepIs
      <4> QED BY <4>1, <2>2, <2>8
    <3>2. Selected(L, m, n, list, due, k, s, types)
      <4>1. k \in [1 .. m -> 1 .. n]
        BY <2>2, <2>6
      <4>2. ASSUME NEW i \in 1 .. n
            PROVE  ~Goes(list[i], s, types) <=> \E j \in 1 .. m : k[j] = i
        <5>1. CASE i = n
          <6>1. \A j \in 1 .. m : k[j] # n
            BY <2>2, <2>6
          <6> QED BY <5>1, <6>1, <2>1, <2>9
        <5>2. CASE i # n
          <6>1. i \in 1 .. (n - 1)
            BY <5>2, <2>2
          <6> QED BY <6>1, <2>6
        <5> QED BY <5>1, <5>2
      <4> QED BY <4>1, <4>2, <2>6 DEF Selected
    <3>3. m \in 0 .. n /\ C(m, k, n) \in Nat
      BY <2>2, <2>6, <2>8
    <3>4. P(n, f[n])
      BY <3>1, <3>2, <3>3
    <3> HIDE DEF P
    <3> QED BY <3>4, <2>2
  <2>10. CASE ~Goes(x, s, types)
    <3>1. PICK y \in Item : y = [event |-> x.event, delta |-> x.delta + c]
      BY <2>2, <2>8 DEF Item
    <3>2. PICK M : M = Append(L, y)
      OBVIOUS
    <3>3. Carrying(f[n], M, 0)
      BY <3>1, <3>2, <2>2, <2>6, <2>10, WithoutStepIs
    <3>4. M \in Seq(Item) /\ Len(M) = m + 1 /\ M[m + 1] = y /\ \A j \in 1 .. m : M[j] = L[j]
      BY <3>1, <3>2, <2>6
    <3> DEFINE k2 == [j \in 1 .. (m + 1) |-> IF j = m + 1 THEN n ELSE k[j]]
    <3>5. /\ k2 \in [1 .. (m + 1) -> 1 .. n] /\ k2[m + 1] = n
          /\ \A j \in 1 .. m : k2[j] = k[j]
      BY <2>2, <2>6
    <3> HIDE DEF k2
    <3>6. Selected(M, m + 1, n, list, due, k2, s, types)
      <4>1. ASSUME NEW i \in 1 .. (m + 1), NEW j \in 1 .. (m + 1), i < j PROVE k2[i] < k2[j]
        <5>1. i \in 1 .. m /\ k2[i] = k[i]
          BY <4>1, <2>6, <3>5
        <5>2. k[i] \in Nat /\ k[i] < n
          BY <5>1, <2>2, <2>6
        <5>3. CASE j = m + 1
          BY <5>1, <5>2, <5>3, <3>5
        <5>4. CASE j # m + 1
          <6>1. j \in 1 .. m
            BY <5>4, <2>6
          <6> QED BY <6>1, <5>1, <4>1, <2>6, <3>5
        <5> QED BY <5>3, <5>4
      <4>2. ASSUME NEW j \in 1 .. (m + 1)
            PROVE  M[j] = [event |-> list[k2[j]].event, delta |-> due[k2[j]] - Prior(due, k2, j)]
        <5>1. Prior(due, k2, j) = Prior(due, k, j)
          <6>1. j # 1 => j - 1 \in 1 .. m
            BY <2>6
          <6> QED BY <6>1, <3>5 DEF Prior
        <5>2. CASE j = m + 1
          <6>1. M[j] = y /\ k2[j] = n
            BY <5>2, <3>4, <3>5
          <6>2. due[n] - Prior(due, k, j) = x.delta + c
            BY <5>2, <2>2, <2>7, <2>8
          <6> QED BY <6>1, <6>2, <5>1, <3>1, <2>1
        <5>3. CASE j # m + 1
          <6>1. j \in 1 .. m
            BY <5>3, <2>6
          <6>2. M[j] = L[j] /\ k2[j] = k[j]
            BY <6>1, <3>4, <3>5
          <6> QED BY <6>1, <6>2, <5>1, <2>6
        <5> QED BY <5>2, <5>3
      <4>3. ASSUME NEW i \in 1 .. n
            PROVE  ~Goes(list[i], s, types) <=> \E j \in 1 .. (m + 1) : k2[j] = i
        <5>1. CASE i = n
          <6>1. m + 1 \in 1 .. (m + 1)
            BY <2>6
          <6> QED BY <5>1, <6>1, <3>5, <2>1, <2>10
        <5>2. CASE i # n
          <6>1. i \in 1 .. (n - 1)
            BY <5>2, <2>2
          <6>2. \A j \in 1 .. (m + 1) : k2[j] = i => j \in 1 .. m
            BY <5>2, <2>6, <3>5
          <6>3. \A j \in 1 .. m : j \in 1 .. (m + 1)
            BY <2>6
          <6>4. (\E j \in 1 .. (m + 1) : k2[j] = i) <=> \E j \in 1 .. m : k[j] = i
            BY <6>2, <6>3, <3>5
          <6> QED BY <6>1, <6>4, <2>6
        <5> QED BY <5>1, <5>2
      <4> QED BY <4>1, <4>2, <4>3, <3>4, <3>5 DEF Selected
    <3>7. C(m + 1, k2, n) = 0
      <4>1. (m + 1) + 1 # 1 /\ ((m + 1) + 1) - 1 = m + 1
        BY <2>6
      <4>2. Prior(due, k2, (m + 1) + 1) = due[n]
        BY <4>1, <3>5 DEF Prior
      <4> QED BY <4>2, <2>2 DEF C
    <3>8. m + 1 \in 0 .. n
      BY <2>2, <2>6
    <3>9. P(n, f[n])
      BY <3>3, <3>6, <3>7, <3>8
    <3> HIDE DEF P
    <3> QED BY <3>9, <2>2
  <2> QED BY <2>9, <2>10
<1> HIDE DEF P
<1>5. P(N, f[N])
  <2> HIDE DEF U
  <2>1. \A n \in 0 .. N : n \in U
    BY <1>2, <1>3, <1>4, Climb
  <2>2. N \in U
    BY <2>1, <1>2
  <2> QED BY <2>2 DEF U
<1>6. PICK L, k : \E m \in 0 .. N :
        Selected(L, m, N, list, due, k, s, types) /\ Carrying(f[N], L, C(m, k, N))
  <2> HIDE DEF C
  <2> QED BY <1>5 DEF P
<1>7. WithoutEvents(list, s, types) = L
  BY <1>1, <1>6 DEF Carrying
<1> QED BY <1>6, <1>7

-------------------------------------------------------------------------------
(* What the audio manager has to do.                                       *)

GoodEvent == {Heartbeat} \cup [type : Type \ {"API"}, state : State]
DecayOnly == {"DECAY"}
ForAll == {"DEACTIVATE", "RELEASE", "UNKNOWN_12"}
DisposeOf(s) == [op |-> "dispose", state |-> s]

\* What the last event leads on to, and the forms that todo can have.
Rest(r) ==
  \/ r = <<ToGetNext>>
  \/ \E type \in ForAll, s \in State \cup {NULL} : r = Cons(ToGoOn(type, s), <<ToGetNext>>)

PostPlan(t) ==
  \E e \in GoodEvent, d \in Nat : \E r : Rest(r) /\ t = Cons(ToPost(e, d), r)
PostsPlan(t) ==
  \E e \in GoodEvent, d \in Nat : \E r : PostPlan(r) /\ t = Cons(ToPost(e, d), r)
RemovePlan(t, s) ==
  \E r : Rest(r) /\ t = Cons(ToRemove(s, Type), r)
DisposePlan(t, s) ==
  \E r : RemovePlan(r, s) /\ t = Cons(DisposeOf(s), r)
CutPlan(t, s) ==
  \E r : /\ t = Cons(ToRemove(s, DecayOnly), r)
         /\ DisposePlan(r, s) \/ \E q : Rest(q) /\ r = Cons(ToPost(Ev("END", s), Release), q)

Plan(t) ==
  \/ t = <<>> \/ Rest(t) \/ PostPlan(t) \/ PostsPlan(t)
  \/ \E s \in State : RemovePlan(t, s) \/ DisposePlan(t, s) \/ CutPlan(t, s)

\* What such a list has in it.
Posts(t) == {t[i].event : i \in {j \in DOMAIN t : t[j].op = "post"}}
Disposals(t) == {t[i].state : i \in {j \in DOMAIN t : t[j].op = "dispose"}}
Removals(t) == {t[i].state : i \in {j \in DOMAIN t : t[j].op = "remove" /\ t[j].types = Type}}
Cutoffs(t) == {t[i].state : i \in {j \in DOMAIN t : t[j].op = "remove" /\ t[j].types = DecayOnly}}

\* Views of one list: which events it posts, which states it disposes of, removes the
\* events of, and cuts off.
Views(t, p, d, r, c) == Posts(t) = p /\ Disposals(t) = d /\ Removals(t) = r /\ Cutoffs(t) = c

\* The removal of all the events of a sound is not that of its decay.
LEMMA TypesDiffer == Type # DecayOnly
<1>1. "PLAY" \in Type
  BY DEF Type
<1> QED BY <1>1 DEF DecayOnly

\* A list with one more operation in front.
LEMMA ConsIs ==
  ASSUME NEW S, NEW o \in S, NEW r \in Seq(S)
  PROVE  /\ Cons(o, r) \in Seq(S) /\ Cons(o, r) # <<>> /\ Head(Cons(o, r)) = o
         /\ Tail(Cons(o, r)) = r
         /\ Len(Cons(o, r)) = Len(r) + 1 /\ Cons(o, r)[1] = o
         /\ \A i \in 1 .. Len(r) : Cons(o, r)[i + 1] = r[i]
<1>1. PICK t : t = Cons(o, r)
  OBVIOUS
<1>2. t = <<o>> \o r
  BY <1>1 DEF Cons
<1>3. <<o>> \in Seq(S) /\ Len(<<o>>) = 1
  OBVIOUS
<1>4. t \in Seq(S) /\ Len(t) = Len(r) + 1 /\ Len(r) \in Nat
  BY <1>2, <1>3
<1>5. t[1] = o /\ \A i \in 1 .. Len(r) : t[i + 1] = r[i]
  BY <1>2
<1>6. t # <<>> /\ Head(t) = o
  BY <1>4, <1>5
<1>7. Tail(t) = r
  <2>1. Tail(t) \in Seq(S) /\ Len(Tail(t)) = Len(r)
    BY <1>4, <1>6
  <2>2. \A i \in 1 .. Len(r) : Tail(t)[i] = t[i + 1]
    BY <1>4, <1>6
  <2>3. \A i \in 1 .. Len(r) : Tail(t)[i] = r[i]
    BY <2>2, <1>5
  <2> QED BY <2>1, <2>3
<1> QED BY <1>1, <1>4, <1>5, <1>6, <1>7

\* What there is to do with an operation ahead of the others.
LEMMA ConsViews ==
  ASSUME NEW S, NEW o \in S, NEW r \in Seq(S)
  PROVE  /\ Posts(Cons(o, r)) = {x \in {o.event} : o.op = "post"} \cup Posts(r)
         /\ Disposals(Cons(o, r)) = {x \in {o.state} : o.op = "dispose"} \cup Disposals(r)
         /\ Removals(Cons(o, r))
              = {x \in {o.state} : o.op = "remove" /\ o.types = Type} \cup Removals(r)
         /\ Cutoffs(Cons(o, r))
              = {x \in {o.state} : o.op = "remove" /\ o.types = DecayOnly} \cup Cutoffs(r)
<1>1. PICK t \in Seq(S) : t = Cons(o, r)
  BY ConsIs
<1>2. PICK n \in Nat : n = Len(r)
  OBVIOUS
<1>3. /\ DOMAIN r = 1 .. n /\ DOMAIN t = 1 .. (n + 1) /\ t[1] = o
      /\ \A i \in 1 .. n : t[i + 1] = r[i]
  <2>1. Len(t) = Len(r) + 1 /\ t[1] = o /\ \A i \in 1 .. Len(r) : t[i + 1] = r[i]
    <3>1. /\ Len(Cons(o, r)) = Len(r) + 1 /\ Cons(o, r)[1] = o
          /\ \A i \in 1 .. Len(r) : Cons(o, r)[i + 1] = r[i]
      BY ConsIs
    <3> QED BY <3>1, <1>1
  <2>2. DOMAIN r = 1 .. Len(r) /\ DOMAIN t = 1 .. Len(t)
    OBVIOUS
  <2> QED BY <2>1, <2>2, <1>2
<1>4. /\ 1 \in DOMAIN t
      /\ \A i \in DOMAIN r : i + 1 \in DOMAIN t /\ t[i + 1] = r[i]
      /\ \A i \in DOMAIN t : i = 1 \/ \E j \in DOMAIN r : i = j + 1
  <2>1. ASSUME NEW i \in 1 .. (n + 1), i # 1 PROVE \E j \in 1 .. n : i = j + 1
    <3>1. i - 1 \in 1 .. n /\ i = (i - 1) + 1
      BY <1>2, <2>1
    <3> QED BY <3>1
  <2>2. \A i \in 1 .. n : i + 1 \in 1 .. (n + 1)
    BY <1>2
  <2>3. 1 \in 1 .. (n + 1)
    BY <1>2
  <2> QED BY <2>1, <2>2, <2>3, <1>3
<1>5. Posts(t) = {x \in {o.event} : o.op = "post"} \cup Posts(r)
  <2>1. ASSUME NEW x \in Posts(t) PROVE x \in {y \in {o.event} : o.op = "post"} \cup Posts(r)
    <3>1. PICK i \in DOMAIN t : t[i].op = "post" /\ x = t[i].event
      BY <2>1 DEF Posts
    <3> QED BY <3>1, <1>3, <1>4 DEF Posts
  <2>2. ASSUME NEW x \in Posts(r) PROVE x \in Posts(t)
    <3>1. PICK i \in DOMAIN r : r[i].op = "post" /\ x = r[i].event
      BY <2>2 DEF Posts
    <3> QED BY <3>1, <1>4 DEF Posts
  <2>3. o.op = "post" => o.event \in Posts(t)
    BY <1>3, <1>4 DEF Posts
  <2> QED BY <2>1, <2>2, <2>3
<1>6. Disposals(t) = {x \in {o.state} : o.op = "dispose"} \cup Disposals(r)
  <2>1. ASSUME NEW x \in Disposals(t)
        PROVE  x \in {y \in {o.state} : o.op = "dispose"} \cup Disposals(r)
    <3>1. PICK i \in DOMAIN t : t[i].op = "dispose" /\ x = t[i].state
      BY <2>1 DEF Disposals
    <3> QED BY <3>1, <1>3, <1>4 DEF Disposals
  <2>2. ASSUME NEW x \in Disposals(r) PROVE x \in Disposals(t)
    <3>1. PICK i \in DOMAIN r : r[i].op = "dispose" /\ x = r[i].state
      BY <2>2 DEF Disposals
    <3> QED BY <3>1, <1>4 DEF Disposals
  <2>3. o.op = "dispose" => o.state \in Disposals(t)
    BY <1>3, <1>4 DEF Disposals
  <2> QED BY <2>1, <2>2, <2>3
<1>7. Removals(t) = {x \in {o.state} : o.op = "remove" /\ o.types = Type} \cup Removals(r)
  <2>1. ASSUME NEW x \in Removals(t)
        PROVE  x \in {y \in {o.state} : o.op = "remove" /\ o.types = Type} \cup Removals(r)
    <3>1. PICK i \in DOMAIN t : t[i].op = "remove" /\ t[i].types = Type /\ x = t[i].state
      BY <2>1 DEF Removals
    <3> QED BY <3>1, <1>3, <1>4 DEF Removals
  <2>2. ASSUME NEW x \in Removals(r) PROVE x \in Removals(t)
    <3>1. PICK i \in DOMAIN r : r[i].op = "remove" /\ r[i].types = Type /\ x = r[i].state
      BY <2>2 DEF Removals
    <3> QED BY <3>1, <1>4 DEF Removals
  <2>3. o.op = "remove" /\ o.types = Type => o.state \in Removals(t)
    BY <1>3, <1>4 DEF Removals
  <2> QED BY <2>1, <2>2, <2>3
<1>8. Cutoffs(t) = {x \in {o.state} : o.op = "remove" /\ o.types = DecayOnly} \cup Cutoffs(r)
  <2>1. ASSUME NEW x \in Cutoffs(t)
        PROVE  x \in {y \in {o.state} : o.op = "remove" /\ o.types = DecayOnly} \cup Cutoffs(r)
    <3>1. PICK i \in DOMAIN t : t[i].op = "remove" /\ t[i].types = DecayOnly /\ x = t[i].state
      BY <2>1 DEF Cutoffs
    <3> QED BY <3>1, <1>3, <1>4 DEF Cutoffs
  <2>2. ASSUME NEW x \in Cutoffs(r) PROVE x \in Cutoffs(t)
    <3>1. PICK i \in DOMAIN r : r[i].op = "remove" /\ r[i].types = DecayOnly /\ x = r[i].state
      BY <2>2 DEF Cutoffs
    <3> QED BY <3>1, <1>4 DEF Cutoffs
  <2>3. o.op = "remove" /\ o.types = DecayOnly => o.state \in Cutoffs(t)
    BY <1>3, <1>4 DEF Cutoffs
  <2> QED BY <2>1, <2>2, <2>3
<1> QED BY <1>1, <1>5, <1>6, <1>7, <1>8

\* The same for each kind of operation.
LEMMA ConsPost ==
  ASSUME NEW S, NEW o \in S, NEW r \in Seq(S), o.op = "post"
  PROVE  /\ Posts(Cons(o, r)) = {o.event} \cup Posts(r)
         /\ Disposals(Cons(o, r)) = Disposals(r) /\ Removals(Cons(o, r)) = Removals(r)
         /\ Cutoffs(Cons(o, r)) = Cutoffs(r)
<1>1. o.op # "dispose" /\ o.op # "remove"
  OBVIOUS
<1>2. /\ Posts(Cons(o, r)) = {x \in {o.event} : o.op = "post"} \cup Posts(r)
      /\ Disposals(Cons(o, r)) = {x \in {o.state} : o.op = "dispose"} \cup Disposals(r)
      /\ Removals(Cons(o, r))
           = {x \in {o.state} : o.op = "remove" /\ o.types = Type} \cup Removals(r)
      /\ Cutoffs(Cons(o, r))
           = {x \in {o.state} : o.op = "remove" /\ o.types = DecayOnly} \cup Cutoffs(r)
  BY ConsViews
<1> QED BY <1>1, <1>2

\* The same for a disposal,
LEMMA ConsDispose ==
  ASSUME NEW S, NEW o \in S, NEW r \in Seq(S), o.op = "dispose"
  PROVE  /\ Posts(Cons(o, r)) = Posts(r)
         /\ Disposals(Cons(o, r)) = {o.state} \cup Disposals(r)
         /\ Removals(Cons(o, r)) = Removals(r) /\ Cutoffs(Cons(o, r)) = Cutoffs(r)
<1>1. o.op # "post" /\ o.op # "remove"
  OBVIOUS
<1>2. /\ Posts(Cons(o, r)) = {x \in {o.event} : o.op = "post"} \cup Posts(r)
      /\ Disposals(Cons(o, r)) = {x \in {o.state} : o.op = "dispose"} \cup Disposals(r)
      /\ Removals(Cons(o, r))
           = {x \in {o.state} : o.op = "remove" /\ o.types = Type} \cup Removals(r)
      /\ Cutoffs(Cons(o, r))
           = {x \in {o.state} : o.op = "remove" /\ o.types = DecayOnly} \cup Cutoffs(r)
  BY ConsViews
<1> QED BY <1>1, <1>2

\* for a removal,
LEMMA ConsRemove ==
  ASSUME NEW S, NEW o \in S, NEW r \in Seq(S), o.op = "remove"
  PROVE  /\ Posts(Cons(o, r)) = Posts(r) /\ Disposals(Cons(o, r)) = Disposals(r)
         /\ o.types = Type =>
              /\ Removals(Cons(o, r)) = {o.state} \cup Removals(r)
              /\ Cutoffs(Cons(o, r)) = Cutoffs(r)
         /\ o.types = DecayOnly =>
              /\ Removals(Cons(o, r)) = Removals(r)
              /\ Cutoffs(Cons(o, r)) = {o.state} \cup Cutoffs(r)
<1>1. o.op # "post" /\ o.op # "dispose" /\ Type # DecayOnly
  BY TypesDiffer
<1>2. /\ o.types = Type => o.types # DecayOnly
      /\ o.types = DecayOnly => o.types # Type
  BY <1>1
<1>3. /\ Posts(Cons(o, r)) = {x \in {o.event} : o.op = "post"} \cup Posts(r)
      /\ Disposals(Cons(o, r)) = {x \in {o.state} : o.op = "dispose"} \cup Disposals(r)
      /\ Removals(Cons(o, r))
           = {x \in {o.state} : o.op = "remove" /\ o.types = Type} \cup Removals(r)
      /\ Cutoffs(Cons(o, r))
           = {x \in {o.state} : o.op = "remove" /\ o.types = DecayOnly} \cup Cutoffs(r)
  BY ConsViews
<1> QED BY <1>1, <1>2, <1>3

\* and for what is neither of these nor a post.
LEMMA ConsOther ==
  ASSUME NEW S, NEW o \in S, NEW r \in Seq(S),
         o.op # "post", o.op # "dispose", o.op # "remove"
  PROVE  /\ Posts(Cons(o, r)) = Posts(r) /\ Disposals(Cons(o, r)) = Disposals(r)
         /\ Removals(Cons(o, r)) = Removals(r) /\ Cutoffs(Cons(o, r)) = Cutoffs(r)
<1>1. /\ Posts(Cons(o, r)) = {x \in {o.event} : o.op = "post"} \cup Posts(r)
      /\ Disposals(Cons(o, r)) = {x \in {o.state} : o.op = "dispose"} \cup Disposals(r)
      /\ Removals(Cons(o, r))
           = {x \in {o.state} : o.op = "remove" /\ o.types = Type} \cup Removals(r)
      /\ Cutoffs(Cons(o, r))
           = {x \in {o.state} : o.op = "remove" /\ o.types = DecayOnly} \cup Cutoffs(r)
  BY ConsViews
<1> QED BY <1>1

Op ==
  [op : {"post"}, event : GoodEvent, delay : Nat]
    \cup [op : {"remove"}, state : State, types : SUBSET Type]
    \cup [op : {"dispose"}, state : State]
    \cup [op : {"go on"}, event : [type : ForAll, state : State \cup {NULL}]]
    \cup [op : {"next"}]

\* The list after a first operation o.
Ahead(t, o, r) ==
  t \in Seq(Op) /\ t # <<>> /\ Head(t) = o /\ Tail(t) = r /\ r \in Seq(Op) /\ t = Cons(o, r)

\* A list of operations that begins with a post,
LEMMA PostFirst ==
  ASSUME NEW e \in GoodEvent, NEW d \in Nat, NEW r \in Seq(Op),
         NEW p, NEW di, NEW re, NEW cu, Views(r, p, di, re, cu)
  PROVE  /\ Ahead(Cons(ToPost(e, d), r), ToPost(e, d), r)
         /\ Views(Cons(ToPost(e, d), r), {e} \cup p, di, re, cu)
<1>1. PICK o : o = ToPost(e, d) /\ o.op = "post" /\ o.event = e
  <2>1. ToPost(e, d).op = "post" /\ ToPost(e, d).event = e
    BY DEF ToPost
  <2> QED BY <2>1
<1>2. o \in Op
  BY <1>1 DEF ToPost, Op
<1>3. Ahead(Cons(o, r), o, r)
  BY <1>2, ConsIs DEF Ahead
<1>4. Views(Cons(o, r), {e} \cup p, di, re, cu)
  BY <1>1, <1>2, ConsPost DEF Views
<1> QED BY <1>1, <1>3, <1>4

\* with a disposal,
LEMMA DisposeFirst ==
  ASSUME NEW s \in State, NEW r \in Seq(Op),
         NEW p, NEW di, NEW re, NEW cu, Views(r, p, di, re, cu)
  PROVE  /\ Ahead(Cons(DisposeOf(s), r), DisposeOf(s), r)
         /\ Views(Cons(DisposeOf(s), r), p, {s} \cup di, re, cu)
<1>1. PICK o : o = DisposeOf(s) /\ o.op = "dispose" /\ o.state = s
  <2>1. DisposeOf(s).op = "dispose" /\ DisposeOf(s).state = s
    BY DEF DisposeOf
  <2> QED BY <2>1
<1>2. o \in Op
  BY <1>1 DEF DisposeOf, Op
<1>3. Ahead(Cons(o, r), o, r)
  BY <1>2, ConsIs DEF Ahead
<1>4. Views(Cons(o, r), p, {s} \cup di, re, cu)
  BY <1>1, <1>2, ConsDispose DEF Views
<1> QED BY <1>1, <1>3, <1>4

\* with a removal of all events,
LEMMA RemovalFirst ==
  ASSUME NEW s \in State, NEW r \in Seq(Op),
         NEW p, NEW di, NEW re, NEW cu, Views(r, p, di, re, cu)
  PROVE  /\ Ahead(Cons(ToRemove(s, Type), r), ToRemove(s, Type), r)
         /\ Views(Cons(ToRemove(s, Type), r), p, di, {s} \cup re, cu)
<1>1. PICK o : o = ToRemove(s, Type) /\ o.op = "remove" /\ o.state = s /\ o.types = Type
  <2>1. /\ ToRemove(s, Type).op = "remove" /\ ToRemove(s, Type).state = s
        /\ ToRemove(s, Type).types = Type
    BY DEF ToRemove
  <2> QED BY <2>1
<1>2. o \in Op
  BY <1>1 DEF ToRemove, Op
<1>3. Ahead(Cons(o, r), o, r)
  BY <1>2, ConsIs DEF Ahead
<1>4. Views(Cons(o, r), p, di, {s} \cup re, cu)
  <2>1. Type # DecayOnly
    BY TypesDiffer
  <2> QED BY <2>1, <1>1, <1>2, ConsRemove DEF Views
<1> QED BY <1>1, <1>3, <1>4

\* and with a removal of the decay event.
LEMMA CutFirst ==
  ASSUME NEW s \in State, NEW r \in Seq(Op),
         NEW p, NEW di, NEW re, NEW cu, Views(r, p, di, re, cu)
  PROVE  /\ Ahead(Cons(ToRemove(s, DecayOnly), r), ToRemove(s, DecayOnly), r)
         /\ Views(Cons(ToRemove(s, DecayOnly), r), p, di, re, {s} \cup cu)
<1>1. PICK o : o = ToRemove(s, DecayOnly) /\ o.op = "remove" /\ o.state = s /\ o.types = DecayOnly
  <2>1. /\ ToRemove(s, DecayOnly).op = "remove" /\ ToRemove(s, DecayOnly).state = s
        /\ ToRemove(s, DecayOnly).types = DecayOnly
    BY DEF ToRemove
  <2> QED BY <2>1
<1>2. o \in Op
  BY <1>1 DEF ToRemove, Op, Type, DecayOnly
<1>3. Ahead(Cons(o, r), o, r)
  BY <1>2, ConsIs DEF Ahead
<1>4. Views(Cons(o, r), p, di, re, {s} \cup cu)
  <2>1. Type # DecayOnly
    BY TypesDiffer
  <2> QED BY <2>1, <1>1, <1>2, ConsRemove DEF Views
<1> QED BY <1>1, <1>3, <1>4

\* Nothing to do is nothing to post, to dispose of or to remove.
LEMMA NothingToDo ==
  <<>> \in Seq(Op) /\ Views(<<>>, {}, {}, {}, {})
<1>1. PICK t \in Seq(Op) : t = <<>> /\ DOMAIN t = {}
  <2>1. <<>> \in Seq(Op) /\ DOMAIN <<>> = {}
    OBVIOUS
  <2> QED BY <2>1
<1>2. Views(t, {}, {}, {}, {})
  BY <1>1 DEF Views, Posts, Disposals, Removals, Cutoffs
<1> QED BY <1>1, <1>2

\* What follows the operations for a sound: the other parts, or the next event.
LEMMA RestIs ==
  ASSUME NEW r, Rest(r)
  PROVE  /\ r \in Seq(Op) /\ r # <<>> /\ Head(r).op \in {"go on", "next"}
         /\ Views(r, {}, {}, {}, {})
         /\ r = <<ToGetNext>> => Head(r).op = "next"
<1>0. <<>> \in Seq(Op) /\ Views(<<>>, {}, {}, {}, {})
  BY NothingToDo
<1>1. PICK n : n = ToGetNext /\ n.op = "next"
  <2>1. ToGetNext.op = "next"
    BY DEF ToGetNext
  <2> QED BY <2>1
<1>2. n \in Op
  BY <1>1 DEF ToGetNext, Op
<1>3. PICK q : q = <<n>>
  OBVIOUS
<1>4. q = Cons(n, <<>>)
  BY <1>2, <1>3 DEF Cons
<1>5. q \in Seq(Op) /\ q # <<>> /\ Head(q) = n
  BY <1>0, <1>2, <1>4, ConsIs
<1>6. Views(q, {}, {}, {}, {})
  BY <1>0, <1>1, <1>2, <1>4, ConsOther DEF Views
<1>7. CASE r = <<ToGetNext>>
  BY <1>1, <1>3, <1>5, <1>6, <1>7
<1>8. ASSUME NEW type \in ForAll, NEW s \in State \cup {NULL},
             r = Cons(ToGoOn(type, s), <<ToGetNext>>)
      PROVE  /\ r \in Seq(Op) /\ r # <<>> /\ Head(r).op \in {"go on", "next"}
             /\ Views(r, {}, {}, {}, {})
             /\ r = <<ToGetNext>> => Head(r).op = "next"
  <2>1. PICK o : o = ToGoOn(type, s) /\ o.op = "go on"
    <3>1. ToGoOn(type, s).op = "go on"
      BY DEF ToGoOn
    <3> QED BY <3>1
  <2>2. o \in Op
    BY <2>1 DEF ToGoOn, Op, Ev
  <2>3. r = Cons(o, q)
    BY <1>1, <1>3, <1>8, <2>1
  <2>4. r \in Seq(Op) /\ r # <<>> /\ Head(r) = o
    <3>1. Cons(o, q) \in Seq(Op) /\ Cons(o, q) # <<>> /\ Head(Cons(o, q)) = o
      BY <1>5, <2>2, ConsIs
    <3> QED BY <2>3, <3>1
  <2>5. Views(r, {}, {}, {}, {})
    <3>1. /\ Posts(Cons(o, q)) = Posts(q) /\ Disposals(Cons(o, q)) = Disposals(q)
          /\ Removals(Cons(o, q)) = Removals(q) /\ Cutoffs(Cons(o, q)) = Cutoffs(q)
      BY <1>5, <2>1, <2>2, ConsOther
    <3> QED BY <3>1, <1>6, <2>3 DEF Views
  <2>6. ASSUME r = <<ToGetNext>> PROVE Head(r).op = "next"
    BY <1>1, <1>3, <1>5, <2>6
  <2> QED BY <2>1, <2>4, <2>5, <2>6
<1> QED BY <1>7, <1>8 DEF Rest

\* What each form of the list starts with, and what is in it.
LEMMA PostPlanIs ==
  ASSUME NEW t, PostPlan(t)
  PROVE  \E e \in GoodEvent, d \in Nat : \E r :
           Rest(r) /\ Ahead(t, ToPost(e, d), r) /\ Views(t, {e}, {}, {}, {})
<1>1. PICK e \in GoodEvent, d \in Nat : \E r : Rest(r) /\ t = Cons(ToPost(e, d), r)
  BY DEF PostPlan
<1>2. PICK r : Rest(r) /\ t = Cons(ToPost(e, d), r)
  BY <1>1
<1>3. r \in Seq(Op) /\ Views(r, {}, {}, {}, {})
  BY <1>2, RestIs
<1>4. Ahead(t, ToPost(e, d), r) /\ Views(t, {e} \cup {}, {}, {}, {})
  BY <1>2, <1>3, PostFirst
<1>5. {e} \cup {} = {e}
  OBVIOUS
<1> QED BY <1>2, <1>4, <1>5

\* A plan that begins with a post: the post, and what is left of the plan.
LEMMA PostsPlanIs ==
  ASSUME NEW t, PostsPlan(t)
  PROVE  \E e \in GoodEvent, d \in Nat, p \in SUBSET GoodEvent : \E r :
           /\ PostPlan(r) /\ Ahead(t, ToPost(e, d), r)
           /\ Views(r, p, {}, {}, {}) /\ Views(t, {e} \cup p, {}, {}, {})
<1>1. PICK e \in GoodEvent, d \in Nat : \E r : PostPlan(r) /\ t = Cons(ToPost(e, d), r)
  BY DEF PostsPlan
<1>2. PICK r : PostPlan(r) /\ t = Cons(ToPost(e, d), r)
  BY <1>1
<1>3. PICK f \in GoodEvent : r \in Seq(Op) /\ Views(r, {f}, {}, {}, {})
  BY <1>2, PostPlanIs DEF Ahead
<1>4. PICK p \in SUBSET GoodEvent : p = {f}
  OBVIOUS
<1>5. Ahead(t, ToPost(e, d), r) /\ Views(t, {e} \cup p, {}, {}, {})
  BY <1>2, <1>3, <1>4, PostFirst
<1> QED BY <1>2, <1>3, <1>4, <1>5

\* The same for a removal of all events,
LEMMA RemovePlanIs ==
  ASSUME NEW s \in State, NEW t, RemovePlan(t, s)
  PROVE  \E r : /\ Rest(r) /\ Ahead(t, ToRemove(s, Type), r)
                /\ Views(t, {}, {}, {s}, {})
<1>1. PICK r : Rest(r) /\ t = Cons(ToRemove(s, Type), r)
  BY DEF RemovePlan
<1>2. r \in Seq(Op) /\ Views(r, {}, {}, {}, {})
  BY <1>1, RestIs
<1>3. Ahead(t, ToRemove(s, Type), r) /\ Views(t, {}, {}, {s} \cup {}, {})
  BY <1>1, <1>2, RemovalFirst
<1>4. {s} \cup {} = {s}
  OBVIOUS
<1> QED BY <1>1, <1>3, <1>4

\* for a disposal,
LEMMA DisposePlanIs ==
  ASSUME NEW s \in State, NEW t, DisposePlan(t, s)
  PROVE  \E r : /\ RemovePlan(r, s) /\ Ahead(t, DisposeOf(s), r)
                /\ Views(r, {}, {}, {s}, {}) /\ Views(t, {}, {s}, {s}, {})
<1>1. PICK r : RemovePlan(r, s) /\ t = Cons(DisposeOf(s), r)
  BY DEF DisposePlan
<1>2. r \in Seq(Op) /\ Views(r, {}, {}, {s}, {})
  BY <1>1, RemovePlanIs DEF Ahead
<1>3. Ahead(t, DisposeOf(s), r) /\ Views(t, {}, {s} \cup {}, {s}, {})
  BY <1>1, <1>2, DisposeFirst
<1>4. {s} \cup {} = {s}
  OBVIOUS
<1> QED BY <1>1, <1>2, <1>3, <1>4

\* and for the removal of the decay event, after which the sound is disposed of or ends.
LEMMA CutPlanIs ==
  ASSUME NEW s \in State, NEW t, CutPlan(t, s)
  PROVE  \E r :
           /\ Ahead(t, ToRemove(s, DecayOnly), r)
           /\ \/ DisposePlan(r, s) /\ Views(r, {}, {s}, {s}, {}) /\ Views(t, {}, {s}, {s}, {s})
              \/ /\ PostPlan(r) /\ Views(r, {Ev("END", s)}, {}, {}, {})
                 /\ Views(t, {Ev("END", s)}, {}, {}, {s})
<1>1. PICK r : /\ t = Cons(ToRemove(s, DecayOnly), r)
               /\ DisposePlan(r, s) \/ \E q : Rest(q) /\ r = Cons(ToPost(Ev("END", s), Release), q)
  BY DEF CutPlan
<1>2. {s} \cup {} = {s}
  OBVIOUS
<1>3. CASE DisposePlan(r, s)
  <2>1. r \in Seq(Op) /\ Views(r, {}, {s}, {s}, {})
    BY <1>3, DisposePlanIs DEF Ahead
  <2>2. Ahead(t, ToRemove(s, DecayOnly), r) /\ Views(t, {}, {s}, {s}, {s} \cup {})
    BY <1>1, <2>1, CutFirst
  <2> QED BY <1>2, <1>3, <2>1, <2>2
<1>4. ASSUME NEW q, Rest(q), r = Cons(ToPost(Ev("END", s), Release), q)
      PROVE  /\ PostPlan(r) /\ Ahead(t, ToRemove(s, DecayOnly), r)
             /\ Views(r, {Ev("END", s)}, {}, {}, {}) /\ Views(t, {Ev("END", s)}, {}, {}, {s})
  <2>1. PICK e \in GoodEvent : e = Ev("END", s)
    BY DEF GoodEvent, Ev, Type
  <2>2. PICK d \in Nat : d = Release
    BY SndAssumption
  <2>3. PostPlan(r)
    BY <1>4, <2>1, <2>2 DEF PostPlan
  <2>4. q \in Seq(Op) /\ Views(q, {}, {}, {}, {})
    BY <1>4, RestIs
  <2>5. {e} \cup {} = {e}
    OBVIOUS
  <2>6. /\ Ahead(Cons(ToPost(e, d), q), ToPost(e, d), q)
        /\ Views(Cons(ToPost(e, d), q), {e} \cup {}, {}, {}, {})
    BY <2>4, PostFirst
  <2>7. r \in Seq(Op) /\ Views(r, {e}, {}, {}, {})
    BY <1>4, <2>1, <2>2, <2>5, <2>6 DEF Ahead
  <2>8. Ahead(t, ToRemove(s, DecayOnly), r) /\ Views(t, {e}, {}, {}, {s} \cup {})
    BY <1>1, <2>7, CutFirst
  <2> QED BY <2>1, <2>3, <2>7, <2>8, <1>2
<1> QED BY <1>1, <1>3, <1>4

\* The operation that is next, by the form of the list.
LEMMA FirstOf ==
  ASSUME NEW t, Plan(t)
  PROVE  /\ t \in Seq(Op)
         /\ \/ t = <<>>
            \/ Rest(t) /\ Head(t).op \in {"go on", "next"}
            \/ (PostPlan(t) \/ PostsPlan(t)) /\ Head(t).op = "post"
            \/ \E s \in State :
                 \/ RemovePlan(t, s) /\ Head(t).op = "remove" /\ Head(t).state = s
                 \/ DisposePlan(t, s) /\ Head(t).op = "dispose"
                 \/ CutPlan(t, s) /\ Head(t).op = "remove"
<1>1. CASE t = <<>>
  BY <1>1, NothingToDo
<1>2. CASE Rest(t)
  BY <1>2, RestIs
<1>3. CASE PostPlan(t)
  <2>1. PICK e, d, r : Ahead(t, ToPost(e, d), r)
    BY <1>3, PostPlanIs
  <2>2. t \in Seq(Op) /\ Head(t) = ToPost(e, d)
    BY <2>1 DEF Ahead
  <2>3. ToPost(e, d).op = "post"
    BY DEF ToPost
  <2> QED BY <1>3, <2>2, <2>3
<1>4. CASE PostsPlan(t)
  <2>1. PICK e, d, r : Ahead(t, ToPost(e, d), r)
    BY <1>4, PostsPlanIs
  <2>2. t \in Seq(Op) /\ Head(t) = ToPost(e, d)
    BY <2>1 DEF Ahead
  <2>3. ToPost(e, d).op = "post"
    BY DEF ToPost
  <2> QED BY <1>4, <2>2, <2>3
<1>5. ASSUME NEW s \in State, RemovePlan(t, s)
      PROVE  t \in Seq(Op) /\ Head(t).op = "remove" /\ Head(t).state = s
  <2>1. PICK r : Ahead(t, ToRemove(s, Type), r)
    BY <1>5, RemovePlanIs
  <2>2. t \in Seq(Op) /\ Head(t) = ToRemove(s, Type)
    BY <2>1 DEF Ahead
  <2>3. ToRemove(s, Type).op = "remove" /\ ToRemove(s, Type).state = s
    BY DEF ToRemove
  <2> QED BY <2>2, <2>3
<1>6. ASSUME NEW s \in State, DisposePlan(t, s)
      PROVE  t \in Seq(Op) /\ Head(t).op = "dispose"
  <2>1. PICK r : Ahead(t, DisposeOf(s), r)
    BY <1>6, DisposePlanIs
  <2>2. t \in Seq(Op) /\ Head(t) = DisposeOf(s)
    BY <2>1 DEF Ahead
  <2>3. DisposeOf(s).op = "dispose"
    BY DEF DisposeOf
  <2> QED BY <2>2, <2>3
<1>7. ASSUME NEW s \in State, CutPlan(t, s)
      PROVE  t \in Seq(Op) /\ Head(t).op = "remove"
  <2>1. PICK r : Ahead(t, ToRemove(s, DecayOnly), r)
    BY <1>7, CutPlanIs
  <2>2. t \in Seq(Op) /\ Head(t) = ToRemove(s, DecayOnly)
    BY <2>1 DEF Ahead
  <2>3. ToRemove(s, DecayOnly).op = "remove"
    BY DEF ToRemove
  <2> QED BY <2>2, <2>3
<1> QED BY <1>1, <1>2, <1>3, <1>4, <1>5, <1>6, <1>7 DEF Plan

\* All operations but the last leave something to do.
OnPlan(r) == Plan(r) /\ r # <<>>

\* What is left of a plan is a plan.
LEMMA PlansGoOn ==
  ASSUME NEW r, Rest(r) \/ PostPlan(r) \/ \E s \in State : RemovePlan(r, s) \/ DisposePlan(r, s)
  PROVE  OnPlan(r)
<1>1. CASE Rest(r)
  BY <1>1, RestIs DEF OnPlan, Plan
<1>2. CASE PostPlan(r)
  <2>1. r # <<>>
    BY <1>2, PostPlanIs DEF Ahead
  <2> QED BY <1>2, <2>1 DEF OnPlan, Plan
<1>3. ASSUME NEW s \in State, RemovePlan(r, s) PROVE OnPlan(r)
  <2>1. r # <<>>
    BY <1>3, RemovePlanIs DEF Ahead
  <2> QED BY <1>3, <2>1 DEF OnPlan, Plan
<1>4. ASSUME NEW s \in State, DisposePlan(r, s) PROVE OnPlan(r)
  <2>1. r # <<>>
    BY <1>4, DisposePlanIs DEF Ahead
  <2> QED BY <1>4, <2>1 DEF OnPlan, Plan
<1> QED BY <1>1, <1>2, <1>3, <1>4

\* A post that is to be done, and what there is to do after it.
LEMMA DoingPost ==
  ASSUME Plan(todo), Doing("post")
  PROVE  \E e \in GoodEvent, d \in Nat, p \in SUBSET GoodEvent : \E r :
           /\ Ahead(todo, ToPost(e, d), r) /\ OnPlan(r)
           /\ Views(todo, {e} \cup p, {}, {}, {}) /\ Views(r, p, {}, {}, {})
<1>1. todo # <<>> /\ Head(todo).op = "post"
  BY DEF Doing
<1>2. PostPlan(todo) \/ PostsPlan(todo)
  <2>1. "post" \notin {"go on", "next"} /\ "post" # "remove" /\ "post" # "dispose"
    OBVIOUS
  <2> QED BY <1>1, <2>1, FirstOf
<1>3. CASE PostPlan(todo)
  <2>1. PICK e \in GoodEvent, d \in Nat : \E r :
           Rest(r) /\ Ahead(todo, ToPost(e, d), r) /\ Views(todo, {e}, {}, {}, {})
    BY <1>3, PostPlanIs
  <2>2. PICK r : Rest(r) /\ Ahead(todo, ToPost(e, d), r) /\ Views(todo, {e}, {}, {}, {})
    BY <2>1
  <2>3. PICK p \in SUBSET GoodEvent : p = {}
    OBVIOUS
  <2>4. OnPlan(r) /\ Views(r, p, {}, {}, {})
    BY <2>2, <2>3, RestIs, PlansGoOn
  <2>5. {e} \cup p = {e}
    BY <2>3
  <2> QED BY <2>2, <2>4, <2>5
<1>4. CASE PostsPlan(todo)
  <2>1. PICK e \in GoodEvent, d \in Nat, p \in SUBSET GoodEvent : \E r :
           /\ PostPlan(r) /\ Ahead(todo, ToPost(e, d), r)
           /\ Views(r, p, {}, {}, {}) /\ Views(todo, {e} \cup p, {}, {}, {})
    BY <1>4, PostsPlanIs
  <2> QED BY <2>1, PlansGoOn
<1> QED BY <1>2, <1>3, <1>4

\* The same for a disposal: the removal of the events of the sound is left.
LEMMA DoingDispose ==
  ASSUME Plan(todo), Doing("dispose")
  PROVE  \E s \in State : \E r :
           /\ Ahead(todo, DisposeOf(s), r) /\ OnPlan(r)
           /\ Views(todo, {}, {s}, {s}, {}) /\ Views(r, {}, {}, {s}, {})
<1>1. todo # <<>> /\ Head(todo).op = "dispose"
  BY DEF Doing
<1>2. PICK s \in State : DisposePlan(todo, s)
  <2>1. "dispose" \notin {"go on", "next"} /\ "dispose" # "remove" /\ "dispose" # "post"
    OBVIOUS
  <2> QED BY <1>1, <2>1, FirstOf
<1>3. PICK r : /\ RemovePlan(r, s) /\ Ahead(todo, DisposeOf(s), r)
               /\ Views(r, {}, {}, {s}, {}) /\ Views(todo, {}, {s}, {s}, {})
  BY <1>2, DisposePlanIs
<1>4. OnPlan(r)
  BY <1>3, PlansGoOn
<1> QED BY <1>3, <1>4

\* The same for a removal.
LEMMA DoingRemove ==
  ASSUME Plan(todo), Doing("remove")
  PROVE  \E s \in State : \E r :
           \/ /\ Ahead(todo, ToRemove(s, Type), r) /\ OnPlan(r)
              /\ Views(todo, {}, {}, {s}, {}) /\ Views(r, {}, {}, {}, {})
           \/ /\ Ahead(todo, ToRemove(s, DecayOnly), r) /\ OnPlan(r)
              /\ Views(todo, {}, {s}, {s}, {s}) /\ Views(r, {}, {s}, {s}, {})
           \/ /\ Ahead(todo, ToRemove(s, DecayOnly), r) /\ OnPlan(r)
              /\ Views(todo, {Ev("END", s)}, {}, {}, {s}) /\ Views(r, {Ev("END", s)}, {}, {}, {})
<1>1. todo # <<>> /\ Head(todo).op = "remove"
  BY DEF Doing
<1>2. PICK s \in State : RemovePlan(todo, s) \/ CutPlan(todo, s)
  <2>1. "remove" \notin {"go on", "next"} /\ "remove" # "dispose" /\ "remove" # "post"
    OBVIOUS
  <2> QED BY <1>1, <2>1, FirstOf
<1>3. CASE RemovePlan(todo, s)
  <2>1. PICK r : /\ Rest(r) /\ Ahead(todo, ToRemove(s, Type), r)
                 /\ Views(todo, {}, {}, {s}, {})
    BY <1>3, RemovePlanIs
  <2>2. OnPlan(r) /\ Views(r, {}, {}, {}, {})
    BY <2>1, RestIs, PlansGoOn
  <2> QED BY <2>1, <2>2
<1>4. CASE CutPlan(todo, s)
  <2>1. PICK r :
           /\ Ahead(todo, ToRemove(s, DecayOnly), r)
           /\ \/ DisposePlan(r, s) /\ Views(r, {}, {s}, {s}, {}) /\ Views(todo, {}, {s}, {s}, {s})
              \/ /\ PostPlan(r) /\ Views(r, {Ev("END", s)}, {}, {}, {})
                 /\ Views(todo, {Ev("END", s)}, {}, {}, {s})
    BY <1>4, CutPlanIs
  <2>2. OnPlan(r)
    BY <2>1, PlansGoOn
  <2> QED BY <2>1, <2>2
<1> QED BY <1>2, <1>3, <1>4

\* There is nothing else to do when it comes to the next event or the next part.
LEMMA DoingRest ==
  ASSUME Plan(todo), Doing("next") \/ Doing("go on")
  PROVE  /\ Views(todo, {}, {}, {}, {})
         /\ Doing("next") => todo = <<ToGetNext>>
         /\ Doing("go on") => \E type \in ForAll, s \in State \cup {NULL} :
                                todo = Cons(ToGoOn(type, s), <<ToGetNext>>)
<1>1. todo # <<>> /\ Head(todo).op \in {"next", "go on"}
  BY DEF Doing
<1>2. Rest(todo)
  <2>1. \A op \in {"next", "go on"} : op # "post" /\ op # "remove" /\ op # "dispose"
    OBVIOUS
  <2> QED BY <1>1, <2>1, FirstOf
<1>3. Views(todo, {}, {}, {}, {})
  BY <1>2, RestIs
<1>4. ASSUME todo = <<ToGetNext>> PROVE Head(todo).op = "next"
  BY <1>4, <1>2, RestIs
<1>5. ASSUME NEW type \in ForAll, NEW s \in State \cup {NULL},
             todo = Cons(ToGoOn(type, s), <<ToGetNext>>)
      PROVE  Head(todo).op = "go on"
  <2>1. PICK q : q = <<ToGetNext>>
    OBVIOUS
  <2>2. Rest(q)
    BY <2>1 DEF Rest
  <2>3. PICK o : o = ToGoOn(type, s)
    OBVIOUS
  <2>4. o \in Op /\ o.op = "go on"
    BY <2>3 DEF ToGoOn, Op, Ev, ForAll
  <2>5. q \in Seq(Op) /\ todo = Cons(o, q)
    BY <1>5, <2>1, <2>2, <2>3, RestIs
  <2>6. Head(Cons(o, q)) = o
    BY <2>4, <2>5, ConsIs
  <2> QED BY <2>4, <2>5, <2>6
<1> QED BY <1>2, <1>3, <1>4, <1>5 DEF Rest, Doing

\* When the events of a freed state are still to be removed, this is done next.
LEMMA RemovedNext ==
  ASSUME Plan(todo), NEW s \in Removals(todo) \ Disposals(todo)
  PROVE  Doing("remove") /\ Head(todo).state = s
<1>1. CASE todo = <<>>
  BY <1>1, NothingToDo DEF Views
<1>2. CASE Rest(todo)
  BY <1>2, RestIs DEF Views
<1>3. CASE PostPlan(todo)
  BY <1>3, PostPlanIs DEF Views
<1>4. CASE PostsPlan(todo)
  BY <1>4, PostsPlanIs DEF Views
<1>5. ASSUME NEW x \in State, RemovePlan(todo, x)
      PROVE  Doing("remove") /\ Head(todo).state = s
  <2>1. PICK r : Ahead(todo, ToRemove(x, Type), r) /\ Views(todo, {}, {}, {x}, {})
    BY <1>5, RemovePlanIs
  <2>2. todo # <<>> /\ Head(todo) = ToRemove(x, Type) /\ x = s
    BY <2>1 DEF Ahead, Views
  <2>3. ToRemove(x, Type).op = "remove" /\ ToRemove(x, Type).state = x
    BY DEF ToRemove
  <2> QED BY <2>2, <2>3 DEF Doing
<1>6. ASSUME NEW x \in State, DisposePlan(todo, x) PROVE FALSE
  BY <1>6, DisposePlanIs DEF Views
<1>7. ASSUME NEW x \in State, CutPlan(todo, x) PROVE FALSE
  BY <1>7, CutPlanIs DEF Views
<1> QED BY <1>1, <1>2, <1>3, <1>4, <1>5, <1>6, <1>7 DEF Plan

-------------------------------------------------------------------------------
(* The events that are in the queue.                                       *)

EventSet(list) == {list[i].event : i \in DOMAIN list}

\* A post adds its event to those of the list, and loses none.
LEMMA PostedHas ==
  ASSUME NEW list \in Seq(Item), NEW e \in Event, NEW d \in Nat
  PROVE  /\ Posted(list, e, d) \in Seq(Item) /\ Len(Posted(list, e, d)) = Len(list) + 1
         /\ EventSet(Posted(list, e, d)) = EventSet(list) \cup {e}
<1>1. PICK due : Times(due, list)
  BY TimesExist
<1>2. PICK new : /\ new = Posted(list, e, d)
                 /\ \E q \in 1 .. (Len(list) + 1) : PutIn(new, Len(list), list, due, e, d, q)
  BY <1>1, PostedIs
<1>9. PICK p \in 1 .. (Len(list) + 1) : PutIn(new, Len(list), list, due, e, d, p)
  BY <1>2
<1>3. PICK N \in Nat : N = Len(list)
  OBVIOUS
<1>4. /\ new \in Seq(Item) /\ Len(new) = N + 1 /\ DOMAIN new = 1 .. (N + 1) /\ DOMAIN list = 1 .. N
      /\ \A i \in 1 .. (p - 1) : new[i] = list[i]
      /\ new[p].event = e
      /\ p <= N => new[p + 1].event = list[p].event
      /\ \A i \in (p + 2) .. (N + 1) : new[i] = list[i - 1]
  BY <1>9, <1>3 DEF PutIn
<1>5. ASSUME NEW i \in 1 .. (N + 1) PROVE new[i].event \in EventSet(list) \cup {e}
  <2>1. CASE i < p
    <3>1. i \in 1 .. (p - 1) /\ i \in DOMAIN list
      BY <2>1, <1>3, <1>4
    <3> QED BY <3>1, <1>4 DEF EventSet
  <2>2. CASE i = p
    BY <2>2, <1>4
  <2>3. CASE i = p + 1
    <3>1. p <= N /\ p \in DOMAIN list
      BY <2>3, <1>3, <1>4
    <3> QED BY <2>3, <3>1, <1>4 DEF EventSet
  <2>4. CASE p + 1 < i
    <3>1. i \in (p + 2) .. (N + 1) /\ i - 1 \in DOMAIN list
      BY <2>4, <1>3, <1>4
    <3> QED BY <3>1, <1>4 DEF EventSet
  <2> QED BY <2>1, <2>2, <2>3, <2>4, <1>3
<1>6. ASSUME NEW i \in 1 .. N PROVE list[i].event \in EventSet(new)
  <2>1. CASE i < p
    <3>1. i \in 1 .. (p - 1) /\ i \in DOMAIN new
      BY <2>1, <1>3, <1>4
    <3> QED BY <3>1, <1>4 DEF EventSet
  <2>2. CASE i = p
    <3>1. p <= N /\ p + 1 \in DOMAIN new
      BY <2>2, <1>3, <1>4
    <3> QED BY <2>2, <3>1, <1>4 DEF EventSet
  <2>3. CASE p < i
    <3>1. i + 1 \in (p + 2) .. (N + 1) /\ (i + 1) - 1 = i /\ i + 1 \in DOMAIN new
      BY <2>3, <1>3, <1>4
    <3> QED BY <3>1, <1>4 DEF EventSet
  <2> QED BY <2>1, <2>2, <2>3, <1>3
<1>7. e \in EventSet(new)
  <2>1. p \in DOMAIN new
    BY <1>3, <1>4
  <2> QED BY <2>1, <1>4 DEF EventSet
<1>8. EventSet(new) = EventSet(list) \cup {e}
  <2>1. \A x \in EventSet(new) : x \in EventSet(list) \cup {e}
    <3> TAKE x \in EventSet(new)
    <3>1. PICK i \in 1 .. (N + 1) : x = new[i].event
      BY <1>4 DEF EventSet
    <3> QED BY <3>1, <1>5
  <2>2. \A x \in EventSet(list) : x \in EventSet(new)
    <3> TAKE x \in EventSet(list)
    <3>1. PICK i \in 1 .. N : x = list[i].event
      BY <1>4 DEF EventSet
    <3> QED BY <3>1, <1>6
  <2> QED BY <2>1, <2>2, <1>7
<1> QED BY <1>2, <1>3, <1>4, <1>8

\* A removal takes the events of the sound of these types, and no other.
LEMMA WithoutHas ==
  ASSUME NEW list \in Seq(Item), NEW s, NEW types
  PROVE  /\ WithoutEvents(list, s, types) \in Seq(Item)
         /\ Len(WithoutEvents(list, s, types)) <= Len(list)
         /\ EventSet(WithoutEvents(list, s, types))
              = {e \in EventSet(list) : ~(e.state = s /\ e.type \in types)}
<1>1. PICK due : Times(due, list)
  BY TimesExist
<1>2. PICK m \in 0 .. Len(list) : \E k :
        Selected(WithoutEvents(list, s, types), m, Len(list), list, due, k, s, types)
  BY <1>1, WithoutIs
<1>7. PICK k, new : /\ new = WithoutEvents(list, s, types)
                    /\ Selected(new, m, Len(list), list, due, k, s, types)
  BY <1>2
<1>3. PICK N \in Nat : N = Len(list) /\ DOMAIN list = 1 .. N
  OBVIOUS
<1>4. /\ new \in Seq(Item) /\ Len(new) = m /\ DOMAIN new = 1 .. m /\ m <= N
      /\ k \in [1 .. m -> 1 .. N]
      /\ \A j \in 1 .. m : new[j].event = list[k[j]].event
      /\ \A i \in 1 .. N : ~Goes(list[i], s, types) <=> \E j \in 1 .. m : k[j] = i
  <2>1. /\ new \in Seq(Item) /\ Len(new) = m
        /\ k \in [1 .. m -> 1 .. N]
        /\ \A i \in 1 .. N : ~Goes(list[i], s, types) <=> \E j \in 1 .. m : k[j] = i
    BY <1>7, <1>3 DEF Selected
  <2>2. \A j \in 1 .. m :
          new[j] = [event |-> list[k[j]].event, delta |-> due[k[j]] - Prior(due, k, j)]
    BY <1>7 DEF Selected
  <2>3. ASSUME NEW j \in 1 .. m PROVE new[j].event = list[k[j]].event
    <3>1. PICK a, b : a = list[k[j]].event /\ b = due[k[j]] - Prior(due, k, j)
      OBVIOUS
    <3>2. new[j] = [event |-> a, delta |-> b]
      BY <2>2, <3>1
    <3> QED BY <3>1, <3>2
  <2>4. DOMAIN new = 1 .. m /\ m <= N
    BY <2>1, <1>3
  <2> QED BY <2>1, <2>3, <2>4
<1>5. ASSUME NEW x \in EventSet(new)
      PROVE  x \in EventSet(list) /\ ~(x.state = s /\ x.type \in types)
  <2>1. PICK j \in 1 .. m : x = new[j].event
    BY <1>4 DEF EventSet
  <2>2. PICK i \in 1 .. N : i = k[j]
    BY <1>4
  <2>3. x = list[i].event /\ ~Goes(list[i], s, types)
    BY <2>1, <2>2, <1>4
  <2> QED BY <2>3, <1>3 DEF EventSet, Goes
<1>6. ASSUME NEW x \in EventSet(list), ~(x.state = s /\ x.type \in types) PROVE x \in EventSet(new)
  <2>1. PICK i \in 1 .. N : x = list[i].event
    BY <1>3 DEF EventSet
  <2>2. ~Goes(list[i], s, types)
    BY <2>1, <1>6 DEF Goes
  <2>3. PICK j \in 1 .. m : k[j] = i
    BY <2>2, <1>4
  <2> QED BY <2>1, <2>3, <1>4 DEF EventSet
<1> QED BY <1>7, <1>3, <1>4, <1>5, <1>6

\* The queue is well formed.
QueueOK ==
  events \in Seq(Item) /\ Len(events) <= MaxEvents /\ EventSet(events) \subseteq GoodEvent

\* The events of the player are events.
LEMMA GoodEvents == GoodEvent \subseteq Event
<1>1. "API" \in Type
  BY DEF Type
<1> QED BY <1>1 DEF GoodEvent, Event, Heartbeat, Ev

\* Post, on the event queue: the event is in unless it was refused.
LEMMA PostHas ==
  ASSUME QueueOK, dropped \in BOOLEAN, NEW e \in GoodEvent, NEW d \in Nat, Post(e, d)
  PROVE  /\ QueueOK' /\ dropped' \in BOOLEAN
         /\ EventSet(events) \subseteq EventSet(events)'
         /\ EventSet(events)' \subseteq EventSet(events) \cup {e}
         /\ ~dropped' => ~dropped /\ e \in EventSet(events)'
<1>1. e \in Event
  BY GoodEvents
<1>2. CASE Len(events) = MaxEvents
  BY <1>2 DEF Post, QueueOK
<1>3. CASE Len(events) # MaxEvents
  <2>1. events' = Posted(events, e, d) /\ dropped' = dropped
    BY <1>3 DEF Post
  <2>2. /\ events' \in Seq(Item) /\ Len(events') = Len(events) + 1
        /\ EventSet(events') = EventSet(events) \cup {e}
    BY <1>1, <2>1, PostedHas DEF QueueOK
  <2>3. Len(events') <= MaxEvents
    BY <2>2, <1>3, Constants DEF QueueOK
  <2>4. EventSet(events') = EventSet(events)'
    BY DEF EventSet
  <2> QED BY <2>1, <2>2, <2>3, <2>4 DEF QueueOK
<1> QED BY <1>2, <1>3

\* NextEvent, on the event queue: the event taken out is the current one.
LEMMA NextHas ==
  ASSUME QueueOK, NextEvent
  PROVE  /\ QueueOK' /\ nextEvent' \in GoodEvent \cup {NoEvent}
         /\ EventSet(events) \subseteq EventSet(events)' \cup {nextEvent'}
         /\ EventSet(events)' \subseteq EventSet(events)
         /\ nextEvent' \in EventSet(events) \cup {NoEvent}
<1>1. CASE events = <<>>
  BY <1>1 DEF NextEvent, QueueOK, EventSet
<1>2. CASE events # <<>>
  <2>1. nextEvent' = Head(events).event /\ events' = Tail(events)
    BY <1>2 DEF NextEvent
  <2>2. events \in Seq(Item) /\ Len(events) <= MaxEvents /\ EventSet(events) \subseteq GoodEvent
    BY DEF QueueOK
  <2>3. /\ Len(events) \in Nat /\ 1 <= Len(events) /\ events' \in Seq(Item)
        /\ Len(events') = Len(events) - 1 /\ nextEvent' = events[1].event
        /\ \A i \in 1 .. (Len(events) - 1) : events'[i] = events[i + 1]
    BY <1>2, <2>1, <2>2
  <2>4. DOMAIN events = 1 .. Len(events) /\ DOMAIN events' = 1 .. (Len(events) - 1)
    BY <2>2, <2>3
  <2>5. nextEvent' \in EventSet(events)
    <3>1. 1 \in DOMAIN events
      BY <2>3, <2>4
    <3> QED BY <3>1, <2>3 DEF EventSet
  <2>6. ASSUME NEW x \in EventSet(events)' PROVE x \in EventSet(events)
    <3>1. PICK i \in 1 .. (Len(events) - 1) : x = events'[i].event
      BY <2>4, <2>6 DEF EventSet
    <3>2. i + 1 \in DOMAIN events
      BY <2>3, <2>4
    <3> QED BY <3>1, <3>2, <2>3 DEF EventSet
  <2>7. ASSUME NEW x \in EventSet(events) PROVE x \in EventSet(events)' \cup {nextEvent'}
    <3>1. PICK i \in 1 .. Len(events) : x = events[i].event
      BY <2>4, <2>7 DEF EventSet
    <3>2. i # 1 => i - 1 \in 1 .. (Len(events) - 1) /\ (i - 1) + 1 = i
      BY <2>3
    <3> QED BY <3>1, <3>2, <2>3, <2>4 DEF EventSet
  <2>8. Len(events') <= MaxEvents
    BY <2>2, <2>3, Constants
  <2> QED BY <2>2, <2>3, <2>5, <2>6, <2>7, <2>8 DEF QueueOK
<1> QED BY <1>1, <1>2

-------------------------------------------------------------------------------
(* Types.                                                                  *)

SoundState ==
  [set : BOOLEAN, owned : BOOLEAN, looped : BOOLEAN, playing : BOOLEAN,
   final : BOOLEAN, unk38 : 0 .. Retries,
   playingState : {"NONE", "PLAYING", "STOPPING", "PREEMPT", "WAIT_VOICE", "INIT"}]

QueueTypes == QueueOK /\ nextEvent \in GoodEvent \cup {NoEvent} /\ Plan(todo) /\ dropped \in BOOLEAN
ListTypes == next \in Links /\ prev \in Links /\ {head, first, last} \subseteq State \cup {NULL}
SoundTypes == sound \in [State -> SoundState] /\ count \in Int /\ handle \in State \cup {NULL}
MainState ==
  [pc : {"idle", "take", "fill", "post", "read", "finish", "deactivate", "DEACTIVATE", "RELEASE"},
   item : State \cup {NULL}, latest : State \cup {NULL}, parts : Seq(Part), pending : BOOLEAN]
MainTypes ==
  /\ main \in MainState
  /\ main.pc \in {"take", "fill", "post", "read"} => main.parts # <<>>
  /\ main.pc \in {"take", "fill", "post", "deactivate", "DEACTIVATE", "RELEASE"} =>
       main.item # NULL

Types == QueueTypes /\ ListTypes /\ SoundTypes /\ MainTypes /\ overlapped \in BOOLEAN

-------------------------------------------------------------------------------
(* What the handling of an event does, as the cases that the invariants    *)
(* tell apart.                                                             *)

Waiting(s) == sound[s].playingState \in {"INIT", "WAIT_VOICE"}
Live(s) == sound[s].playingState # "NONE"

\* Events that can end s, or lead on to one that does.
Needs(s) ==
  IF Waiting(s) THEN {Ev("PLAY", s)}
  ELSE IF sound[s].playingState = "PLAYING" THEN {Ev("DECAY", s), Ev("STOP", s)}
  ELSE {Ev("END", s)}

Endless(s) == sound[s].playingState = "PLAYING" /\ sound[s].looped

\* The event taken from the queue, if it is the one handled now, is for s.
For(s) == todo = <<>> => \E type \in Type \ {"API"} : nextEvent = Ev(type, s)

Ignored ==
  /\ Rest(todo') /\ UNCHANGED <<sound, count>>
  /\ todo = <<>> => \A s \in State : nextEvent \in Needs(s) => ~sound[s].set \/ Endless(s)
Beats ==
  /\ todo = <<>> /\ nextEvent = Heartbeat /\ UNCHANGED <<sound, count>>
  /\ \E r : Rest(r) /\ todo' = Cons(ToPost(Heartbeat, Frame), r)
Plays(s) ==
  /\ For(s) /\ Waiting(s) /\ count' = count + 1
  /\ sound' = [sound EXCEPT ![s].playing = TRUE, ![s].playingState = "PLAYING"]
  /\ \E r : Rest(r) /\ todo' = Cons(ToPost(Ev("DECAY", s), Attack), r)
Waits(s) ==
  /\ For(s) /\ Waiting(s) /\ UNCHANGED count
  /\ sound' = [sound EXCEPT ![s].playingState = "WAIT_VOICE",
                            ![s].unk38 = IF @ = 0 THEN 0 ELSE @ - 1]
  /\ \E r : Rest(r) /\ todo' = Cons(ToPost(Ev("PLAY", s), Frame), r)
Preempts(s, v) ==
  /\ For(s) /\ Waiting(s) /\ v \in Victims /\ todo = <<>> /\ UNCHANGED count
  /\ sound' = [sound EXCEPT ![v].playingState = "PREEMPT", ![s].unk38 = Retries]
  /\ \E r : /\ Rest(r)
            /\ todo' = Cons(ToPost(Ev("END", v), Short), Cons(ToPost(Ev("PLAY", s), Short + 1), r))
Disposes(s) ==
  /\ For(s) /\ UNCHANGED <<sound, count>> /\ DisposePlan(todo', s)
  /\ Waiting(s) \/ (todo = <<>> /\ nextEvent = Ev("END", s))
Decays(s) ==
  /\ For(s) /\ UNCHANGED <<sound, count>> /\ todo = <<>> /\ nextEvent = Ev("DECAY", s)
  /\ \E r : Rest(r) /\ todo' = Cons(ToPost(Ev("STOP", s), Decay), r)
Releases(s) ==
  /\ For(s) /\ sound[s].playingState = "PLAYING" /\ UNCHANGED count
  /\ sound' = [sound EXCEPT ![s].playingState = "STOPPING"]
  /\ \E r : /\ Rest(r)
            /\ todo' = Cons(ToRemove(s, DecayOnly), Cons(ToPost(Ev("END", s), Release), r))
Cuts(s) ==
  /\ For(s) /\ sound[s].playingState = "PLAYING" /\ UNCHANGED <<sound, count>>
  /\ \E r : DisposePlan(r, s) /\ todo' = Cons(ToRemove(s, DecayOnly), r)

Reaction ==
  \/ Ignored \/ Beats
  \/ \E s \in State : \/ Plays(s) \/ Waits(s) \/ Disposes(s) \/ Decays(s) \/ Releases(s) \/ Cuts(s)
                      \/ \E v \in Victims : Preempts(s, v)

\* Lists of operations are put together.
LEMMA Joined ==
  ASSUME NEW S, NEW q \in Seq(S), NEW a \in S, NEW b \in S
  PROVE  /\ <<>> \o q = q /\ <<a>> \o q = Cons(a, q) /\ <<a, b>> \o q = Cons(a, Cons(b, q))
<1>1. PICK u \in Seq(S) : u = <<a>> /\ Len(u) = 1 /\ u[1] = a
  <2>1. <<a>> \in Seq(S) /\ Len(<<a>>) = 1 /\ <<a>>[1] = a
    OBVIOUS
  <2> QED BY <2>1
<1>2. PICK w \in Seq(S) : w = <<b>> /\ Len(w) = 1 /\ w[1] = b
  <2>1. <<b>> \in Seq(S) /\ Len(<<b>>) = 1 /\ <<b>>[1] = b
    OBVIOUS
  <2> QED BY <2>1
<1>3. PICK x \in Seq(S) : x = <<a, b>> /\ Len(x) = 2 /\ x[1] = a /\ x[2] = b
  <2>1. <<a, b>> \in Seq(S) /\ Len(<<a, b>>) = 2 /\ <<a, b>>[1] = a /\ <<a, b>>[2] = b
    OBVIOUS
  <2> QED BY <2>1
<1>4. x \o q = u \o (w \o q)
  <2>1. PICK p \in Seq(S) : p = x \o q
    <3>1. x \o q \in Seq(S)
      OBVIOUS
    <3> QED BY <3>1
  <2>2. PICK o \in Seq(S) : o = w \o q
    <3>1. w \o q \in Seq(S)
      OBVIOUS
    <3> QED BY <3>1
  <2>3. PICK z \in Seq(S) : z = u \o o
    <3>1. u \o o \in Seq(S)
      OBVIOUS
    <3> QED BY <3>1
  <2>4. Len(p) = 2 + Len(q) /\ Len(o) = 1 + Len(q) /\ Len(z) = 2 + Len(q)
    BY <2>1, <2>2, <2>3, <1>1, <1>2, <1>3
  <2>5. \A i \in 1 .. (2 + Len(q)) : p[i] = IF i <= 2 THEN x[i] ELSE q[i - 2]
    BY <2>1, <1>3
  <2>6. \A i \in 1 .. (1 + Len(q)) : o[i] = IF i <= 1 THEN w[i] ELSE q[i - 1]
    BY <2>2, <1>2
  <2>7. \A i \in 1 .. (2 + Len(q)) : z[i] = IF i <= 1 THEN u[i] ELSE o[i - 1]
    BY <2>3, <2>4, <1>1
  <2>8. ASSUME NEW i \in 1 .. (2 + Len(q)) PROVE p[i] = z[i]
    <3>1. CASE i = 1
      BY <3>1, <2>5, <2>7, <1>1, <1>3
    <3>2. CASE i = 2
      <4>1. o[1] = b /\ 1 \in 1 .. (1 + Len(q))
        BY <2>6, <1>2
      <4>2. 2 \in 1 .. (2 + Len(q)) /\ 2 - 1 = 1
        OBVIOUS
      <4>3. p[2] = b
        BY <4>2, <2>5, <1>3
      <4>4. z[2] = o[1]
        BY <4>2, <2>7
      <4> QED BY <3>2, <4>1, <4>3, <4>4
    <3>3. CASE i > 2
      <4>1. i - 1 \in 1 .. (1 + Len(q)) /\ i - 1 > 1 /\ (i - 1) - 1 = i - 2
        BY <3>3
      <4>2. o[i - 1] = q[i - 2]
        BY <4>1, <2>6
      <4> QED BY <3>3, <4>2, <2>5, <2>7
    <3> QED BY <3>1, <3>2, <3>3
  <2>9. p = z
    BY <2>4, <2>8
  <2> QED BY <2>1, <2>2, <2>3, <2>9
<1>5. <<>> \o q = q
  OBVIOUS
<1> QED BY <1>1, <1>2, <1>3, <1>4, <1>5 DEF Cons

Joins(w, x, y) == w = x \o y

\* Joining lists one by one.
LEMMA JoinedTwice ==
  ASSUME NEW S, NEW x \in Seq(S), NEW y \in Seq(S), NEW z \in Seq(S),
         NEW v, Joins(v, x, y), NEW w, Joins(w, v, z), NEW u, Joins(u, y, z)
  PROVE  Joins(w, x, u)
<1>1. (x \o y) \o z = x \o (y \o z)
  OBVIOUS
<1> QED BY <1>1 DEF Joins

\* A list of one operation.
LEMMA Single ==
  ASSUME NEW S, NEW o \in S
  PROVE  <<o>> \in Seq(S)
OBVIOUS

\* Nothing ahead of a list.
LEMMA JoinedEmpty ==
  ASSUME NEW S, NEW q \in Seq(S)
  PROVE  <<>> \o q = q
OBVIOUS

\* The events that a sound in use needs are of its own, and fit its playing state.
LEMMA NeedsAre ==
  ASSUME NEW s \in State
  PROVE  /\ NoEvent \notin Needs(s) /\ Heartbeat \notin Needs(s)
         /\ \A type, x : Ev(type, x) \in Needs(s) =>
              /\ x = s
              /\ \/ type = "PLAY" /\ Waiting(s)
                 \/ type \in {"DECAY", "STOP"} /\ sound[s].playingState = "PLAYING"
                 \/ type = "END" /\ ~Waiting(s) /\ sound[s].playingState # "PLAYING"
<1>1. \A e \in Needs(s) : e.type \in {"PLAY", "DECAY", "STOP", "END"} /\ e.state = s
  BY DEF Needs, Ev
<1>2. NoEvent.type = "none" /\ Heartbeat.type = "API"
  BY DEF NoEvent, Heartbeat, Ev
<1>3. \A type, x : Ev(type, x).type = type /\ Ev(type, x).state = x
  BY DEF Ev
<1>4. NoEvent \notin Needs(s) /\ Heartbeat \notin Needs(s)
  BY <1>1, <1>2
<1>5. ASSUME NEW type, NEW x, Ev(type, x) \in Needs(s)
      PROVE  /\ x = s
             /\ \/ type = "PLAY" /\ Waiting(s)
                \/ type \in {"DECAY", "STOP"} /\ sound[s].playingState = "PLAYING"
                \/ type = "END" /\ ~Waiting(s) /\ sound[s].playingState # "PLAYING"
  <2>1. x = s
    BY <1>1, <1>3, <1>5
  <2>2. CASE Waiting(s)
    <3>1. Ev(type, x) = Ev("PLAY", s)
      BY <2>2, <1>5 DEF Needs
    <3> QED BY <2>1, <2>2, <3>1, <1>3
  <2>3. CASE ~Waiting(s) /\ sound[s].playingState = "PLAYING"
    <3>1. Ev(type, x) = Ev("DECAY", s) \/ Ev(type, x) = Ev("STOP", s)
      BY <2>3, <1>5 DEF Needs
    <3> QED BY <2>1, <2>3, <3>1, <1>3
  <2>4. CASE ~Waiting(s) /\ sound[s].playingState # "PLAYING"
    <3>1. Ev(type, x) = Ev("END", s)
      BY <2>4, <1>5 DEF Needs
    <3> QED BY <2>1, <2>4, <3>1, <1>3
  <2> QED BY <2>1, <2>2, <2>3, <2>4
<1> QED BY <1>4, <1>5

\* What follows an event: the operations for it and then those there were.
LEMMA DoIs ==
  ASSUME Plan(todo), todo = <<>> \/ Doing("go on"), NEW ops, Do(ops)
  PROVE  todo' = ops \o <<ToGetNext>>
<1>1. CASE todo = <<>>
  BY <1>1 DEF Do
<1>2. CASE Doing("go on")
  <2>1. PICK type \in ForAll, s \in State \cup {NULL} : todo = Cons(ToGoOn(type, s), <<ToGetNext>>)
    BY <1>2, DoingRest
  <2>2. PICK q : q = <<ToGetNext>>
    OBVIOUS
  <2>3. Rest(q)
    BY <2>2 DEF Rest
  <2>4. PICK o : o = ToGoOn(type, s)
    OBVIOUS
  <2>5. o \in Op
    BY <2>4 DEF ToGoOn, Op, Ev, ForAll
  <2>6. q \in Seq(Op)
    BY <2>3, RestIs
  <2>7. todo # <<>> /\ Tail(todo) = q
    BY <2>1, <2>2, <2>4, <2>5, <2>6, ConsIs
  <2> QED BY <2>2, <2>7 DEF Do
<1> QED BY <1>1, <1>2

\* The operations for the three kinds of continuations.
LEMMA NextOnly ==
  ASSUME Plan(todo), todo = <<>> \/ Doing("go on"), Do(<<>>)
  PROVE  Rest(todo')
<1>1. PICK q : q = <<ToGetNext>>
  OBVIOUS
<1>2. Rest(q)
  BY <1>1 DEF Rest
<1>3. q \in Seq(Op)
  BY <1>2, RestIs
<1>4. todo' = <<>> \o q
  BY <1>1, DoIs
<1>5. <<>> \o q = q
  BY <1>3, JoinedEmpty
<1> QED BY <1>2, <1>4, <1>5

\* What HandleEvent and GoOn leave to do: one operation, then the rest;
LEMMA OneOp ==
  ASSUME Plan(todo), todo = <<>> \/ Doing("go on"), NEW a \in Op, Do(<<a>>)
  PROVE  \E r : Rest(r) /\ todo' = Cons(a, r)
<1>1. PICK q : q = <<ToGetNext>>
  OBVIOUS
<1>2. Rest(q)
  BY <1>1 DEF Rest
<1>3. q \in Seq(Op)
  BY <1>2, RestIs
<1>4. todo' = <<a>> \o q
  BY <1>1, DoIs
<1>5. <<a>> \o q = Cons(a, q)
  BY <1>3, Joined
<1> QED BY <1>2, <1>4, <1>5

\* two operations, then the rest;
LEMMA TwoOps ==
  ASSUME Plan(todo), todo = <<>> \/ Doing("go on"), NEW a \in Op, NEW b \in Op, Do(<<a, b>>)
  PROVE  \E r : Rest(r) /\ todo' = Cons(a, Cons(b, r))
<1>1. PICK q : q = <<ToGetNext>>
  OBVIOUS
<1>2. Rest(q)
  BY <1>1 DEF Rest
<1>3. q \in Seq(Op)
  BY <1>2, RestIs
<1>4. todo' = <<a, b>> \o q
  BY <1>1, DoIs
<1>5. <<a, b>> \o q = Cons(a, Cons(b, q))
  BY <1>3, Joined
<1> QED BY <1>2, <1>4, <1>5

\* the operations, then the same event for the next part.
LEMMA ThenGoOn ==
  ASSUME Plan(todo), todo = <<>> \/ Doing("go on"),
         NEW type \in ForAll, NEW s \in State \cup {NULL},
         NEW ops \in Seq(Op), Do(ops \o <<ToGoOn(type, s)>>)
  PROVE  \E r : Rest(r) /\ todo' = ops \o r
<1>1. PICK n : n = ToGetNext
  OBVIOUS
<1>2. PICK q : q = <<n>>
  OBVIOUS
<1>3. Rest(q)
  BY <1>1, <1>2 DEF Rest
<1>4. q \in Seq(Op)
  BY <1>3, RestIs
<1>5. PICK o : o = ToGoOn(type, s)
  OBVIOUS
<1>6. o \in Op
  BY <1>5 DEF ToGoOn, Op, Ev, ForAll
<1>7. todo' = (ops \o <<o>>) \o q
  BY <1>1, <1>2, <1>5, DoIs
<1>8. PICK g \in Seq(Op) : g = <<o>>
  <2>1. <<o>> \in Seq(Op)
    BY <1>6, Single
  <2> QED BY <2>1
<1>9. todo' = ops \o (g \o q)
  <2>1. PICK v, u : Joins(v, ops, g) /\ Joins(todo', v, q) /\ Joins(u, g, q)
    BY <1>7, <1>8 DEF Joins
  <2>2. Joins(todo', ops, u)
    BY <2>1, <1>4, <1>8, JoinedTwice
  <2> QED BY <2>1, <2>2 DEF Joins
<1>10. g \o q = Cons(o, q)
  BY <1>4, <1>6, <1>8, Joined
<1>11. Rest(Cons(o, q))
  BY <1>1, <1>2, <1>5 DEF Rest
<1> QED BY <1>9, <1>10, <1>11

\* The operations of these lists.
LEMMA OpsGood ==
  /\ \A e \in GoodEvent, d \in Nat : ToPost(e, d) \in Op
  /\ \A s \in State : ToRemove(s, Type) \in Op /\ ToRemove(s, DecayOnly) \in Op
  /\ \A s \in State : DisposeOf(s) \in Op /\ ToDispose(s) = <<DisposeOf(s), ToRemove(s, Type)>>
  /\ \A s \in State, type \in Type \ {"API"} : Ev(type, s) \in GoodEvent
  /\ Heartbeat \in GoodEvent
  /\ {"PLAY", "DECAY", "STOP", "END"} \subseteq Type \ {"API"} /\ ForAll \subseteq Type \ {"API"}
  /\ Attack \in Nat /\ Decay \in Nat /\ Release \in Nat /\ Frame \in Nat /\ Short \in Nat
  /\ Short + 1 \in Nat
<1>1. DecayOnly \subseteq Type
  BY DEF DecayOnly, Type
<1>2. \A e \in GoodEvent, d \in Nat : ToPost(e, d) \in Op
  BY DEF ToPost, Op
<1>3. \A s \in State : ToRemove(s, Type) \in Op /\ ToRemove(s, DecayOnly) \in Op
  BY <1>1 DEF ToRemove, Op
<1>4. \A s \in State : DisposeOf(s) \in Op
  BY DEF DisposeOf, Op
<1>5. \A s \in State : ToDispose(s) = <<DisposeOf(s), ToRemove(s, Type)>>
  BY DEF ToDispose, DisposeOf
<1>6. \A s \in State, type \in Type \ {"API"} : Ev(type, s) \in GoodEvent
  BY DEF Ev, GoodEvent
<1>7. {"PLAY", "DECAY", "STOP", "END"} \subseteq Type \ {"API"} /\ ForAll \subseteq Type \ {"API"}
  BY DEF Type, ForAll
<1>8. /\ Attack \in Nat /\ Decay \in Nat /\ Release \in Nat /\ Frame \in Nat /\ Short \in Nat
      /\ Short + 1 \in Nat
  BY SndAssumption
<1> QED BY <1>2, <1>3, <1>4, <1>5, <1>6, <1>7, <1>8 DEF GoodEvent

\* One event or operation in hand.
InHand(type, s) ==
  /\ todo = <<>> \/ Doing("go on")
  /\ todo = <<>> => nextEvent = Ev(type, s)

\* HandleStop is one of the reactions, for each playing state of the sound,
LEMMA StopReacts ==
  ASSUME Types, NEW s \in State, NEW type \in {"STOP", "DEACTIVATE", "UNKNOWN_12"},
         InHand(type, s), HandleStop(type, s), UNCHANGED count
  PROVE  Reaction
<1>1. Plan(todo) /\ (todo = <<>> \/ Doing("go on")) /\ (todo = <<>> => nextEvent = Ev(type, s))
  BY DEF Types, QueueTypes, InHand
<1>2. PICK ops : ops = IF type # "UNKNOWN_12" \/ sound[s].looped THEN StopOps(s) ELSE <<>>
  OBVIOUS
<1>3. PICK g \in ForAll : g = IF type = "STOP" THEN "UNKNOWN_12" ELSE type
  BY DEF ForAll
<1>4. PICK x \in State \cup {NULL} : x = next[s]
  BY DEF Types, ListTypes, Links
<1>5. /\ Do(ops \o <<ToGoOn(g, x)>>)
      /\ sound' = IF /\ type # "UNKNOWN_12" \/ sound[s].looped
                     /\ sound[s].playingState = "PLAYING" /\ Release # 0
                  THEN [sound EXCEPT ![s].playingState = "STOPPING"] ELSE sound
  BY <1>2, <1>3, <1>4 DEF HandleStop
<1>6. For(s)
  <2>1. type \in Type \ {"API"}
    BY DEF Type
  <2> QED BY <1>1, <2>1 DEF For
<1>7. PICK a, b, d, c, l : /\ a = ToRemove(s, DecayOnly) /\ b = ToPost(Ev("END", s), Release)
                           /\ d = DisposeOf(s) /\ c = ToRemove(s, Type) /\ l = ToDispose(s)
  OBVIOUS
<1>8. Ev("END", s) \in GoodEvent /\ Release \in Nat
  BY OpsGood
<1>9. a \in Op /\ b \in Op /\ d \in Op /\ c \in Op /\ l = <<d, c>>
  BY <1>7, <1>8, OpsGood
<1>10. ASSUME NEW q, Rest(q) PROVE RemovePlan(Cons(c, q), s) /\ DisposePlan(Cons(d, Cons(c, q)), s)
  BY <1>7, <1>10 DEF RemovePlan, DisposePlan
<1>11. CASE type = "UNKNOWN_12" /\ ~sound[s].looped
  <2>1. ops = <<>> /\ sound' = sound
    BY <1>2, <1>5, <1>11
  <2>2. ops \in Seq(Op)
    BY <2>1, NothingToDo
  <2>3. PICK r : Rest(r) /\ todo' = ops \o r
    BY <1>1, <1>5, <2>2, ThenGoOn
  <2>4. todo' = r
    BY <2>1, <2>3, RestIs, JoinedEmpty
  <2>5. Ignored
    <3>1. ASSUME todo = <<>>, NEW y \in State, nextEvent \in Needs(y) PROVE FALSE
      <4>1. Ev("UNKNOWN_12", s) \in Needs(y)
        BY <1>1, <1>11, <3>1
      <4> QED BY <4>1, NeedsAre
    <3> QED BY <2>1, <2>3, <2>4, <3>1 DEF Ignored
  <2> QED BY <2>5 DEF Reaction
<1>12. CASE ~(type = "UNKNOWN_12" /\ ~sound[s].looped) /\ sound[s].playingState = "PLAYING"
  <2>1. ops = StopOps(s)
    BY <1>2, <1>12
  <2>2. CASE Release = 0
    <3>1. sound' = sound
      BY <1>5, <2>2
    <3>2. ops = <<a>> \o l
      BY <1>7, <1>12, <2>1, <2>2 DEF StopOps, DecayOnly
    <3>3. l \in Seq(Op) /\ <<a>> \in Seq(Op)
      <4>1. <<d, c>> \in Seq(Op)
        BY <1>9
      <4> QED BY <4>1, <1>9, Single
    <3>4. ops \in Seq(Op)
      BY <3>2, <3>3
    <3>5. PICK r : Rest(r) /\ todo' = ops \o r
      BY <1>1, <1>5, <3>4, ThenGoOn
    <3>6. r \in Seq(Op)
      BY <3>5, RestIs
    <3>7. PICK k : k = Cons(d, Cons(c, r))
      OBVIOUS
    <3>8. l \o r = k
      BY <1>9, <3>6, <3>7, Joined
    <3>9. k \in Seq(Op)
      BY <1>9, <3>6, <3>7, ConsIs
    <3>10. todo' = Cons(a, k)
      <4>1. PICK u, v \in Seq(Op) : u = <<a>> /\ v = l
        BY <3>3
      <4>2. Joins(ops, u, v) /\ Joins(todo', ops, r) /\ Joins(k, v, r)
        BY <3>2, <3>5, <3>8, <4>1 DEF Joins
      <4>3. Joins(todo', u, k)
        BY <4>1, <4>2, <3>6, JoinedTwice
      <4>4. <<a>> \o k = Cons(a, k)
        BY <1>9, <3>9, Joined
      <4> QED BY <4>1, <4>3, <4>4 DEF Joins
    <3>11. Cuts(s)
      BY <1>6, <1>7, <1>10, <1>12, <3>1, <3>5, <3>7, <3>10 DEF Cuts
    <3> QED BY <3>11 DEF Reaction
  <2>3. CASE Release # 0
    <3>1. sound' = [sound EXCEPT ![s].playingState = "STOPPING"]
      BY <1>5, <1>12, <2>3
    <3>2. ops = <<a>> \o <<b>>
      BY <1>7, <1>12, <2>1, <2>3 DEF StopOps, DecayOnly
    <3>3. PICK u, v \in Seq(Op) : u = <<a>> /\ v = <<b>>
      BY <1>9, Single
    <3>4. ops \in Seq(Op)
      BY <3>2, <3>3
    <3>5. PICK r : Rest(r) /\ todo' = ops \o r
      BY <1>1, <1>5, <3>4, ThenGoOn
    <3>6. r \in Seq(Op)
      BY <3>5, RestIs
    <3>7. PICK k : k = Cons(b, r)
      OBVIOUS
    <3>8. v \o r = k
      BY <1>9, <3>3, <3>6, <3>7, Joined
    <3>9. k \in Seq(Op)
      BY <1>9, <3>6, <3>7, ConsIs
    <3>10. todo' = Cons(a, k)
      <4>2. Joins(ops, u, v) /\ Joins(todo', ops, r) /\ Joins(k, v, r)
        BY <3>2, <3>3, <3>5, <3>8 DEF Joins
      <4>3. Joins(todo', u, k)
        BY <3>3, <4>2, <3>6, JoinedTwice
      <4>4. <<a>> \o k = Cons(a, k)
        BY <1>9, <3>9, Joined
      <4> QED BY <3>3, <4>3, <4>4 DEF Joins
    <3>11. Releases(s)
      BY <1>6, <1>7, <1>12, <3>1, <3>5, <3>7, <3>10 DEF Releases
    <3> QED BY <3>11 DEF Reaction
  <2> QED BY <2>2, <2>3
<1>13. CASE ~(type = "UNKNOWN_12" /\ ~sound[s].looped) /\ Waiting(s)
  <2>1. ops = l /\ sound' = sound
    BY <1>2, <1>5, <1>7, <1>13 DEF Waiting, StopOps
  <2>2. ops \in Seq(Op)
    <3>1. <<d, c>> \in Seq(Op)
      BY <1>9
    <3> QED BY <3>1, <2>1, <1>9
  <2>3. PICK r : Rest(r) /\ todo' = ops \o r
    BY <1>1, <1>5, <2>2, ThenGoOn
  <2>4. todo' = Cons(d, Cons(c, r))
    <3>1. r \in Seq(Op)
      BY <2>3, RestIs
    <3>2. <<d, c>> \o r = Cons(d, Cons(c, r))
      BY <3>1, <1>9, Joined
    <3> QED BY <3>2, <2>1, <2>3, <1>9
  <2>5. Disposes(s)
    BY <1>6, <1>10, <1>13, <2>1, <2>3, <2>4 DEF Disposes
  <2> QED BY <2>5 DEF Reaction
<1>14. CASE /\ ~(type = "UNKNOWN_12" /\ ~sound[s].looped)
            /\ sound[s].playingState # "PLAYING" /\ ~Waiting(s)
  <2>1. ops = <<>> /\ sound' = sound
    BY <1>2, <1>5, <1>14 DEF Waiting, StopOps
  <2>2. ops \in Seq(Op)
    BY <2>1, NothingToDo
  <2>3. PICK r : Rest(r) /\ todo' = ops \o r
    BY <1>1, <1>5, <2>2, ThenGoOn
  <2>4. todo' = r
    BY <2>1, <2>3, RestIs, JoinedEmpty
  <2>5. Ignored
    <3>1. ASSUME todo = <<>>, NEW y \in State, nextEvent \in Needs(y) PROVE FALSE
      <4>1. Ev(type, s) \in Needs(y)
        BY <1>1, <3>1
      <4>2. type # "PLAY" /\ type # "END"
        OBVIOUS
      <4> QED BY <4>1, <4>2, <1>14, NeedsAre
    <3> QED BY <2>1, <2>3, <2>4, <3>1 DEF Ignored
  <2> QED BY <2>5 DEF Reaction
<1> QED BY <1>11, <1>12, <1>13, <1>14

\* so HandlePart is one,
LEMMA PartReacts ==
  ASSUME Types, NEW s \in State, NEW type, InHand(type, s), HandlePart(type, s)
  PROVE  Reaction
<1>1. CASE type \in {"STOP", "DEACTIVATE", "UNKNOWN_12"} /\ HandleStop(type, s) /\ UNCHANGED count
  BY <1>1, StopReacts
<1>2. CASE type = "RELEASE" /\ Do(<<ToGoOn(type, next[s])>>) /\ UNCHANGED <<sound, count>>
  <2>1. PICK x \in State \cup {NULL} : x = next[s]
    BY DEF Types, ListTypes, Links
  <2>2. type \in ForAll
    BY <1>2 DEF ForAll
  <2>3. /\ Plan(todo) /\ (todo = <<>> \/ Doing("go on"))
        /\ todo = <<>> => nextEvent = Ev(type, s)
    BY DEF Types, QueueTypes, InHand
  <2>4. PICK o : o = ToGoOn(type, x)
    OBVIOUS
  <2>5. o \in Op
    BY <2>2, <2>4 DEF ToGoOn, Op, Ev
  <2>6. PICK ops \in Seq(Op), g \in Seq(Op) : ops = <<>> /\ g = <<o>>
    BY <2>5, Single, NothingToDo
  <2>7. ops \o g = g
    BY <2>6, JoinedEmpty
  <2>8. Do(ops \o <<ToGoOn(type, x)>>)
    BY <1>2, <2>1, <2>4, <2>6, <2>7
  <2>9. PICK r : Rest(r) /\ todo' = ops \o r
    BY <2>2, <2>3, <2>8, ThenGoOn
  <2>10. todo' = r
    BY <2>6, <2>9, RestIs, JoinedEmpty
  <2>11. Ignored
    <3>1. ASSUME todo = <<>>, NEW y \in State, nextEvent \in Needs(y) PROVE FALSE
      <4>1. Ev(type, s) \in Needs(y)
        BY <2>3, <3>1
      <4>2. type # "PLAY" /\ type # "END" /\ type \notin {"DECAY", "STOP"}
        BY <1>2
      <4> QED BY <4>1, <4>2, NeedsAre
    <3> QED BY <1>2, <2>9, <2>10, <3>1 DEF Ignored
  <2> QED BY <2>11 DEF Reaction
<1> QED BY <1>1, <1>2 DEF HandlePart

\* (disposing of the sound is the plan of a disposal)
LEMMA DisposesNext ==
  ASSUME Plan(todo), todo = <<>> \/ Doing("go on"), NEW s \in State, Do(ToDispose(s))
  PROVE  DisposePlan(todo', s)
<1>1. PICK d, c : d = DisposeOf(s) /\ c = ToRemove(s, Type)
  OBVIOUS
<1>2. d \in Op /\ c \in Op /\ ToDispose(s) = <<d, c>>
  BY <1>1, OpsGood
<1>3. PICK r : Rest(r) /\ todo' = Cons(d, Cons(c, r))
  BY <1>2, TwoOps
<1> QED BY <1>1, <1>3 DEF DisposePlan, RemovePlan

\* A sound that is cut off is one with a voice, that was reached from the last one.
LEMMA VictimsAre ==
  ASSUME Types, NEW v \in Victims
  PROVE  /\ v \in State /\ sound[v].playing /\ sound[v].playingState # "PREEMPT"
         /\ \E n \in 0 .. NumStates : v = Chain(prev, last)[n]
<1>1. PICK c : c = Chain(prev, last)
  OBVIOUS
<1>2. PICK n \in 0 .. (NumStates - 1) :
         v = c[n] /\ c[n] # NULL /\ sound[c[n]].playing /\ sound[c[n]].playingState # "PREEMPT"
  BY <1>1 DEF Victims
<1>3. n \in 0 .. NumStates
  BY Constants
<1>4. \A k \in 0 .. NumStates : c[k] \in State \cup {NULL}
  <2>1. prev \in Links /\ last \in State \cup {NULL}
    BY DEF Types, ListTypes
  <2>2. \A x \in State : prev[x] \in State \cup {NULL}
    BY <2>1 DEF Links
  <2>3. State \in SUBSET State
    OBVIOUS
  <2> QED BY <1>1, <2>1, <2>2, <2>3, ChainStays
<1> QED BY <1>1, <1>2, <1>3, <1>4

\* and HandleOne is one: play, wait, preempt or give up; decay; end.
LEMMA OneReacts ==
  ASSUME Types, NEW s \in State, NEW type, todo = <<>>, nextEvent = Ev(type, s),
         HandleOne(type, s)
  PROVE  Reaction
<1>1. Plan(todo) /\ sound \in [State -> SoundState]
  BY DEF Types, QueueTypes, SoundTypes
<1>2. CASE type = "PLAY" /\ HandlePlay(s)
  <2>1. For(s)
    BY <1>2, OpsGood DEF For
  <2>2. CASE ~Waiting(s)
    <3>1. Do(<<>>) /\ UNCHANGED <<sound, count>>
      BY <1>2, <2>2 DEF HandlePlay, Waiting
    <3>2. Rest(todo')
      BY <1>1, <3>1, NextOnly
    <3>3. Ignored
      <4>1. ASSUME NEW y \in State, nextEvent \in Needs(y) PROVE FALSE
        BY <4>1, <1>2, <2>2, NeedsAre
      <4> QED BY <3>1, <3>2, <4>1 DEF Ignored
    <3> QED BY <3>3 DEF Reaction
  <2>3. CASE Waiting(s)
    <3>1. \/ /\ sound' = [sound EXCEPT ![s].playing = TRUE, ![s].playingState = "PLAYING"]
             /\ count' = count + 1
             /\ Do(<<ToPost(Ev("DECAY", s), Attack)>>)
          \/ /\ sound' = [sound EXCEPT ![s].playingState = "WAIT_VOICE",
                                       ![s].unk38 = IF @ = 0 THEN 0 ELSE @ - 1]
             /\ Do(<<ToPost(Ev("PLAY", s), Frame)>>)
             /\ UNCHANGED count
          \/ /\ \E v \in Victims :
                  /\ sound' = [sound EXCEPT ![v].playingState = "PREEMPT", ![s].unk38 = Retries]
                  /\ Do(<<ToPost(Ev("END", v), Short), ToPost(Ev("PLAY", s), Short + 1)>>)
             /\ UNCHANGED count
          \/ Do(ToDispose(s)) /\ UNCHANGED <<sound, count>>
      BY <1>2, <2>3, Zenon DEF HandlePlay, Waiting
    <3>2. CASE /\ sound' = [sound EXCEPT ![s].playing = TRUE, ![s].playingState = "PLAYING"]
               /\ count' = count + 1
               /\ Do(<<ToPost(Ev("DECAY", s), Attack)>>)
      <4>1. ToPost(Ev("DECAY", s), Attack) \in Op
        BY OpsGood
      <4>2. \E r : Rest(r) /\ todo' = Cons(ToPost(Ev("DECAY", s), Attack), r)
        BY <1>1, <3>2, <4>1, OneOp
      <4>3. Plays(s)
        BY <2>1, <2>3, <3>2, <4>2 DEF Plays
      <4> QED BY <4>3 DEF Reaction
    <3>3. CASE /\ sound' = [sound EXCEPT ![s].playingState = "WAIT_VOICE",
                                         ![s].unk38 = IF @ = 0 THEN 0 ELSE @ - 1]
               /\ Do(<<ToPost(Ev("PLAY", s), Frame)>>)
               /\ UNCHANGED count
      <4>1. ToPost(Ev("PLAY", s), Frame) \in Op
        BY OpsGood
      <4>2. \E r : Rest(r) /\ todo' = Cons(ToPost(Ev("PLAY", s), Frame), r)
        BY <1>1, <3>3, <4>1, OneOp
      <4>3. Waits(s)
        BY <2>1, <2>3, <3>3, <4>2, Zenon DEF Waits
      <4> QED BY <4>3 DEF Reaction
    <3>4. ASSUME NEW v \in Victims,
                 sound' = [sound EXCEPT ![v].playingState = "PREEMPT", ![s].unk38 = Retries],
                 Do(<<ToPost(Ev("END", v), Short), ToPost(Ev("PLAY", s), Short + 1)>>),
                 UNCHANGED count
          PROVE  Reaction
      <4>1. v \in State
        BY VictimsAre
      <4>2. ToPost(Ev("END", v), Short) \in Op /\ ToPost(Ev("PLAY", s), Short + 1) \in Op
        BY <4>1, OpsGood
      <4>3. \E r : /\ Rest(r)
                   /\ todo' = Cons(ToPost(Ev("END", v), Short),
                                   Cons(ToPost(Ev("PLAY", s), Short + 1), r))
        BY <1>1, <3>4, <4>2, TwoOps
      <4>4. Preempts(s, v)
        BY <2>1, <2>3, <3>4, <4>3 DEF Preempts
      <4> QED BY <4>4 DEF Reaction
    <3>5. CASE Do(ToDispose(s)) /\ UNCHANGED <<sound, count>>
      <4>1. DisposePlan(todo', s)
        BY <1>1, <3>5, DisposesNext
      <4>2. Disposes(s)
        BY <2>1, <2>3, <3>5, <4>1 DEF Disposes
      <4> QED BY <4>2 DEF Reaction
    <3> HIDE DEF Reaction
    <3> QED BY <3>1, <3>2, <3>3, <3>4, <3>5
  <2> QED BY <2>2, <2>3
<1>3. CASE type = "DECAY" /\ HandleDecay(s) /\ UNCHANGED <<sound, count>>
  <2>1. For(s)
    BY <1>3, OpsGood DEF For
  <2>2. CASE sound[s].looped
    <3>1. Do(<<>>)
      BY <1>3, <2>2 DEF HandleDecay
    <3>2. Rest(todo')
      BY <1>1, <3>1, NextOnly
    <3>3. Ignored
      <4>1. ASSUME NEW y \in State, nextEvent \in Needs(y) PROVE Endless(y)
        <5>1. y = s /\ sound[y].playingState = "PLAYING"
          BY <4>1, <1>3, NeedsAre
        <5> QED BY <5>1, <2>2 DEF Endless
      <4> QED BY <1>3, <3>2, <4>1 DEF Ignored
    <3> QED BY <3>3 DEF Reaction
  <2>3. CASE ~sound[s].looped
    <3>1. Do(<<ToPost(Ev("STOP", s), Decay)>>)
      BY <1>3, <2>3 DEF HandleDecay
    <3>2. ToPost(Ev("STOP", s), Decay) \in Op
      BY OpsGood
    <3>3. \E r : Rest(r) /\ todo' = Cons(ToPost(Ev("STOP", s), Decay), r)
      BY <1>1, <3>1, <3>2, OneOp
    <3>4. Decays(s)
      BY <1>3, <2>1, <3>3 DEF Decays
    <3> QED BY <3>4 DEF Reaction
  <2> QED BY <2>2, <2>3
<1>4. CASE type = "END" /\ Do(ToDispose(s)) /\ UNCHANGED <<sound, count>>
  <2>1. For(s)
    BY <1>4, OpsGood DEF For
  <2>2. DisposePlan(todo', s)
    BY <1>1, <1>4, DisposesNext
  <2>3. Disposes(s)
    BY <1>4, <2>1, <2>2 DEF Disposes
  <2> QED BY <2>3 DEF Reaction
<1> QED BY <1>2, <1>3, <1>4 DEF HandleOne

\* All that an event or a continuation does is one of these cases.
LEMMA Reacts ==
  ASSUME Types, HandleEvent \/ GoOn
  PROVE  Reaction /\ Views(todo, {}, {}, {}, {}) /\ (todo = <<>> \/ Doing("go on"))
<1>1. Plan(todo) /\ nextEvent \in GoodEvent \cup {NoEvent}
  BY DEF Types, QueueTypes
<1>2. CASE HandleEvent
  <2>1. todo = <<>> /\ Views(todo, {}, {}, {}, {})
    BY <1>2, NothingToDo DEF HandleEvent
  <2>2. CASE nextEvent = Heartbeat /\ Do(<<ToPost(Heartbeat, Frame)>>) /\ UNCHANGED <<sound, count>>
    <3>1. ToPost(Heartbeat, Frame) \in Op
      BY OpsGood
    <3>2. \E r : Rest(r) /\ todo' = Cons(ToPost(Heartbeat, Frame), r)
      BY <1>1, <2>1, <2>2, <3>1, OneOp
    <3>3. Beats
      BY <2>1, <2>2, <3>2 DEF Beats
    <3> QED BY <2>1, <3>3 DEF Reaction
  <2>3. CASE nextEvent = NoEvent /\ Nothing
    <3>1. Rest(todo') /\ UNCHANGED <<sound, count>>
      BY <1>1, <2>1, <2>3, NextOnly DEF Nothing
    <3>2. Ignored
      BY <2>3, <3>1, NeedsAre DEF Ignored
    <3> QED BY <2>1, <3>2 DEF Reaction
  <2>4. CASE nextEvent \notin {Heartbeat, NoEvent} /\ Handle(nextEvent.type, nextEvent.state)
    <3>1. PICK s \in State, type \in Type : nextEvent = Ev(type, s)
      BY <1>1, <2>4 DEF GoodEvent, Ev
    <3>2. Handle(type, s)
      BY <2>4, <3>1 DEF Ev
    <3>3. CASE ~sound[s].set
      <4>1. Do(<<>>) /\ UNCHANGED <<sound, count>>
        BY <3>2, <3>3 DEF Handle, Nothing
      <4>2. Rest(todo')
        BY <1>1, <2>1, <4>1, NextOnly
      <4>3. Ignored
        <5>1. ASSUME NEW y \in State, nextEvent \in Needs(y) PROVE ~sound[y].set
          BY <5>1, <3>1, <3>3, NeedsAre
        <5> QED BY <4>1, <4>2, <5>1 DEF Ignored
      <4> QED BY <2>1, <4>3 DEF Reaction
    <3>4. CASE sound[s].set /\ type \in {"PLAY", "DECAY", "END"}
      <4>1. HandleOne(type, s)
        BY <3>2, <3>4 DEF Handle
      <4> QED BY <2>1, <3>1, <4>1, OneReacts
    <3>5. CASE sound[s].set /\ type \notin {"PLAY", "DECAY", "END"}
      <4>1. HandlePart(type, s)
        BY <3>2, <3>5 DEF Handle
      <4>2. InHand(type, s)
        BY <2>1, <3>1 DEF InHand
      <4> QED BY <2>1, <4>1, <4>2, PartReacts
    <3> QED BY <3>3, <3>4, <3>5
  <2> QED BY <1>2, <2>2, <2>3, <2>4 DEF HandleEvent
<1>3. CASE GoOn
  <2>1. Doing("go on") /\ todo # <<>>
    BY <1>3 DEF GoOn, Doing
  <2>2. PICK type \in ForAll, s \in State \cup {NULL} : todo = Cons(ToGoOn(type, s), <<ToGetNext>>)
    BY <1>1, <2>1, DoingRest
  <2>3. Views(todo, {}, {}, {}, {})
    BY <1>1, <2>1, DoingRest
  <2>4. PICK e : e = Head(todo).event
    OBVIOUS
  <2>5. e.state \in State \cup {NULL}
    <3>1. PICK q, o : q = <<ToGetNext>> /\ o = ToGoOn(type, s)
      OBVIOUS
    <3>2. Rest(q)
      BY <3>1 DEF Rest
    <3>3. q \in Seq(Op)
      BY <3>2, RestIs
    <3>4. o \in Op /\ o.event = Ev(type, s)
      BY <3>1 DEF ToGoOn, Op, Ev
    <3>5. Head(todo) = o
      BY <2>2, <3>1, <3>3, <3>4, ConsIs
    <3> QED BY <2>4, <3>4, <3>5 DEF Ev
  <2>6. CASE Nothing
    <3>1. Rest(todo') /\ UNCHANGED <<sound, count>>
      BY <1>1, <2>1, <2>6, NextOnly DEF Nothing
    <3>2. Ignored
      BY <2>1, <3>1 DEF Ignored
    <3> QED BY <2>1, <2>3, <3>2 DEF Reaction
  <2>7. CASE e.state # NULL /\ HandlePart(e.type, e.state)
    <3>1. InHand(e.type, e.state)
      BY <2>1 DEF InHand
    <3> QED BY <2>1, <2>3, <2>5, <2>7, <3>1, PartReacts
  <2> QED BY <1>3, <2>4, <2>6, <2>7 DEF GoOn
<1> QED BY <1>2, <1>3

\* What there is to do after it.
LEMMA PostsAfter ==
  ASSUME NEW e \in GoodEvent, NEW d \in Nat, NEW t, \E r : Rest(r) /\ t = Cons(ToPost(e, d), r)
  PROVE  Plan(t) /\ Views(t, {e}, {}, {}, {})
<1>1. PICK r : Rest(r) /\ t = Cons(ToPost(e, d), r)
  OBVIOUS
<1>2. PostPlan(t)
  BY <1>1 DEF PostPlan
<1>3. r \in Seq(Op) /\ Views(r, {}, {}, {}, {})
  BY <1>1, RestIs
<1>4. Views(t, {e} \cup {}, {}, {}, {})
  BY <1>1, <1>3, PostFirst
<1>5. {e} \cup {} = {e}
  OBVIOUS
<1> QED BY <1>2, <1>4, <1>5 DEF Plan

\* What each reaction leaves to do.
LEMMA ReactionViews ==
  ASSUME Types, Reaction
  PROVE  /\ Plan(todo') /\ todo' # <<>>
         /\ Ignored => Views(todo', {}, {}, {}, {})
         /\ Beats => Views(todo', {Heartbeat}, {}, {}, {})
         /\ \A s \in State :
              /\ Plays(s) => Views(todo', {Ev("DECAY", s)}, {}, {}, {})
              /\ Waits(s) => Views(todo', {Ev("PLAY", s)}, {}, {}, {})
              /\ \A v \in Victims :
                   Preempts(s, v) => Views(todo', {Ev("END", v), Ev("PLAY", s)}, {}, {}, {})
              /\ Disposes(s) => Views(todo', {}, {s}, {s}, {})
              /\ Decays(s) => Views(todo', {Ev("STOP", s)}, {}, {}, {})
              /\ Releases(s) => Views(todo', {Ev("END", s)}, {}, {}, {s})
              /\ Cuts(s) => Views(todo', {}, {s}, {s}, {s})
<1> DEFINE Left(p, d, r, c) == Plan(todo') /\ Views(todo', p, d, r, c)
<1>1. Ignored => Left({}, {}, {}, {})
  BY RestIs DEF Ignored, Plan
<1>2. Beats => Left({Heartbeat}, {}, {}, {})
  <2>1. Heartbeat \in GoodEvent /\ Frame \in Nat
    BY OpsGood
  <2> QED BY <2>1, PostsAfter DEF Beats
<1>3. ASSUME NEW s \in State
      PROVE  /\ Plays(s) => Left({Ev("DECAY", s)}, {}, {}, {})
             /\ Waits(s) => Left({Ev("PLAY", s)}, {}, {}, {})
             /\ Disposes(s) => Left({}, {s}, {s}, {})
             /\ Decays(s) => Left({Ev("STOP", s)}, {}, {}, {})
             /\ Releases(s) => Left({Ev("END", s)}, {}, {}, {s})
             /\ Cuts(s) => Left({}, {s}, {s}, {s})
  <2>1. /\ Ev("DECAY", s) \in GoodEvent /\ Ev("PLAY", s) \in GoodEvent
        /\ Ev("STOP", s) \in GoodEvent /\ Ev("END", s) \in GoodEvent
        /\ Attack \in Nat /\ Decay \in Nat /\ Release \in Nat /\ Frame \in Nat
    BY OpsGood
  <2>2. Plays(s) => Left({Ev("DECAY", s)}, {}, {}, {})
    BY <2>1, PostsAfter DEF Plays
  <2>3. Waits(s) => Left({Ev("PLAY", s)}, {}, {}, {})
    BY <2>1, PostsAfter DEF Waits
  <2>4. Decays(s) => Left({Ev("STOP", s)}, {}, {}, {})
    BY <2>1, PostsAfter DEF Decays
  <2>5. Disposes(s) => Left({}, {s}, {s}, {})
    <3> SUFFICES ASSUME DisposePlan(todo', s) PROVE Left({}, {s}, {s}, {})
      BY DEF Disposes
    <3> QED BY DisposePlanIs DEF Plan
  <2>6. ASSUME Releases(s) PROVE Left({Ev("END", s)}, {}, {}, {s})
    <3>1. PICK r : /\ Rest(r)
                   /\ todo' = Cons(ToRemove(s, DecayOnly), Cons(ToPost(Ev("END", s), Release), r))
      BY <2>6 DEF Releases
    <3>2. PICK k : k = Cons(ToPost(Ev("END", s), Release), r)
      OBVIOUS
    <3>3. CutPlan(todo', s)
      BY <3>1, <3>2 DEF CutPlan
    <3>4. PostPlan(k)
      BY <3>1, <3>2, <2>1 DEF PostPlan
    <3>5. k \in Seq(Op) /\ Views(k, {Ev("END", s)}, {}, {}, {})
      BY <2>1, <3>1, <3>2, PostsAfter, FirstOf
    <3>6. Views(todo', {Ev("END", s)}, {}, {}, {s} \cup {})
      BY <3>1, <3>2, <3>5, CutFirst
    <3>7. {s} \cup {} = {s}
      OBVIOUS
    <3> QED BY <3>3, <3>6, <3>7 DEF Plan
  <2>7. ASSUME Cuts(s) PROVE Left({}, {s}, {s}, {s})
    <3>1. PICK k : DisposePlan(k, s) /\ todo' = Cons(ToRemove(s, DecayOnly), k)
      BY <2>7 DEF Cuts
    <3>2. CutPlan(todo', s)
      BY <3>1 DEF CutPlan
    <3>3. k \in Seq(Op) /\ Views(k, {}, {s}, {s}, {})
      BY <3>1, DisposePlanIs DEF Ahead
    <3>4. Views(todo', {}, {s}, {s}, {s} \cup {})
      BY <3>1, <3>3, CutFirst
    <3>5. {s} \cup {} = {s}
      OBVIOUS
    <3> QED BY <3>2, <3>4, <3>5 DEF Plan
  <2> QED BY <2>2, <2>3, <2>4, <2>5, <2>6, <2>7
<1>4. ASSUME NEW s \in State, NEW v \in Victims, Preempts(s, v)
      PROVE  Left({Ev("END", v), Ev("PLAY", s)}, {}, {}, {})
  <2>1. v \in State
    BY VictimsAre
  <2>2. PICK e \in GoodEvent, f \in GoodEvent : e = Ev("END", v) /\ f = Ev("PLAY", s)
    BY <2>1, OpsGood
  <2>3. Short \in Nat /\ Short + 1 \in Nat
    BY OpsGood
  <2>4. PICK r : Rest(r) /\ todo' = Cons(ToPost(e, Short), Cons(ToPost(f, Short + 1), r))
    BY <1>4, <2>2 DEF Preempts
  <2>5. PICK k : k = Cons(ToPost(f, Short + 1), r)
    OBVIOUS
  <2>6. PostPlan(k)
    BY <2>3, <2>4, <2>5 DEF PostPlan
  <2>7. Plan(k) /\ Views(k, {f}, {}, {}, {})
    BY <2>3, <2>4, <2>5, PostsAfter
  <2>8. k \in Seq(Op)
    BY <2>7, FirstOf
  <2>9. PostsPlan(todo')
    BY <2>3, <2>4, <2>5, <2>6 DEF PostsPlan
  <2>10. Views(todo', {e} \cup {f}, {}, {}, {})
    BY <2>3, <2>4, <2>5, <2>7, <2>8, PostFirst
  <2>11. {e} \cup {f} = {e, f}
    OBVIOUS
  <2> QED BY <2>2, <2>9, <2>10, <2>11 DEF Plan
<1>5. Plan(todo')
  BY <1>1, <1>2, <1>3, <1>4 DEF Reaction
<1>6. todo' # <<>>
  <2>7. CASE todo' = <<>>
    <3>1. Views(todo', {}, {}, {}, {})
      BY <2>7, NothingToDo
    <3>3. Ignored
      <4>1. \A s \in State : /\ ~Plays(s) /\ ~Waits(s) /\ ~Disposes(s)
                             /\ ~Decays(s) /\ ~Releases(s) /\ ~Cuts(s)
        BY <1>3, <3>1 DEF Views
      <4>2. ~Beats
        BY <1>2, <3>1 DEF Views
      <4>3. \A s \in State, v \in Victims : ~Preempts(s, v)
        BY <1>4, <3>1 DEF Views
      <4> QED BY <4>1, <4>2, <4>3 DEF Reaction
    <3>4. Rest(todo')
      BY <3>3 DEF Ignored
    <3> QED BY <3>4, RestIs
  <2> QED BY <2>7
<1> QED BY <1>1, <1>2, <1>3, <1>4, <1>5, <1>6

-------------------------------------------------------------------------------
(* What the cases do to the sounds.                                        *)

\* One field of a sound is changed, or two.
LEMMA Playing ==
  ASSUME NEW t \in SoundState
  PROVE  /\ [t EXCEPT !.playing = TRUE, !.playingState = "PLAYING"] \in SoundState
         /\ [t EXCEPT !.playing = TRUE, !.playingState = "PLAYING"].set = t.set
         /\ [t EXCEPT !.playing = TRUE, !.playingState = "PLAYING"].owned = t.owned
         /\ [t EXCEPT !.playing = TRUE, !.playingState = "PLAYING"].looped = t.looped
         /\ [t EXCEPT !.playing = TRUE, !.playingState = "PLAYING"].playing
         /\ [t EXCEPT !.playing = TRUE, !.playingState = "PLAYING"].playingState = "PLAYING"
BY DEF SoundState

\* Setting the playing state of a sound leaves its other fields.
LEMMA StateSet ==
  ASSUME NEW t \in SoundState, NEW p \in {"STOPPING", "PREEMPT", "WAIT_VOICE"}
  PROVE  /\ [t EXCEPT !.playingState = p] \in SoundState
         /\ [t EXCEPT !.playingState = p].set = t.set
         /\ [t EXCEPT !.playingState = p].owned = t.owned
         /\ [t EXCEPT !.playingState = p].looped = t.looped
         /\ [t EXCEPT !.playingState = p].playing = t.playing
         /\ [t EXCEPT !.playingState = p].playingState = p
BY DEF SoundState

\* So does counting its retries.
LEMMA RetriesSet ==
  ASSUME NEW t \in SoundState, NEW k \in 0 .. Retries
  PROVE  /\ [t EXCEPT !.unk38 = k] \in SoundState
         /\ [t EXCEPT !.unk38 = k].set = t.set
         /\ [t EXCEPT !.unk38 = k].owned = t.owned
         /\ [t EXCEPT !.unk38 = k].looped = t.looped
         /\ [t EXCEPT !.unk38 = k].playing = t.playing
         /\ [t EXCEPT !.unk38 = k].playingState = t.playingState
BY DEF SoundState

\* All but what x is doing stays as it is.
Keeps(x) == /\ sound'[x].set = sound[x].set /\ sound'[x].owned = sound[x].owned
            /\ sound'[x].looped = sound[x].looped

\* The same of a state that still has, or still has not, a voice.
KeepsVoice(x) == Keeps(x) /\ sound'[x].playing = sound[x].playing

\* What a reaction does to the sounds: one gets its voice,
LEMMA PlaysSound ==
  ASSUME Types, NEW s \in State, Plays(s)
  PROVE  /\ sound' \in [State -> SoundState] /\ \A x \in State \ {s} : sound'[x] = sound[x]
         /\ Keeps(s) /\ sound'[s].playing /\ sound'[s].playingState = "PLAYING"
<1>1. sound \in [State -> SoundState]
  BY DEF Types, SoundTypes
<1>2. PICK t \in SoundState : t = sound[s]
  BY <1>1
<1>3. PICK u \in SoundState : u = [t EXCEPT !.playing = TRUE, !.playingState = "PLAYING"]
  BY Playing
<1>4. sound' = [sound EXCEPT ![s] = u]
  BY <1>1, <1>2, <1>3, Zenon DEF Plays
<1>5. /\ sound' \in [State -> SoundState]
      /\ (\A x \in State \ {s} : sound'[x] = sound[x]) /\ sound'[s] = u
  BY <1>1, <1>4
<1>6. Keeps(s)
  <2>1. /\ [t EXCEPT !.playing = TRUE, !.playingState = "PLAYING"].set = t.set
        /\ [t EXCEPT !.playing = TRUE, !.playingState = "PLAYING"].owned = t.owned
        /\ [t EXCEPT !.playing = TRUE, !.playingState = "PLAYING"].looped = t.looped
    BY Playing
  <2>2. u.set = t.set /\ u.owned = t.owned /\ u.looped = t.looped
    BY <2>1, <1>3, Zenon
  <2> QED BY <2>2, <1>2, <1>5 DEF Keeps
<1>7. u.playing /\ u.playingState = "PLAYING"
  <2>1. /\ [t EXCEPT !.playing = TRUE, !.playingState = "PLAYING"].playing
        /\ [t EXCEPT !.playing = TRUE, !.playingState = "PLAYING"].playingState = "PLAYING"
    BY Playing
  <2> QED BY <2>1, <1>3, Zenon
<1>8. sound'[s].playing /\ sound'[s].playingState = "PLAYING"
  BY <1>5, <1>7, Zenon
<1> QED BY <1>5, <1>6, <1>8

\* is released,
LEMMA ReleasesSound ==
  ASSUME Types, NEW s \in State, Releases(s)
  PROVE  /\ sound' \in [State -> SoundState] /\ \A x \in State \ {s} : sound'[x] = sound[x]
         /\ KeepsVoice(s) /\ sound'[s].playingState = "STOPPING"
<1>1. sound \in [State -> SoundState]
  BY DEF Types, SoundTypes
<1>2. PICK t \in SoundState : t = sound[s]
  BY <1>1
<1>3. PICK u \in SoundState : u = [t EXCEPT !.playingState = "STOPPING"]
  BY StateSet
<1>4. sound' = [sound EXCEPT ![s] = u]
  BY <1>1, <1>2, <1>3, Zenon DEF Releases
<1>5. /\ sound' \in [State -> SoundState]
      /\ (\A x \in State \ {s} : sound'[x] = sound[x]) /\ sound'[s] = u
  BY <1>1, <1>4
<1> QED BY <1>2, <1>3, <1>5, StateSet DEF Keeps, KeepsVoice

\* waits for a voice,
LEMMA WaitsSound ==
  ASSUME Types, NEW s \in State, Waits(s)
  PROVE  /\ sound' \in [State -> SoundState] /\ \A x \in State \ {s} : sound'[x] = sound[x]
         /\ KeepsVoice(s) /\ sound'[s].playingState = "WAIT_VOICE"
<1>1. sound \in [State -> SoundState]
  BY DEF Types, SoundTypes
<1>2. PICK t \in SoundState : t = sound[s]
  BY <1>1
<1>3. PICK w \in SoundState : w = [t EXCEPT !.playingState = "WAIT_VOICE"]
  BY StateSet
<1>4. PICK k \in 0 .. Retries : k = IF w.unk38 = 0 THEN 0 ELSE w.unk38 - 1
  <2>1. w.unk38 \in 0 .. Retries /\ Retries \in Nat
    BY SndAssumption DEF SoundState
  <2> QED BY <2>1
<1>5. PICK u \in SoundState : u = [w EXCEPT !.unk38 = k]
  BY RetriesSet
<1>6. sound' = [sound EXCEPT ![s] = u]
  <2>1. sound' = [sound EXCEPT ![s].playingState = "WAIT_VOICE",
                               ![s].unk38 = IF @ = 0 THEN 0 ELSE @ - 1]
    BY DEF Waits
  <2> QED BY <1>1, <1>2, <1>3, <1>4, <1>5, <2>1
<1>7. /\ sound' \in [State -> SoundState]
      /\ (\A x \in State \ {s} : sound'[x] = sound[x]) /\ sound'[s] = u
  BY <1>1, <1>6
<1>8. KeepsVoice(s)
  BY <1>2, <1>3, <1>5, <1>7, StateSet, RetriesSet DEF Keeps, KeepsVoice
<1>9. u.playingState = "WAIT_VOICE"
  BY <1>3, <1>5, StateSet, RetriesSet
<1> QED BY <1>7, <1>8, <1>9

\* or cuts another one off, and that one is changed besides.
LEMMA PreemptsSound ==
  ASSUME Types, NEW s \in State, NEW v \in Victims, Preempts(s, v)
  PROVE  /\ sound' \in [State -> SoundState] /\ \A x \in State \ {s, v} : sound'[x] = sound[x]
         /\ KeepsVoice(s) /\ KeepsVoice(v) /\ sound'[v].playingState = "PREEMPT"
         /\ s # v => sound'[s].playingState = sound[s].playingState
<1>1. sound \in [State -> SoundState] /\ v \in State
  BY VictimsAre DEF Types, SoundTypes
<1>2. PICK t \in SoundState, tt \in SoundState : t = sound[v] /\ tt = sound[s]
  BY <1>1
<1>3. PICK u \in SoundState : u = [t EXCEPT !.playingState = "PREEMPT"]
  BY StateSet
<1>4. PICK f : f = [sound EXCEPT ![v] = u]
  OBVIOUS
<1>5. f \in [State -> SoundState] /\ (\A x \in State \ {v} : f[x] = sound[x]) /\ f[v] = u
  BY <1>1, <1>4
<1>6. PICK w \in SoundState : w = f[s]
  BY <1>5
<1>7. Retries \in 0 .. Retries
  BY SndAssumption
<1>8. PICK z \in SoundState : z = [w EXCEPT !.unk38 = Retries]
  BY <1>7, RetriesSet
<1>9. sound' = [f EXCEPT ![s] = z]
  BY <1>1, <1>2, <1>3, <1>4, <1>6, <1>8, Zenon DEF Preempts
<1>10. /\ sound' \in [State -> SoundState]
       /\ (\A x \in State \ {s} : sound'[x] = f[x]) /\ sound'[s] = z
  BY <1>5, <1>9
<1>11. /\ z.set = w.set /\ z.owned = w.owned /\ z.looped = w.looped /\ z.playing = w.playing
       /\ z.playingState = w.playingState
  BY <1>7, <1>8, RetriesSet
<1>12. /\ u.set = t.set /\ u.owned = t.owned /\ u.looped = t.looped /\ u.playing = t.playing
       /\ u.playingState = "PREEMPT"
  BY <1>3, StateSet
<1>13. CASE s = v
  <2>1. w = u /\ sound'[v] = z
    BY <1>5, <1>6, <1>10, <1>13
  <2>2. KeepsVoice(v) /\ sound'[v].playingState = "PREEMPT"
    BY <1>2, <1>11, <1>12, <2>1 DEF Keeps, KeepsVoice
  <2> QED BY <1>5, <1>10, <1>13, <2>2
<1>14. CASE s # v
  <2>1. w = tt /\ sound'[v] = u /\ sound'[s] = z
    BY <1>1, <1>2, <1>5, <1>6, <1>10, <1>14
  <2>2. KeepsVoice(v) /\ sound'[v].playingState = "PREEMPT"
    BY <1>2, <1>12, <2>1 DEF Keeps, KeepsVoice
  <2>3. KeepsVoice(s) /\ sound'[s].playingState = sound[s].playingState
    BY <1>2, <1>11, <2>1 DEF Keeps, KeepsVoice
  <2> QED BY <1>5, <1>10, <2>2, <2>3
<1> QED BY <1>13, <1>14

-------------------------------------------------------------------------------
(* What the main thread's steps do to its own state.                       *)

\* sndSetupSound's look at the head of the free list.
LEMMA Looks ==
  ASSUME NEW m \in MainState, head \in State \cup {NULL}, Look(m)
  PROVE  /\ main' \in MainState
         /\ main'.pc = IF head # NULL THEN "take" ELSE "finish"
         /\ main'.item = head /\ main'.latest = m.latest /\ main'.parts = m.parts
         /\ main'.pending = m.pending
<1>1. CASE head # NULL
  <2>1. main' = [m EXCEPT !.pc = "take", !.item = head]
    BY <1>1 DEF Look
  <2> QED BY <1>1, <2>1 DEF MainState
<1>2. CASE head = NULL
  <2>1. main' = [m EXCEPT !.pc = "finish", !.item = NULL]
    BY <1>2 DEF Look
  <2> QED BY <1>2, <2>1 DEF MainState
<1> QED BY <1>1, <1>2

\* The main thread between two sounds.
LEMMA IdleIs == Idle \in MainState /\ Idle.pc = "idle" /\ Idle.latest = NULL
<1>1. PICK q \in Seq(Part) : q = <<>>
  <2>1. <<>> \in Seq(Part)
    OBVIOUS
  <2> QED BY <2>1
<1>2. Idle = [pc |-> "idle", item |-> NULL, latest |-> NULL, parts |-> q, pending |-> FALSE]
  BY <1>1 DEF Idle
<1> QED BY <1>2 DEF MainState

Begun(n, m, parts, p) == n = [m EXCEPT !.parts = parts, !.pending = p]
Turned(n, m, pc, s) == n = [m EXCEPT !.pc = pc, !.item = s]

\* The main thread with a sound to start,
LEMMA Begins ==
  ASSUME NEW m \in MainState, NEW parts \in Seq(Part), NEW p \in BOOLEAN,
         NEW n, Begun(n, m, parts, p)
  PROVE  n \in MainState /\ n.latest = m.latest /\ n.parts = parts /\ n.pending = p
BY DEF MainState, Begun

\* and with a sound to stop.
LEMMA BeginsWith ==
  ASSUME NEW m \in MainState, NEW pc \in {"deactivate", "DEACTIVATE", "RELEASE"}, NEW s \in State,
         NEW n, Turned(n, m, pc, s)
  PROVE  n \in MainState /\ n.pc = pc /\ n.item = s
BY DEF MainState, Turned

\* Where each action of the main thread leaves it: PlaySfx,
LEMMA PlaySfxMain ==
  ASSUME Types, PlaySfx
  PROVE  /\ MainTypes' /\ main'.pc \in {"take", "finish"} /\ main'.item = head
         /\ main'.latest = NULL /\ main'.pending = (handle = NULL)
<1>1. PICK parts \in Sounds : Look([Idle EXCEPT !.parts = parts, !.pending = (handle = NULL)])
  BY DEF PlaySfx
<1>2. parts \in Seq(Part) \ {<<>>}
  BY SndAssumption
<1>3. PICK p \in BOOLEAN : p = (handle = NULL)
  OBVIOUS
<1>8. PICK m : m = [Idle EXCEPT !.parts = parts, !.pending = p]
  OBVIOUS
<1>4. m \in MainState /\ m.latest = NULL /\ m.parts = parts /\ m.pending = p
  <2>1. PICK i \in MainState : i = Idle /\ i.latest = NULL
    BY IdleIs
  <2>2. parts \in Seq(Part)
    BY <1>2
  <2>3. Begun(m, i, parts, p)
    BY <2>1, <1>8 DEF Begun
  <2> QED BY <2>1, <2>2, <2>3, Begins
<1>5. Look(m)
  BY <1>1, <1>3, <1>8
<1>6. head \in State \cup {NULL}
  BY DEF Types, ListTypes
<1>7. /\ main' \in MainState /\ main'.pc = IF head # NULL THEN "take" ELSE "finish"
      /\ main'.item = head /\ main'.latest = NULL /\ main'.parts = parts /\ main'.pending = p
  BY <1>4, <1>5, <1>6, Looks
<1> QED BY <1>2, <1>3, <1>7 DEF MainTypes

\* LookAgain,
LEMMA LookAgainMain ==
  ASSUME Types, LookAgain
  PROVE  /\ MainTypes' /\ main'.pc \in {"take", "finish"} /\ main'.item = head
         /\ main'.latest = main.latest /\ main'.pending = main.pending
<1>1. main \in MainState /\ main.parts # <<>>
  BY DEF Types, MainTypes, LookAgain
<1>2. head \in State \cup {NULL}
  BY DEF Types, ListTypes
<1> QED BY <1>1, <1>2, Looks DEF MainTypes, LookAgain

\* Take,
LEMMA TakeMain ==
  ASSUME Types, Take
  PROVE  /\ MainTypes' /\ main'.pc = "fill" /\ main'.item = main.item
         /\ main'.latest = main.latest /\ main'.pending = main.pending
BY DEF Types, MainTypes, MainState, Take

\* Fill,
LEMMA FillMain ==
  ASSUME Types, Fill
  PROVE  /\ MainTypes' /\ main'.pc = "post" /\ main'.item = main.item
         /\ main'.latest = main.latest /\ main'.pending = main.pending
BY DEF Types, MainTypes, MainState, Fill

\* (the parts of a sound after the first)
LEMMA TailIs ==
  ASSUME NEW S, NEW l \in Seq(S), l # <<>>
  PROVE  Tail(l) \in Seq(S) /\ (Len(l) # 1 => Tail(l) # <<>>)
<1>1. Len(l) \in Nat /\ 1 <= Len(l)
  OBVIOUS
<1>2. Tail(l) \in Seq(S) /\ Len(Tail(l)) = Len(l) - 1
  BY <1>1
<1>3. Len(l) # 1 => Len(Tail(l)) # 0
  BY <1>1, <1>2
<1> QED BY <1>2, <1>3

\* PostPlay,
LEMMA PostPlayMain ==
  ASSUME Types, PostPlay
  PROVE  /\ MainTypes' /\ main'.pc \in {"finish", "read"}
         /\ main'.latest = main.item /\ main'.pending = main.pending
<1>1. main \in MainState /\ main.parts # <<>> /\ main.parts \in Seq(Part)
  BY DEF Types, MainTypes, MainState, PostPlay
<1>7. PICK l \in Seq(Part) : l = main.parts /\ l # <<>>
  BY <1>1
<1>2. PICK p \in {"finish", "read"} : p = IF Len(l) = 1 THEN "finish" ELSE "read"
  OBVIOUS
<1>3. PICK q : q = Tail(l)
  OBVIOUS
<1>8. q \in Seq(Part) /\ (p = "read" => q # <<>>)
  BY <1>2, <1>3, <1>7, TailIs
<1>4. main' = [main EXCEPT !.pc = p, !.latest = main.item, !.parts = q]
  BY <1>2, <1>3, <1>7 DEF PostPlay
<1>6. /\ main' \in MainState /\ main'.pc = p /\ main'.latest = main.item
      /\ main'.pending = main.pending /\ main'.parts = q
  BY <1>1, <1>4, <1>8 DEF MainState
<1> QED BY <1>6, <1>8 DEF MainTypes

\* and those after which no sound is being started.
LEMMA OtherMain ==
  ASSUME Types, Finish \/ Check \/ Walk \/ Deactivate \/ WalkStep
  PROVE  MainTypes' /\ main'.pc \in {"idle", "deactivate", "DEACTIVATE", "RELEASE"}
<1>1. CASE main' = Idle
  BY <1>1, IdleIs DEF MainTypes
<1>2. CASE Check
  <2>1. handle \in State /\ main' = [Idle EXCEPT !.pc = "deactivate", !.item = handle]
    BY <1>2 DEF Check, Types, SoundTypes
  <2>2. handle # NULL
    BY <2>1, Constants
  <2>3. PICK i \in MainState : i = Idle
    BY IdleIs
  <2>4. main' \in MainState /\ main'.pc = "deactivate" /\ main'.item = handle
    <3>1. Turned(main', i, "deactivate", handle)
      BY <2>1, <2>3 DEF Turned
    <3> QED BY <2>1, <3>1, BeginsWith
  <2> QED BY <2>2, <2>4 DEF MainTypes
<1>3. CASE Walk
  <2>1. PICK type \in {"DEACTIVATE", "RELEASE"} : main' = [Idle EXCEPT !.pc = type, !.item = first]
    BY <1>3 DEF Walk
  <2>2. first \in State
    BY <1>3 DEF Walk, Types, ListTypes
  <2>3. first # NULL
    BY <2>2, Constants
  <2>4. PICK i \in MainState : i = Idle
    BY IdleIs
  <2>5. main' \in MainState /\ main'.pc = type /\ main'.item = first
    <3>1. Turned(main', i, type, first)
      BY <2>1, <2>4 DEF Turned
    <3> QED BY <2>2, <3>1, BeginsWith
  <2> QED BY <2>1, <2>3, <2>5 DEF MainTypes
<1>4. CASE WalkStep /\ main' # Idle
  <2>1. PICK x : x = next[main.item]
    OBVIOUS
  <2>2. x # NULL /\ main' = [main EXCEPT !.item = x]
    BY <1>4, <2>1 DEF WalkStep
  <2>3. main \in MainState /\ main.item \in State /\ main.pc \in {"DEACTIVATE", "RELEASE"}
    BY <1>4 DEF Types, MainTypes, MainState, WalkStep, MaskFree
  <2>4. x \in State
    BY <2>1, <2>2, <2>3 DEF Types, ListTypes, Links
  <2> QED BY <2>2, <2>3, <2>4, Constants DEF MainTypes, MainState
<1> QED BY <1>1, <1>2, <1>3, <1>4 DEF Finish, Deactivate

-------------------------------------------------------------------------------
(* What the audio manager's other steps do to todo.                        *)

\* An operation is done: the others are left.
LEMMA Done ==
  ASSUME NEW o, NEW r, Ahead(todo, o, r), Do(<<>>)
  PROVE  todo' = r
<1>1. todo # <<>> /\ Tail(todo) = r /\ r \in Seq(Op)
  BY DEF Ahead
<1>2. todo' = <<>> \o r
  BY <1>1 DEF Do
<1> QED BY <1>1, <1>2, JoinedEmpty

\* The operations of the audio manager, with what they leave to do: PostEvent,
LEMMA PostEventIs ==
  ASSUME Types, PostEvent
  PROVE  \E e \in GoodEvent, d \in Nat, p \in SUBSET GoodEvent :
           /\ Post(e, d) /\ OnPlan(todo') /\ UNCHANGED nextEvent
           /\ Views(todo, {e} \cup p, {}, {}, {}) /\ Views(todo', p, {}, {}, {})
<1>1. Plan(todo) /\ Doing("post") /\ Do(<<>>) /\ Post(Head(todo).event, Head(todo).delay)
  BY DEF Types, QueueTypes, PostEvent
<1>2. PICK e \in GoodEvent, d \in Nat, p \in SUBSET GoodEvent : \E r :
        /\ Ahead(todo, ToPost(e, d), r) /\ OnPlan(r)
        /\ Views(todo, {e} \cup p, {}, {}, {}) /\ Views(r, p, {}, {}, {})
  BY <1>1, DoingPost
<1>3. PICK r : /\ Ahead(todo, ToPost(e, d), r) /\ OnPlan(r)
               /\ Views(todo, {e} \cup p, {}, {}, {}) /\ Views(r, p, {}, {}, {})
  BY <1>2
<1>4. todo' = r
  BY <1>1, <1>3, Done
<1>5. Head(todo).event = e /\ Head(todo).delay = d
  BY <1>3 DEF Ahead, ToPost
<1> QED BY <1>1, <1>3, <1>4, <1>5 DEF PostEvent

\* Dispose,
LEMMA DisposeIs ==
  ASSUME Types, Dispose
  PROVE  \E s \in State :
           /\ OnPlan(todo') /\ FreeState(s)
           /\ sound' = [sound EXCEPT ![s].playingState = "NONE", ![s].owned = FALSE]
           /\ count' = IF sound[s].playing THEN count - 1 ELSE count
           /\ handle' = IF sound[s].owned /\ handle = s THEN NULL ELSE handle
           /\ overlapped' = (overlapped \/ main.pc = "take" \/ ~MaskFree
                               \/ (Starting /\ s \in {main.item, main.latest}))
           /\ Views(todo, {}, {s}, {s}, {}) /\ Views(todo', {}, {}, {s}, {})
<1>1. Plan(todo) /\ Doing("dispose") /\ Do(<<>>)
  BY DEF Types, QueueTypes, Dispose
<1>2. PICK s \in State : \E r :
        /\ Ahead(todo, DisposeOf(s), r) /\ OnPlan(r)
        /\ Views(todo, {}, {s}, {s}, {}) /\ Views(r, {}, {}, {s}, {})
  BY <1>1, DoingDispose
<1>3. PICK r : /\ Ahead(todo, DisposeOf(s), r) /\ OnPlan(r)
               /\ Views(todo, {}, {s}, {s}, {}) /\ Views(r, {}, {}, {s}, {})
  BY <1>2
<1>4. todo' = r
  BY <1>1, <1>3, Done
<1>5. Head(todo).state = s
  BY <1>3 DEF Ahead, DisposeOf
<1>6. /\ FreeState(s)
      /\ sound' = [sound EXCEPT ![s].playingState = "NONE", ![s].owned = FALSE]
      /\ count' = IF sound[s].playing THEN count - 1 ELSE count
      /\ handle' = IF sound[s].owned /\ handle = s THEN NULL ELSE handle
      /\ overlapped' = (overlapped \/ main.pc = "take" \/ ~MaskFree
                          \/ (Starting /\ s \in {main.item, main.latest}))
  BY <1>5, Zenon DEF Dispose
<1>7. OnPlan(todo') /\ Views(todo, {}, {s}, {s}, {}) /\ Views(todo', {}, {}, {s}, {})
  BY <1>3, <1>4
<1> QED BY <1>6, <1>7, Zenon

\* The events of one state are removed, or the one of its decay.
RemovesAll(s) ==
  /\ events' = WithoutEvents(events, s, Type)
  /\ Views(todo, {}, {}, {s}, {}) /\ Views(todo', {}, {}, {}, {})
RemovesDecay(s) ==
  /\ events' = WithoutEvents(events, s, DecayOnly)
  /\ \/ Views(todo, {}, {s}, {s}, {s}) /\ Views(todo', {}, {s}, {s}, {})
     \/ Views(todo, {Ev("END", s)}, {}, {}, {s}) /\ Views(todo', {Ev("END", s)}, {}, {}, {})

\* RemoveEvents, for all events of a sound or for its decay event,
LEMMA RemoveIs ==
  ASSUME Types, RemoveEvents
  PROVE  OnPlan(todo') /\ \E s \in State : RemovesAll(s) \/ RemovesDecay(s)
<1>1. /\ Plan(todo) /\ Doing("remove") /\ Do(<<>>)
      /\ events' = WithoutEvents(events, Head(todo).state, Head(todo).types)
  BY DEF Types, QueueTypes, RemoveEvents
<1>2. PICK s \in State : \E r :
        \/ /\ Ahead(todo, ToRemove(s, Type), r) /\ OnPlan(r)
           /\ Views(todo, {}, {}, {s}, {}) /\ Views(r, {}, {}, {}, {})
        \/ /\ Ahead(todo, ToRemove(s, DecayOnly), r) /\ OnPlan(r)
           /\ Views(todo, {}, {s}, {s}, {s}) /\ Views(r, {}, {s}, {s}, {})
        \/ /\ Ahead(todo, ToRemove(s, DecayOnly), r) /\ OnPlan(r)
           /\ Views(todo, {Ev("END", s)}, {}, {}, {s}) /\ Views(r, {Ev("END", s)}, {}, {}, {})
  BY <1>1, DoingRemove
<1>3. PICK r :
        \/ /\ Ahead(todo, ToRemove(s, Type), r) /\ OnPlan(r)
           /\ Views(todo, {}, {}, {s}, {}) /\ Views(r, {}, {}, {}, {})
        \/ /\ Ahead(todo, ToRemove(s, DecayOnly), r) /\ OnPlan(r)
           /\ Views(todo, {}, {s}, {s}, {s}) /\ Views(r, {}, {s}, {s}, {})
        \/ /\ Ahead(todo, ToRemove(s, DecayOnly), r) /\ OnPlan(r)
           /\ Views(todo, {Ev("END", s)}, {}, {}, {s}) /\ Views(r, {Ev("END", s)}, {}, {}, {})
  BY <1>2
<1>4. todo' = r /\ OnPlan(r)
  BY <1>1, <1>3, Done
<1>5. CASE /\ Ahead(todo, ToRemove(s, Type), r)
           /\ Views(todo, {}, {}, {s}, {}) /\ Views(r, {}, {}, {}, {})
  <2>1. Head(todo).state = s /\ Head(todo).types = Type
    BY <1>5 DEF Ahead, ToRemove
  <2>2. RemovesAll(s)
    BY <1>1, <1>4, <1>5, <2>1 DEF RemovesAll
  <2> QED BY <1>4, <2>2
<1>6. CASE /\ Ahead(todo, ToRemove(s, DecayOnly), r)
           /\ \/ Views(todo, {}, {s}, {s}, {s}) /\ Views(r, {}, {s}, {s}, {})
              \/ Views(todo, {Ev("END", s)}, {}, {}, {s}) /\ Views(r, {Ev("END", s)}, {}, {}, {})
  <2>1. Head(todo).state = s /\ Head(todo).types = DecayOnly
    BY <1>6 DEF Ahead, ToRemove
  <2>2. RemovesDecay(s)
    BY <1>1, <1>4, <1>6, <2>1 DEF RemovesDecay
  <2> QED BY <1>4, <2>2
<1> QED BY <1>3, <1>5, <1>6

\* and GetNext.
LEMMA GetNextIs ==
  ASSUME Types, GetNext
  PROVE  /\ NextEvent /\ todo' = <<>> /\ Plan(todo')
         /\ Views(todo, {}, {}, {}, {}) /\ Views(todo', {}, {}, {}, {})
<1>1. Plan(todo) /\ Doing("next") /\ Do(<<>>) /\ NextEvent
  BY DEF Types, QueueTypes, GetNext
<1>2. Views(todo, {}, {}, {}, {}) /\ todo = <<ToGetNext>>
  BY <1>1, DoingRest
<1>3. PICK o : o = ToGetNext
  OBVIOUS
<1>4. o \in Op
  BY <1>3 DEF ToGetNext, Op
<1>5. Cons(o, <<>>) = <<o>>
  BY <1>4, NothingToDo, Joined DEF Cons
<1>6. Ahead(todo, o, <<>>)
  BY <1>2, <1>3, <1>4, <1>5, NothingToDo, ConsIs DEF Ahead
<1>7. todo' = <<>>
  BY <1>1, <1>6, Done
<1> QED BY <1>1, <1>2, <1>7, NothingToDo DEF Plan

-------------------------------------------------------------------------------
(* Type correctness.                                                       *)

\* Freeing a state keeps the types of the lists,
LEMMA FreeTypes ==
  ASSUME ListTypes, NEW s \in State, FreeState(s)
  PROVE  ListTypes'
<1>1. PICK n \in Links, p \in Links : n = next /\ p = prev
  BY DEF ListTypes
<1>2. \A x \in State : n[x] \in State \cup {NULL} /\ p[x] \in State \cup {NULL}
  BY DEF Links
<1>3. NextUnlinked(s) \in Links
  BY <1>1, <1>2 DEF NextUnlinked, Links
<1>4. PrevUnlinked(s) \in Links
  BY <1>1, <1>2 DEF PrevUnlinked, Links
<1>5. head \in State \cup {NULL} /\ first \in State \cup {NULL} /\ last \in State \cup {NULL}
  BY DEF ListTypes
<1>6. next' \in Links
  <2>1. next' = [NextUnlinked(s) EXCEPT ![s] = head]
    BY DEF FreeState
  <2> QED BY <2>1, <1>3, <1>5 DEF Links
<1>7. prev' \in Links
  <2>1. prev' = (IF head = NULL THEN [PrevUnlinked(s) EXCEPT ![s] = NULL]
                 ELSE [PrevUnlinked(s) EXCEPT ![s] = NULL, ![head] = s])
    BY DEF FreeState
  <2>2. PICK f \in Links : f = [PrevUnlinked(s) EXCEPT ![s] = NULL]
    BY <1>4 DEF Links
  <2>3. prev' = IF head = NULL THEN f ELSE [f EXCEPT ![head] = s]
    BY <2>1, <2>2
  <2> QED BY <2>3, <1>5 DEF Links
<1>8. /\ head' \in State \cup {NULL} /\ first' \in State \cup {NULL} /\ last' \in State \cup {NULL}
  BY <1>1, <1>2, <1>5 DEF FreeState, LastWithout
<1> QED BY <1>6, <1>7, <1>8 DEF ListTypes

\* and so does taking one.
LEMMA TakeTypes ==
  ASSUME ListTypes, NEW s \in State, TakeState(s)
  PROVE  ListTypes'
<1>1. PICK n \in Links, p \in Links : n = next /\ p = prev
  BY DEF ListTypes
<1>2. \A x \in State : n[x] \in State \cup {NULL} /\ p[x] \in State \cup {NULL}
  BY DEF Links
<1>3. NextUnlinked(s) \in Links
  BY <1>1, <1>2 DEF NextUnlinked, Links
<1>4. PrevUnlinked(s) \in Links
  BY <1>1, <1>2 DEF PrevUnlinked, Links
<1>5. head \in State \cup {NULL} /\ first \in State \cup {NULL} /\ last \in State \cup {NULL}
  BY DEF ListTypes
<1>6. head' \in State \cup {NULL}
  BY <1>1, <1>2 DEF TakeState
<1>7. PICK f \in Links : f = [PrevUnlinked(s) EXCEPT ![s] = NULL]
  BY <1>4 DEF Links
<1>8. CASE first # NULL
  <2>1. /\ next' = [NextUnlinked(s) EXCEPT ![s] = first]
        /\ prev' = [f EXCEPT ![first] = s] /\ first' = s /\ last' = last
    BY <1>7, <1>8 DEF TakeState
  <2>2. next' \in Links /\ prev' \in Links
    BY <2>1, <1>3, <1>5, <1>8 DEF Links
  <2> QED BY <2>1, <2>2, <1>5, <1>6 DEF ListTypes
<1>9. CASE first = NULL
  <2>1. /\ next' = [NextUnlinked(s) EXCEPT ![s] = NULL]
        /\ prev' = f /\ first' = s /\ last' = s
    BY <1>7, <1>9 DEF TakeState
  <2>2. next' \in Links /\ prev' \in Links
    BY <2>1, <1>3, <1>7 DEF Links
  <2> QED BY <2>1, <2>2, <1>6 DEF ListTypes
<1> QED BY <1>8, <1>9

\* The types hold at first,
LEMMA TypesInit ==
  ASSUME Init
  PROVE  Types
<1>1. QueueTypes
  <2>1. events = <<>> /\ nextEvent = Heartbeat /\ todo = <<>> /\ dropped = FALSE
    BY DEF Init
  <2>2. events \in Seq(Item) /\ Len(events) = 0
    <3>1. <<>> \in Seq(Item) /\ Len(<<>>) = 0
      OBVIOUS
    <3> QED BY <2>1, <3>1
  <2>3. EventSet(events) = {}
    BY <2>1 DEF EventSet
  <2>4. QueueOK
    BY <2>2, <2>3, Constants DEF QueueOK
  <2>5. Plan(todo) /\ nextEvent \in GoodEvent /\ dropped \in BOOLEAN
    BY <2>1, OpsGood DEF Plan
  <2> QED BY <2>4, <2>5 DEF QueueTypes
<1>2. ListTypes
  BY Constants DEF Init, ListTypes, Links, NULL, State
<1>3. SoundTypes
  <2>1. 0 \in 0 .. Retries
    BY SndAssumption
  <2>2. Silent \in SoundState
    BY <2>1 DEF Silent, SoundState
  <2> QED BY <2>2 DEF Init, SoundTypes
<1>4. MainTypes
  BY IdleIs DEF Init, MainTypes
<1> QED BY <1>1, <1>2, <1>3, <1>4 DEF Types, Init

\* and each action keeps them: HandleEvent and GoOn,
LEMMA ReactionTypes ==
  ASSUME Types, HandleEvent \/ GoOn
  PROVE  Types'
<1>1. Reaction
  BY Reacts
<1>2. Plan(todo')
  BY <1>1, ReactionViews
<1>3. sound' \in [State -> SoundState] /\ count' \in Int
  <2>1. sound \in [State -> SoundState] /\ count \in Int
    BY DEF Types, SoundTypes
  <2>2. CASE Ignored \/ Beats
    BY <2>1, <2>2 DEF Ignored, Beats
  <2>3. ASSUME NEW s \in State, Plays(s) PROVE sound' \in [State -> SoundState] /\ count' \in Int
    <3>1. count' = count + 1
      BY <2>3 DEF Plays
    <3>2. sound' \in [State -> SoundState]
      BY <2>3, PlaysSound
    <3> QED BY <2>1, <3>1, <3>2
  <2>4. ASSUME NEW s \in State, Waits(s) PROVE sound' \in [State -> SoundState] /\ count' \in Int
    BY <2>1, <2>4, WaitsSound DEF Waits
  <2>5. ASSUME NEW s \in State, Releases(s) PROVE sound' \in [State -> SoundState] /\ count' \in Int
    BY <2>1, <2>5, ReleasesSound DEF Releases
  <2>6. ASSUME NEW s \in State, NEW v \in Victims, Preempts(s, v)
        PROVE  sound' \in [State -> SoundState] /\ count' \in Int
    BY <2>1, <2>6, PreemptsSound DEF Preempts
  <2>7. ASSUME NEW s \in State, Disposes(s) \/ Decays(s) \/ Cuts(s)
        PROVE  sound' \in [State -> SoundState] /\ count' \in Int
    BY <2>1, <2>7 DEF Disposes, Decays, Cuts
  <2> QED BY <1>1, <2>2, <2>3, <2>4, <2>5, <2>6, <2>7 DEF Reaction
<1>4. UNCHANGED <<queue, lists, handle, main, dropped>>
  BY DEF HandleEvent, GoOn
<1>5. overlapped' \in BOOLEAN
  BY DEF HandleEvent, GoOn, Types
<1>6. QueueTypes'
  BY <1>2, <1>4 DEF Types, QueueTypes, QueueOK, queue, EventSet
<1>7. ListTypes' /\ MainTypes'
  BY <1>4 DEF Types, ListTypes, MainTypes, lists
<1>8. SoundTypes'
  BY <1>3, <1>4 DEF Types, SoundTypes
<1> QED BY <1>5, <1>6, <1>7, <1>8 DEF Types

\* the actions of the main thread,
LEMMA GameTypes ==
  ASSUME Types, Game
  PROVE  Types'
<1>1. QueueTypes /\ ListTypes /\ SoundTypes /\ MainTypes /\ overlapped \in BOOLEAN
  BY DEF Types
<1>2. MainTypes'
  BY PlaySfxMain, LookAgainMain, TakeMain, FillMain, PostPlayMain, OtherMain DEF Game
<1>3. QueueTypes'
  <2>1. UNCHANGED <<nextEvent, todo>>
    BY DEF Game, PlaySfx, LookAgain, Take, Fill, PostPlay, Finish, Check, Deactivate, Walk,
           WalkStep, queue
  <2>2. CASE UNCHANGED <<events, dropped>>
    BY <1>1, <2>1, <2>2 DEF QueueTypes, QueueOK, EventSet
  <2>3. ASSUME NEW e \in GoodEvent, NEW d \in Nat, Post(e, d) PROVE QueueTypes'
    <3>1. QueueOK' /\ dropped' \in BOOLEAN
      BY <1>1, <2>3, PostHas DEF QueueTypes
    <3> QED BY <1>1, <2>1, <3>1 DEF QueueTypes
  <2>4. CASE PostPlay
    <3>1. main.item \in State /\ main.parts \in Seq(Part) /\ main.parts # <<>>
      BY <1>1, <2>4 DEF PostPlay, MainTypes, MainState
    <3>2. PICK l \in Seq(Part) : l = main.parts /\ l # <<>>
      BY <3>1
    <3>3. Head(l) \in Part
      BY <3>2
    <3>4. Head(main.parts).delay * Frame + 1 \in Nat
      BY <3>2, <3>3, SndAssumption DEF Part
    <3>5. Ev("PLAY", main.item) \in GoodEvent
      BY <3>1, OpsGood
    <3> QED BY <2>3, <2>4, <3>4, <3>5 DEF PostPlay
  <2>5. CASE Deactivate
    <3>1. main.item \in State
      BY <1>1, <2>5 DEF Deactivate, MainTypes, MainState
    <3>2. Ev("DEACTIVATE", main.item) \in GoodEvent
      BY <3>1, OpsGood DEF ForAll
    <3> QED BY <2>3, <2>5, <3>2 DEF Deactivate
  <2>6. CASE WalkStep
    <3>1. main.item \in State /\ main.pc \in {"DEACTIVATE", "RELEASE"}
      BY <1>1, <2>6 DEF WalkStep, MaskFree, MainTypes, MainState
    <3>2. Ev(main.pc, main.item) \in GoodEvent
      BY <3>1, OpsGood DEF ForAll
    <3> QED BY <2>2, <2>3, <2>6, <3>2 DEF WalkStep
  <2> QED BY <2>2, <2>4, <2>5, <2>6
        DEF Game, PlaySfx, LookAgain, Take, Fill, Finish, Check, Walk, queue
<1>4. ListTypes'
  <2>1. CASE Take
    <3>1. main.item \in State
      BY <1>1, <2>1 DEF Take, MainTypes, MainState
    <3> QED BY <1>1, <2>1, <3>1, TakeTypes DEF Take
  <2>2. CASE UNCHANGED lists
    BY <1>1, <2>2 DEF ListTypes, lists
  <2> QED BY <2>1, <2>2
        DEF Game, PlaySfx, LookAgain, Fill, PostPlay, Finish, Check, Deactivate, Walk, WalkStep
<1>5. SoundTypes'
  <2>1. CASE Fill
    <3>1. main.parts \in Seq(Part) /\ main.parts # <<>> /\ main.item \in State
      BY <1>1, <2>1 DEF Fill, MainTypes, MainState
    <3>2. PICK l \in Seq(Part) : l = main.parts /\ l # <<>>
      BY <3>1
    <3>3. Head(l) \in Part
      BY <3>2
    <3>4. PICK b \in BOOLEAN : b = Head(main.parts).looped
      BY <3>2, <3>3 DEF Part
    <3>5. Retries \in 0 .. Retries
      BY SndAssumption
    <3>6. [Silent EXCEPT !.set = TRUE, !.playingState = "INIT", !.unk38 = Retries, !.looped = b]
             \in SoundState
      BY <3>5 DEF Silent, SoundState
    <3>7. sound' \in [State -> SoundState]
      BY <1>1, <2>1, <3>4, <3>6 DEF Fill, SoundTypes
    <3> QED BY <1>1, <2>1, <3>7 DEF Fill, SoundTypes
  <2>2. CASE Finish
    <3>1. main.latest \in State \cup {NULL} /\ main.pending \in BOOLEAN
      BY <1>1 DEF MainTypes, MainState
    <3>2. sound' \in [State -> SoundState]
      <4>1. ASSUME NEW t \in SoundState, NEW b \in BOOLEAN
            PROVE  [t EXCEPT !.final = TRUE, !.owned = b] \in SoundState
        BY <4>1 DEF SoundState
      <4>2. CASE main.latest = NULL
        BY <1>1, <2>2, <4>2 DEF Finish, SoundTypes
      <4>3. CASE main.latest # NULL
        <5>1. PICK x \in State, b \in BOOLEAN : x = main.latest /\ b = main.pending
          BY <3>1, <4>3
        <5>2. PICK t \in SoundState : t = sound[x]
          BY <1>1 DEF SoundTypes
        <5>3. PICK u \in SoundState : u = [t EXCEPT !.final = TRUE, !.owned = b]
          BY <4>1
        <5>4. sound' = [sound EXCEPT ![x] = u]
          BY <1>1, <2>2, <4>3, <5>1, <5>2, <5>3, Zenon DEF Finish, SoundTypes
        <5> QED BY <1>1, <5>4 DEF SoundTypes
      <4> QED BY <4>2, <4>3
    <3> QED BY <1>1, <2>2, <3>1, <3>2 DEF Finish, SoundTypes
  <2>3. CASE UNCHANGED <<sound, count, handle>>
    BY <1>1, <2>3 DEF SoundTypes
  <2> QED BY <2>1, <2>2, <2>3
        DEF Game, PlaySfx, LookAgain, Take, PostPlay, Check, Deactivate, Walk, WalkStep
<1>6. overlapped' \in BOOLEAN
  BY <1>1 DEF Game, PlaySfx, LookAgain, Take, Fill, PostPlay, Finish, Check, Deactivate, Walk,
              WalkStep
<1> QED BY <1>2, <1>3, <1>4, <1>5, <1>6 DEF Types

\* (a sound that is disposed of)
LEMMA DisposeSound ==
  ASSUME sound \in [State -> SoundState], NEW s \in State,
         sound' = [sound EXCEPT ![s].playingState = "NONE", ![s].owned = FALSE]
  PROVE  /\ sound' \in [State -> SoundState] /\ \A x \in State \ {s} : sound'[x] = sound[x]
         /\ sound'[s].playingState = "NONE"
<1>1. ASSUME NEW t \in SoundState
      PROVE  /\ [t EXCEPT !.playingState = "NONE", !.owned = FALSE] \in SoundState
             /\ [t EXCEPT !.playingState = "NONE", !.owned = FALSE].playingState = "NONE"
  BY <1>1 DEF SoundState
<1>2. PICK t \in SoundState : t = sound[s]
  OBVIOUS
<1>3. PICK u : u = [t EXCEPT !.playingState = "NONE", !.owned = FALSE]
  OBVIOUS
<1>4. u \in SoundState /\ u.playingState = "NONE"
  BY <1>1, <1>3, Zenon
<1>5. sound' = [sound EXCEPT ![s] = u]
  BY <1>2, <1>3, Zenon
<1> QED BY <1>4, <1>5

\* and those of the audio manager.
LEMMA AudioTypes ==
  ASSUME Types, Audio
  PROVE  Types'
<1>1. QueueTypes /\ ListTypes /\ SoundTypes /\ MainTypes /\ overlapped \in BOOLEAN
  BY DEF Types
<1>2. CASE HandleEvent \/ GoOn
  BY <1>2, ReactionTypes
<1>3. CASE PostEvent
  <2>1. PICK e \in GoodEvent, d \in Nat, p \in SUBSET GoodEvent : Post(e, d) /\ OnPlan(todo')
    BY <1>3, PostEventIs
  <2>2. QueueTypes'
    BY <1>1, <1>3, <2>1, PostHas DEF QueueTypes, PostEvent, OnPlan
  <2> QED BY <1>1, <1>3, <2>2 DEF PostEvent, Types, ListTypes, SoundTypes, MainTypes, lists
<1>4. CASE Dispose
  <2>1. PICK s \in State :
          /\ OnPlan(todo') /\ FreeState(s)
          /\ sound' = [sound EXCEPT ![s].playingState = "NONE", ![s].owned = FALSE]
          /\ count' = IF sound[s].playing THEN count - 1 ELSE count
          /\ handle' = IF sound[s].owned /\ handle = s THEN NULL ELSE handle
          /\ overlapped' = (overlapped \/ main.pc = "take" \/ ~MaskFree
                               \/ (Starting /\ s \in {main.item, main.latest}))
    BY <1>4, DisposeIs
  <2>2. sound' \in [State -> SoundState]
    BY <1>1, <2>1, DisposeSound DEF SoundTypes
  <2>3. SoundTypes'
    <3>1. count' \in Int
      BY <1>1, <2>1 DEF SoundTypes
    <3>2. handle' \in State \cup {NULL}
      BY <1>1, <2>1 DEF SoundTypes
    <3> QED BY <2>2, <3>1, <3>2 DEF SoundTypes
  <2>4. ListTypes'
    BY <1>1, <2>1, FreeTypes
  <2>5. QueueTypes' /\ MainTypes'
    BY <1>1, <1>4, <2>1 DEF Dispose, OnPlan, QueueTypes, QueueOK, EventSet, MainTypes, queue
  <2>6. overlapped' \in BOOLEAN
    BY <2>1
  <2> QED BY <2>3, <2>4, <2>5, <2>6 DEF Types
<1>5. CASE RemoveEvents
  <2>1. OnPlan(todo') /\ \E s \in State : RemovesAll(s) \/ RemovesDecay(s)
    BY <1>5, RemoveIs
  <2>2. PICK s \in State, types \in {Type, DecayOnly} : events' = WithoutEvents(events, s, types)
    BY <2>1 DEF RemovesAll, RemovesDecay
  <2>3. /\ events' \in Seq(Item) /\ Len(events') <= Len(events)
        /\ EventSet(events') \subseteq EventSet(events)
    BY <1>1, <2>2, WithoutHas DEF QueueTypes, QueueOK
  <2>4. QueueOK'
    <3>1. /\ Len(events) \in Nat /\ Len(events') \in Nat
          /\ Len(events) <= MaxEvents /\ MaxEvents \in Nat
      BY <1>1, <2>3, Constants DEF QueueTypes, QueueOK
    <3>2. EventSet(events') = EventSet(events)'
      BY DEF EventSet
    <3> QED BY <1>1, <2>3, <3>1, <3>2 DEF QueueTypes, QueueOK
  <2> QED BY <1>1, <1>5, <2>1, <2>4
          DEF RemoveEvents, OnPlan, Types, QueueTypes, ListTypes, SoundTypes, MainTypes, lists
<1>6. CASE GetNext
  <2>1. NextEvent /\ Plan(todo')
    BY <1>6, GetNextIs
  <2>2. QueueTypes'
    BY <1>1, <1>6, <2>1, NextHas DEF QueueTypes, GetNext
  <2> QED BY <1>1, <1>6, <2>2 DEF GetNext, Types, ListTypes, SoundTypes, MainTypes, lists
<1> QED BY <1>2, <1>3, <1>4, <1>5, <1>6 DEF Audio

\* Nothing changes: the types hold.
LEMMA TypesStill ==
  ASSUME Types, UNCHANGED vars
  PROVE  Types'
<1>1. QueueTypes'
  BY DEF Types, QueueTypes, QueueOK, EventSet, vars, queue
<1>2. ListTypes'
  BY DEF Types, ListTypes, vars, lists
<1>3. SoundTypes' /\ MainTypes' /\ overlapped' \in BOOLEAN
  BY DEF Types, SoundTypes, MainTypes, vars
<1> QED BY <1>1, <1>2, <1>3 DEF Types

\* The player's types hold: the queue has only events that the player makes and no
\* more than its items, what there is left to do for one event has one of a few forms, and
\* the links, the sounds and the main thread's place are as declared.
THEOREM TypesInvariant == Spec => []Types
<1>1. Init => Types
  BY TypesInit
<1>2. Types /\ [Next]_vars => Types'
  BY GameTypes, AudioTypes, TypesStill DEF Next
<1> QED BY <1>1, <1>2, PTL DEF Spec

\* The types of this module imply the type invariant of SndPlayer.
LEMMA TypesGiveTypeOK ==
  ASSUME Types
  PROVE  TypeOK
<1>1. events \in Seq([event : Event, delta : Nat]) /\ Len(events) <= MaxEvents
  BY DEF Types, QueueTypes, QueueOK, Item
<1>2. nextEvent \in Event \cup {NoEvent}
  BY GoodEvents DEF Types, QueueTypes
<1>3. /\ {next, prev} \subseteq [State -> State \cup {NULL}]
      /\ {head, first, last, handle, main.item, main.latest} \subseteq State \cup {NULL}
  BY DEF Types, ListTypes, SoundTypes, MainTypes, MainState, Links
<1>4. /\ sound \in [State -> SoundState] /\ count \in Int
      /\ overlapped \in BOOLEAN /\ dropped \in BOOLEAN
  BY DEF Types, SoundTypes, QueueTypes
<1> QED BY <1>1, <1>2, <1>3, <1>4 DEF TypeOK, SoundState

\* snd.c's state is what its declarations say; the event queue holds at most its items.
THEOREM TypeCorrect == Spec => []TypeOK
BY TypesInvariant, TypesGiveTypeOK, PTL

-------------------------------------------------------------------------------
(* The invariant.  As long as no sound was disposed of in the middle of a  *)
(* start or a walk, the two lists hold the states they are to hold.        *)

Filling(s) == main.pc = "fill" /\ s = main.item
Used == {s \in State : Live(s) \/ Filling(s)}
Voices == {s \in State : Live(s) /\ sound[s].playing}

\* Events that are to come, or that the audio manager has in hand.
Coming == EventSet(events) \cup Posts(todo) \cup (IF todo = <<>> THEN {nextEvent} ELSE {})

\* The state that the main thread found is free until it has filled it.
Starts ==
  /\ main.pc = "take" => main.item = head
  /\ main.pc = "fill" => ~Live(main.item)
  /\ main.pc = "post" => Live(main.item) /\ main.item # main.latest
  /\ Starting /\ main.latest # NULL => Live(main.latest)
  /\ Starting /\ main.pending => handle = NULL
  /\ Starting /\ handle # NULL =>
       handle # main.latest /\ (main.pc = "post" => handle # main.item)

Accounts ==
  /\ \A s \in State : Live(s) => sound[s].set
  /\ \A s \in State : Waiting(s) => ~sound[s].playing
  /\ count = Cardinality(Voices)
  /\ handle # NULL => Live(handle) /\ sound[handle].owned

\* Only sounds in use are disposed of, and an end is not for one that was.
Ends ==
  /\ \A s \in State : Ev("END", s) \in Coming => Live(s) \/ s \in Removals(todo)
  /\ \A s \in State : s \in Disposals(todo) => Live(s)
  /\ \A s \in State : s \in Removals(todo) => s \in Disposals(todo) \/ (~Live(s) /\ ~Filling(s))

\* Each sound in use has an event to come that it needs, as long as none was refused.
HasEvent ==
  \A s \in State :
    \/ ~Live(s) \/ s \in Disposals(todo) \/ Endless(s)
    \/ main.pc = "post" /\ s = main.item /\ Waiting(s)
    \/ \E e \in Needs(s) : e \in Coming

DecayGone ==
  \A s \in State :
    s \in Cutoffs(todo) => s \in Disposals(todo) \/ sound[s].playingState = "STOPPING"

Held == Lists(Used) /\ Starts /\ Accounts /\ Ends
Promised == HasEvent /\ DecayGone

Inv == Types /\ (~overlapped => Held /\ (~dropped => Promised))

\* Names the set of the states in use, to reason about the lists without its definition,
LEMMA ListsOf ==
  ASSUME Lists(Used)
  PROVE  \E U \in SUBSET State : U = Used /\ Lists(U)
<1>1. PICK U \in SUBSET State : U = Used
  BY DEF Used
<1> QED BY <1>1

\* and takes the lists of a set equal to it in the next state back to it.
LEMMA ListsNow ==
  ASSUME NEW U, (Lists(U))', U = Used'
  PROVE  Lists(Used)'
OBVIOUS

\* The lists are about the links and their ends only.
LEMMA ListsStay ==
  ASSUME NEW U, Lists(U), UNCHANGED lists
  PROVE  Lists(U)'
<1>1. PICK n \in 0 .. NumStates, k \in 0 .. NumStates : n + k = NumStates /\
        \E f \in [1 .. n -> State], u \in [1 .. k -> State] : Ordered(f, n, u, k, U)
  BY DEF Lists
<1>2. PICK f \in [1 .. n -> State], u \in [1 .. k -> State] : Ordered(f, n, u, k, U)
  BY <1>1
<1>3. Ordered(f, n, u, k, U)'
  BY <1>2 DEF Ordered, InOrder, Linked, lists
<1> QED BY <1>1, <1>3 DEF Lists

\* Sounds that differ in nothing that the invariant speaks of
Alike ==
  \A x \in State : /\ sound'[x].set = sound[x].set /\ sound'[x].looped = sound[x].looped
                   /\ sound'[x].playing = sound[x].playing
                   /\ sound'[x].playingState = sound[x].playingState

\* Sounds that are alike to the invariant are in use, wait and need alike.
LEMMA AlikeSame ==
  ASSUME Alike
  PROVE  /\ \A s \in State : /\ Live(s)' = Live(s) /\ Waiting(s)' = Waiting(s)
                             /\ Endless(s)' = Endless(s) /\ Needs(s)' = Needs(s)
         /\ Voices' = Voices /\ Cardinality(Voices)' = Cardinality(Voices)
<1>1. \A s \in State : Live(s)' = Live(s) /\ Waiting(s)' = Waiting(s) /\ Endless(s)' = Endless(s)
  BY DEF Alike, Live, Waiting, Endless
<1>2. \A s \in State : Needs(s)' = Needs(s)
  BY DEF Alike, Waiting, Needs
<1>3. Voices' = Voices
  <2>1. \A s \in State : (Live(s)' /\ sound'[s].playing) <=> (Live(s) /\ sound[s].playing)
    BY <1>1 DEF Alike
  <2> QED BY <2>1, Zenon DEF Voices
<1>4. Cardinality(Voices)' = Cardinality(Voices)
  BY <1>3
<1> QED BY <1>1, <1>2, <1>3, <1>4

\* An action that changes neither the lists nor what there is to do keeps Held,
LEMMA HeldStays ==
  ASSUME Held, Alike, UNCHANGED <<todo, lists, count>>,
         \A s \in State : Filling(s)' = Filling(s),
         Starts', handle' \in State \cup {NULL},
         handle' # NULL => sound'[handle'].playingState # "NONE" /\ sound'[handle'].owned,
         \A s \in State : Ev("END", s) \in Coming' => Ev("END", s) \in Coming
  PROVE  Held'
<1>1. /\ \A s \in State : Live(s)' = Live(s) /\ Waiting(s)' = Waiting(s)
      /\ Cardinality(Voices)' = Cardinality(Voices)
  BY AlikeSame
<1>2. Used' = Used
  BY <1>1 DEF Used
<1>3. Lists(Used)'
  <2>1. PICK U \in SUBSET State : U = Used /\ Lists(U)
    BY ListsOf DEF Held
  <2>2. Lists(U)'
    BY <2>1, ListsStay
  <2> QED BY <1>2, <2>1, <2>2, ListsNow
<1>4. Accounts'
  <2>1. \A s \in State : Live(s)' => sound'[s].set
    BY <1>1 DEF Alike, Held, Accounts
  <2>2. \A s \in State : Waiting(s)' => ~sound'[s].playing
    BY <1>1 DEF Alike, Held, Accounts
  <2>3. (count = Cardinality(Voices))'
    BY <1>1 DEF Held, Accounts
  <2> QED BY <2>1, <2>2, <2>3 DEF Accounts, Live
<1>5. Ends'
  <2>1. Removals(todo)' = Removals(todo) /\ Disposals(todo)' = Disposals(todo)
    BY DEF Removals, Disposals
  <2> QED BY <1>1, <2>1 DEF Held, Ends
<1> QED BY <1>3, <1>4, <1>5 DEF Held

\* and one that takes no event away keeps Promised.
LEMMA PromisedStays ==
  ASSUME Promised, Alike, UNCHANGED todo, Coming \subseteq Coming',
         \A s \in State :
           main.pc = "post" /\ s = main.item /\ Waiting(s) => Ev("PLAY", s) \in Coming'
  PROVE  Promised'
<1>1. /\ \A s \in State : /\ Live(s)' = Live(s) /\ Waiting(s)' = Waiting(s)
                          /\ Endless(s)' = Endless(s) /\ Needs(s)' = Needs(s)
  BY AlikeSame
<1>2. Disposals(todo)' = Disposals(todo) /\ Cutoffs(todo)' = Cutoffs(todo)
  BY DEF Disposals, Cutoffs
<1>3. HasEvent'
  <2> SUFFICES ASSUME NEW s \in State, Live(s), s \notin Disposals(todo), ~Endless(s)
               PROVE  \E e \in Needs(s) : e \in Coming'
    BY <1>1, <1>2 DEF HasEvent
  <2>1. CASE main.pc = "post" /\ s = main.item /\ Waiting(s)
    <3>1. Ev("PLAY", s) \in Needs(s)
      BY <2>1 DEF Needs
    <3> QED BY <2>1, <3>1
  <2>2. CASE ~(main.pc = "post" /\ s = main.item /\ Waiting(s))
    BY <2>2 DEF Promised, HasEvent
  <2> QED BY <2>1, <2>2
<1>4. DecayGone'
  BY <1>2 DEF Promised, DecayGone, Alike
<1> QED BY <1>3, <1>4 DEF Promised

\* The events to come are the same if the queue is,
LEMMA ComingSame ==
  ASSUME UNCHANGED <<events, nextEvent, todo>>
  PROVE  Coming' = Coming
BY DEF Coming, EventSet, Posts

\* and a post adds one, if it is not refused.
LEMMA ComingPosts ==
  ASSUME Types, UNCHANGED <<nextEvent, todo>>, NEW e \in GoodEvent, NEW d \in Nat, Post(e, d)
  PROVE  /\ Coming \subseteq Coming' /\ Coming' \subseteq Coming \cup {e}
         /\ ~dropped' => ~dropped /\ e \in Coming'
<1>1. /\ EventSet(events) \subseteq EventSet(events)'
      /\ EventSet(events)' \subseteq EventSet(events) \cup {e}
      /\ ~dropped' => ~dropped /\ e \in EventSet(events)'
  BY PostHas DEF Types, QueueTypes
<1>2. Posts(todo)' = Posts(todo)
  BY DEF Posts
<1> QED BY <1>1, <1>2 DEF Coming

\* Steps of the main thread that only change its own state.
LEMMA MainHeld ==
  ASSUME Types, Held, UNCHANGED <<queue, todo, lists, sound, count, handle, dropped>>, Starts',
         main.pc \notin {"fill", "post"}, main'.pc \notin {"fill", "post"}
  PROVE  Held' /\ (Promised => Promised')
<1>1. Alike
  BY DEF Alike
<1>2. Coming' = Coming
  BY ComingSame DEF queue
<1>3. \A s \in State : Filling(s)' = Filling(s)
  BY DEF Filling
<1>4. handle' # NULL => sound'[handle'].playingState # "NONE" /\ sound'[handle'].owned
  BY DEF Held, Accounts, Live
<1>5. handle' \in State \cup {NULL}
  BY DEF Types, SoundTypes
<1>6. Held'
  BY <1>1, <1>2, <1>3, <1>4, <1>5, HeldStays
<1>7. Promised => Promised'
  BY <1>1, <1>2, PromisedStays
<1> QED BY <1>6, <1>7

\* Each action of the main thread keeps the invariant: PlaySfx,
LEMMA PlaySfxHeld ==
  ASSUME Types, Held, PlaySfx
  PROVE  Held' /\ (Promised => Promised')
<1>1. /\ main'.pc \in {"take", "finish"} /\ main'.item = head
      /\ main'.latest = NULL /\ main'.pending = (handle = NULL)
  BY PlaySfxMain
<1>2. UNCHANGED <<queue, todo, lists, sound, count, handle, dropped>> /\ main.pc = "idle"
  BY DEF PlaySfx
<1>3. Starts'
  BY <1>1, <1>2 DEF Starts, lists
<1> QED BY <1>1, <1>2, <1>3, MainHeld

\* LookAgain,
LEMMA LookAgainHeld ==
  ASSUME Types, Held, LookAgain
  PROVE  Held' /\ (Promised => Promised')
<1>1. /\ main'.pc \in {"take", "finish"} /\ main'.item = head
      /\ main'.latest = main.latest /\ main'.pending = main.pending
  BY LookAgainMain
<1>2. UNCHANGED <<queue, todo, lists, sound, count, handle, dropped>> /\ main.pc = "read"
  BY DEF LookAgain
<1>3. Starts'
  <2>1. Starting /\ Starts
    BY <1>2 DEF Starting, Held
  <2> QED BY <1>1, <1>2, <2>1 DEF Starts, lists, Live
<1> QED BY <1>1, <1>2, <1>3, MainHeld

\* Check and Walk,
LEMMA OthersHeld ==
  ASSUME Types, Held, Check \/ Walk
  PROVE  Held' /\ (Promised => Promised')
<1>1. main'.pc \in {"idle", "deactivate", "DEACTIVATE", "RELEASE"}
  BY OtherMain
<1>2. UNCHANGED <<queue, todo, lists, sound, count, handle, dropped>> /\ main.pc = "idle"
  BY DEF Check, Walk
<1>3. Starts'
  BY <1>1 DEF Starts, Starting
<1> QED BY <1>1, <1>2, <1>3, MainHeld

\* Posting an event that does not end a sound
LEMMA PostsHeld ==
  ASSUME Types, Held, UNCHANGED <<nextEvent, todo, lists, sound, count, handle>>, Starts',
         NEW e \in GoodEvent, NEW d \in Nat, Post(e, d), e.type # "END",
         main.pc # "fill", main'.pc # "fill",
         \A s \in State : main.pc = "post" /\ s = main.item => e = Ev("PLAY", s)
  PROVE  Held' /\ (Promised /\ ~dropped' => Promised')
<1>1. Alike
  BY DEF Alike
<1>2. /\ Coming \subseteq Coming' /\ Coming' \subseteq Coming \cup {e}
      /\ ~dropped' => ~dropped /\ e \in Coming'
  BY ComingPosts
<1>3. \A s \in State : Filling(s)' = Filling(s)
  BY DEF Filling
<1>4. handle' # NULL => sound'[handle'].playingState # "NONE" /\ sound'[handle'].owned
  BY DEF Held, Accounts, Live
<1>5. handle' \in State \cup {NULL}
  BY DEF Types, SoundTypes
<1>6. \A s \in State : Ev("END", s) \in Coming' => Ev("END", s) \in Coming
  <2>1. \A s \in State : Ev("END", s).type = "END"
    BY DEF Ev
  <2> QED BY <1>2, <2>1
<1>7. Held'
  BY <1>1, <1>3, <1>4, <1>5, <1>6, HeldStays
<1>8. ~dropped' /\ Promised => Promised'
  BY <1>1, <1>2, PromisedStays
<1> QED BY <1>7, <1>8

\* PostPlay: the sound gets the event that begins it,
LEMMA PostPlayHeld ==
  ASSUME Types, Held, PostPlay
  PROVE  Held' /\ (Promised /\ ~dropped' => Promised')
<1>1. main'.pc \in {"finish", "read"} /\ main'.latest = main.item /\ main'.pending = main.pending
  BY PostPlayMain
<1>2. /\ UNCHANGED <<nextEvent, todo, lists, sound, count, handle>> /\ main.pc = "post"
      /\ Post(Ev("PLAY", main.item), Head(main.parts).delay * Frame + 1)
  BY DEF PostPlay
<1>3. main.item \in State /\ main.parts \in Seq(Part) /\ main.parts # <<>>
  BY <1>2 DEF Types, MainTypes, MainState
<1>4. PICK d \in Nat : d = Head(main.parts).delay * Frame + 1
  <2>1. PICK l \in Seq(Part) : l = main.parts /\ l # <<>>
    BY <1>3
  <2>2. Head(l) \in Part
    BY <2>1
  <2>3. Head(main.parts).delay * Frame + 1 \in Nat
    BY <2>1, <2>2, SndAssumption DEF Part
  <2> QED BY <2>3
<1>5. PICK e \in GoodEvent : e = Ev("PLAY", main.item)
  BY <1>3, OpsGood
<1>6. e.type # "END"
  BY <1>5 DEF Ev
<1>7. Starts'
  <2>1. Starting /\ Starts
    BY <1>2 DEF Starting, Held
  <2> QED BY <1>1, <1>2, <2>1 DEF Starts, lists, Live
<1> QED BY <1>1, <1>2, <1>4, <1>5, <1>6, <1>7, PostsHeld

\* Deactivate,
LEMMA DeactivateHeld ==
  ASSUME Types, Held, Deactivate
  PROVE  Held' /\ (Promised /\ ~dropped' => Promised')
<1>1. main'.pc \in {"idle", "deactivate", "DEACTIVATE", "RELEASE"}
  BY OtherMain
<1>2. /\ UNCHANGED <<nextEvent, todo, lists, sound, count, handle>> /\ main.pc = "deactivate"
      /\ Post(Ev("DEACTIVATE", main.item), 0)
  BY DEF Deactivate
<1>3. main.item \in State
  BY <1>2 DEF Types, MainTypes, MainState
<1>4. PICK e \in GoodEvent : e = Ev("DEACTIVATE", main.item) /\ e.type # "END"
  <2>1. Ev("DEACTIVATE", main.item) \in GoodEvent
    BY <1>3, OpsGood DEF ForAll
  <2> QED BY <2>1 DEF Ev
<1>5. Starts'
  BY <1>1 DEF Starts, Starting
<1>6. 0 \in Nat
  OBVIOUS
<1> QED BY <1>1, <1>2, <1>4, <1>5, <1>6, PostsHeld

\* WalkStep,
LEMMA WalkStepHeld ==
  ASSUME Types, Held, WalkStep
  PROVE  Held' /\ (Promised /\ ~dropped' => Promised')
<1>1. main'.pc \in {"idle", "deactivate", "DEACTIVATE", "RELEASE"}
  BY OtherMain
<1>2. /\ UNCHANGED <<nextEvent, todo, lists, sound, count, handle>>
      /\ main.pc \in {"DEACTIVATE", "RELEASE"}
      /\ Post(Ev(main.pc, main.item), 0) \/ UNCHANGED <<events, dropped>>
  BY DEF WalkStep, MaskFree
<1>3. main.item \in State
  BY <1>2 DEF Types, MainTypes, MainState
<1>4. PICK e \in GoodEvent : e = Ev(main.pc, main.item) /\ e.type # "END"
  <2>1. Ev(main.pc, main.item) \in GoodEvent
    BY <1>2, <1>3, OpsGood DEF ForAll
  <2> QED BY <1>2, <2>1 DEF Ev
<1>5. Starts'
  BY <1>1 DEF Starts, Starting
<1>6. 0 \in Nat
  OBVIOUS
<1>7. CASE Post(e, 0)
  BY <1>1, <1>2, <1>4, <1>5, <1>6, <1>7, PostsHeld
<1>8. CASE UNCHANGED <<events, dropped>>
  BY <1>1, <1>2, <1>5, <1>8, MainHeld DEF queue
<1> QED BY <1>2, <1>4, <1>7, <1>8

\* Take: the state found free before is the head of the list still, and goes into use.
LEMMA TakeHeld ==
  ASSUME Types, Held, Take, ~overlapped'
  PROVE  Held' /\ (Promised => Promised')
<1>1. /\ main'.pc = "fill" /\ main'.item = main.item
      /\ main'.latest = main.latest /\ main'.pending = main.pending
  BY TakeMain
<1>2. /\ UNCHANGED <<queue, todo, sound, count, handle, dropped>> /\ main.pc = "take"
      /\ TakeState(main.item) /\ ~(Doing("remove") /\ Head(todo).state = main.item)
  BY DEF Take
<1>3. Starts /\ Accounts /\ Ends /\ Lists(Used)
  BY DEF Held
<1>4. PICK s \in State : s = main.item /\ s = head /\ s # NULL
  BY <1>2, <1>3 DEF Types, MainTypes, MainState, Starts
<1>5. PICK U \in SUBSET State : U = Used /\ Lists(U)
  BY <1>3, ListsOf
<1>6. s \in State \ U /\ (Lists(U \cup {s}))'
  BY <1>2, <1>4, <1>5, ListsTake DEF Types, ListTypes
<1>7. Alike
  BY <1>2 DEF Alike
<1>8. /\ \A x \in State : Live(x)' = Live(x) /\ Waiting(x)' = Waiting(x)
      /\ Cardinality(Voices)' = Cardinality(Voices)
  BY <1>7, AlikeSame
<1>9. \A x \in State : Filling(x)' <=> x = s
  BY <1>1, <1>4 DEF Filling
<1>10. Lists(Used)'
  <2>1. \A x \in State : ~Filling(x)
    BY <1>2 DEF Filling
  <2>2. Used' = U \cup {s}
    BY <1>5, <1>8, <1>9, <2>1 DEF Used
  <2>3. PICK V : V = U \cup {s}
    OBVIOUS
  <2>4. Lists(V)'
    BY <1>6, <2>3
  <2> QED BY <2>2, <2>3, <2>4, ListsNow
<1>11. ~Live(s)
  BY <1>5, <1>6 DEF Used
<1>12. Starts'
  <2>1. Starting
    BY <1>2 DEF Starting
  <2>2. main.latest \in State \cup {NULL}
    BY DEF Types, MainTypes, MainState
  <2> QED BY <1>1, <1>2, <1>3, <1>4, <1>11, <2>1 DEF Starts, Live
<1>13. Accounts'
  <2>1. (\A x \in State : Live(x) => sound[x].set)'
    BY <1>3, <1>2 DEF Accounts, Live
  <2>2. (\A x \in State : Waiting(x) => ~sound[x].playing)'
    BY <1>3, <1>2 DEF Accounts, Waiting
  <2>3. (count = Cardinality(Voices))'
    BY <1>2, <1>3, <1>8 DEF Accounts
  <2>4. (handle # NULL => Live(handle) /\ sound[handle].owned)'
    BY <1>2, <1>3 DEF Accounts, Live
  <2> QED BY <2>1, <2>2, <2>3, <2>4 DEF Accounts
<1>14. Coming' = Coming
  BY <1>2, ComingSame DEF queue
<1>15. Removals(todo)' = Removals(todo) /\ Disposals(todo)' = Disposals(todo)
  BY <1>2 DEF Removals, Disposals
<1>16. Ends'
  <2>1. ASSUME NEW x \in State, x \in Removals(todo), x \notin Disposals(todo)
        PROVE  x # s
    <3>1. Doing("remove") /\ Head(todo).state = x
      BY <2>1, RemovedNext DEF Types, QueueTypes
    <3> QED BY <3>1, <1>2, <1>4
  <2> QED BY <1>3, <1>8, <1>9, <1>14, <1>15, <2>1 DEF Ends
<1>17. Promised => Promised'
  <2>1. \A x \in State : ~(main.pc = "post" /\ x = main.item /\ Waiting(x))
    BY <1>2
  <2> QED BY <1>2, <1>7, <1>14, <2>1, PromisedStays
<1> QED BY <1>10, <1>12, <1>13, <1>16, <1>17 DEF Held

\* Fill sets up the state that was taken,
LEMMA FillSound ==
  ASSUME Types, Fill
  PROVE  /\ \A x \in State \ {main.item} : sound'[x] = sound[x]
         /\ sound'[main.item].playingState = "INIT" /\ sound'[main.item].set
         /\ ~sound'[main.item].playing /\ main.item \in State
<1>1. main.item \in State /\ sound \in [State -> SoundState]
  BY DEF Types, MainTypes, MainState, SoundTypes, Fill
<1>2. PICK b : b = Head(main.parts).looped
  OBVIOUS
<1>3. PICK u : u = [Silent EXCEPT !.set = TRUE, !.playingState = "INIT", !.unk38 = Retries,
                                  !.looped = b]
  OBVIOUS
<1>4. sound' = [sound EXCEPT ![main.item] = u]
  BY <1>2, <1>3 DEF Fill
<1>5. u.playingState = "INIT" /\ u.set = TRUE /\ u.playing = FALSE
  BY <1>3 DEF Silent
<1> QED BY <1>1, <1>4, <1>5

\* and keeps the invariant: the state taken is a sound from now on,
LEMMA FillHeld ==
  ASSUME Types, Held, Fill
  PROVE  Held' /\ (Promised => Promised')
<1>1. /\ main'.pc = "post" /\ main'.item = main.item
      /\ main'.latest = main.latest /\ main'.pending = main.pending
  BY FillMain
<1>2. UNCHANGED <<queue, todo, lists, count, handle, dropped>> /\ main.pc = "fill"
  BY DEF Fill
<1>3. Starts /\ Accounts /\ Ends /\ Lists(Used)
  BY DEF Held
<1>4. PICK s \in State : s = main.item
  BY <1>2 DEF Types, MainTypes, MainState
<1>5. /\ \A x \in State \ {s} : sound'[x] = sound[x]
      /\ sound'[s].playingState = "INIT" /\ sound'[s].set /\ ~sound'[s].playing
  BY <1>4, FillSound
<1>6. ~Live(s)
  BY <1>2, <1>3, <1>4 DEF Starts
<1>7. /\ \A x \in State \ {s} : Live(x)' = Live(x) /\ Waiting(x)' = Waiting(x)
                                /\ Endless(x)' = Endless(x) /\ Needs(x)' = Needs(x)
      /\ Live(s)' /\ Waiting(s)'
  BY <1>5 DEF Live, Waiting, Endless, Needs
<1>8. Lists(Used)'
  <2>1. \A x \in State : Filling(x) <=> x = s
    BY <1>2, <1>4 DEF Filling
  <2>2. \A x \in State : ~Filling(x)'
    BY <1>1 DEF Filling
  <2>3. Used' = Used
    BY <1>6, <1>7, <2>1, <2>2 DEF Used
  <2>4. PICK U \in SUBSET State : U = Used /\ Lists(U)
    BY <1>3, ListsOf
  <2>5. Lists(U)'
    BY <1>2, <2>4, ListsStay
  <2> QED BY <2>3, <2>4, <2>5, ListsNow
<1>9. Starts'
  <2>1. Starting
    BY <1>2 DEF Starting
  <2>2. main.latest # NULL => Live(main.latest)
    BY <1>3, <2>1 DEF Starts
  <2>3. handle # NULL => Live(handle)
    BY <1>3 DEF Accounts
  <2>4. s # NULL /\ main.latest \in State \cup {NULL} /\ handle \in State \cup {NULL}
    BY Constants DEF Types, MainTypes, MainState, SoundTypes
  <2>5. s # main.latest /\ s # handle
    BY <1>6, <2>2, <2>3, <2>4
  <2>6. main.latest # NULL => sound'[main.latest].playingState # "NONE"
    <3>1. main.latest # NULL => sound'[main.latest] = sound[main.latest]
      BY <1>5, <2>4, <2>5
    <3> QED BY <2>2, <3>1 DEF Live
  <2>7. sound'[s].playingState # "NONE"
    BY <1>5
  <2>8. /\ main.pending => handle = NULL
        /\ handle # NULL => handle # main.latest
    BY <1>3, <2>1 DEF Starts
  <2> QED BY <1>1, <1>2, <1>4, <2>5, <2>6, <2>7, <2>8 DEF Starts, Live
<1>10. Accounts'
  <2>1. \A x \in State : Live(x)' => sound'[x].set
    BY <1>3, <1>5, <1>7 DEF Accounts
  <2>2. \A x \in State : Waiting(x)' => ~sound'[x].playing
    BY <1>3, <1>5, <1>7 DEF Accounts
  <2>3. Voices' = Voices
    <3>1. \A x \in State : (Live(x)' /\ sound'[x].playing) <=> (Live(x) /\ sound[x].playing)
      BY <1>5, <1>6, <1>7
    <3> QED BY <3>1, Zenon DEF Voices
  <2>4. (count = Cardinality(Voices))'
    BY <1>2, <1>3, <2>3 DEF Accounts
  <2>5. (handle # NULL => Live(handle) /\ sound[handle].owned)'
    <3>1. handle \in State \cup {NULL} /\ (handle # NULL => Live(handle) /\ sound[handle].owned)
      BY <1>3 DEF Types, SoundTypes, Accounts
    <3>2. handle # s
      BY <1>6, <3>1, Constants
    <3> QED BY <1>2, <1>5, <3>1, <3>2 DEF Live
  <2> QED BY <2>1, <2>2, <2>4, <2>5 DEF Accounts
<1>11. Coming' = Coming
  BY <1>2, ComingSame DEF queue
<1>12. /\ Removals(todo)' = Removals(todo) /\ Disposals(todo)' = Disposals(todo)
       /\ Cutoffs(todo)' = Cutoffs(todo)
  BY <1>2 DEF Removals, Disposals, Cutoffs
<1>13. s \notin Disposals(todo) /\ s \notin Removals(todo)
  <2>1. Filling(s)
    BY <1>2, <1>4 DEF Filling
  <2> QED BY <1>3, <1>6, <2>1 DEF Ends
<1>14. Ends'
  <2>1. \A x \in State : ~Filling(x)'
    BY <1>1 DEF Filling
  <2> QED BY <1>3, <1>7, <1>11, <1>12, <1>13, <2>1 DEF Ends
<1>15. ASSUME Promised PROVE Promised'
  <2>1. HasEvent'
    <3>1. ASSUME NEW x \in State
          PROVE  \/ ~Live(x)' \/ x \in Disposals(todo)' \/ Endless(x)'
                 \/ main'.pc = "post" /\ x = main'.item /\ Waiting(x)'
                 \/ \E e \in Needs(x)' : e \in Coming'
      <4>1. CASE x = s
        BY <1>1, <1>4, <1>7, <4>1
      <4>2. CASE x # s
        BY <1>2, <1>7, <1>11, <1>12, <1>15, <4>2 DEF Promised, HasEvent
      <4> QED BY <4>1, <4>2
    <3> QED BY <3>1 DEF HasEvent
  <2>2. DecayGone'
    <3>1. ASSUME NEW x \in State, x \in Cutoffs(todo)
          PROVE  x \in Disposals(todo) \/ sound'[x].playingState = "STOPPING"
      <4>1. x \in Disposals(todo) \/ sound[x].playingState = "STOPPING"
        BY <1>15, <3>1 DEF Promised, DecayGone
      <4>2. CASE x = s
        BY <1>6, <1>13, <4>1, <4>2 DEF Live
      <4> QED BY <1>5, <4>1, <4>2
    <3> QED BY <1>12, <3>1 DEF DecayGone
  <2> QED BY <2>1, <2>2 DEF Promised
<1> QED BY <1>8, <1>9, <1>10, <1>14, <1>15 DEF Held

\* and so does Finish: the game's pointer is set to a sound in use.
LEMMA FinishHeld ==
  ASSUME Types, Held, Finish
  PROVE  Held' /\ (Promised => Promised')
<1>1. main'.pc \in {"idle", "deactivate", "DEACTIVATE", "RELEASE"}
  BY OtherMain
<1>2. UNCHANGED <<queue, todo, lists, count, dropped>> /\ main.pc = "finish"
  BY DEF Finish
<1>3. Starts /\ Accounts /\ Starting
  BY <1>2 DEF Held, Starting
<1>4. /\ main.latest \in State \cup {NULL} /\ main.pending \in BOOLEAN
      /\ handle \in State \cup {NULL} /\ sound \in [State -> SoundState]
  BY DEF Types, MainTypes, MainState, SoundTypes
<1>5. /\ main.latest = NULL => sound' = sound
      /\ main.latest # NULL =>
           sound' = [sound EXCEPT ![main.latest].final = TRUE, ![main.latest].owned = main.pending]
      /\ handle' = IF main.pending THEN main.latest ELSE handle
  BY Zenon DEF Finish
<1>6. /\ Alike /\ \A x \in State : x # main.latest => sound'[x] = sound[x]
      /\ main.latest # NULL => sound'[main.latest].owned = main.pending
  <2>1. CASE main.latest = NULL
    BY <1>5, <2>1 DEF Alike
  <2>2. CASE main.latest # NULL
    <3>1. PICK s \in State, b \in BOOLEAN : s = main.latest /\ b = main.pending
      BY <1>4, <2>2
    <3>2. PICK t \in SoundState : t = sound[s]
      BY <1>4
    <3>3. PICK u : u = [t EXCEPT !.final = TRUE, !.owned = b]
      OBVIOUS
    <3>4. /\ u.owned = b /\ u.set = t.set /\ u.looped = t.looped /\ u.playing = t.playing
          /\ u.playingState = t.playingState
      BY <3>2, <3>3 DEF SoundState
    <3>5. sound' = [sound EXCEPT ![s] = u]
      BY <1>4, <1>5, <2>2, <3>1, <3>2, <3>3, Zenon
    <3>6. sound'[s] = u /\ \A x \in State \ {s} : sound'[x] = sound[x]
      BY <1>4, <3>5
    <3> QED BY <3>1, <3>2, <3>4, <3>6 DEF Alike
  <2> QED BY <2>1, <2>2
<1>7. Starts'
  BY <1>1 DEF Starts, Starting
<1>8. handle' # NULL => sound'[handle'].playingState # "NONE" /\ sound'[handle'].owned
  <2>1. CASE main.pending
    <3>1. handle' = main.latest
      BY <1>5, <2>1
    <3>2. main.latest # NULL => Live(main.latest)
      BY <1>3 DEF Starts
    <3>3. ASSUME NEW x \in State, x = main.latest, x # NULL
          PROVE  sound'[x].playingState # "NONE" /\ sound'[x].owned
      BY <1>6, <2>1, <3>2, <3>3 DEF Alike, Live
    <3> QED BY <1>4, <3>1, <3>3 DEF Live
  <2>2. CASE ~main.pending
    <3>1. handle' = handle
      BY <1>5, <2>2
    <3>2. handle # NULL => handle # main.latest /\ Live(handle) /\ sound[handle].owned
      BY <1>3 DEF Starts, Accounts
    <3>3. handle # NULL => sound'[handle] = sound[handle]
      BY <1>4, <1>6, <3>2
    <3> QED BY <3>1, <3>2, <3>3 DEF Live
  <2> QED BY <2>1, <2>2
<1>9. Coming' = Coming
  BY <1>2, ComingSame DEF queue
<1>10. \A s \in State : Filling(s)' = Filling(s)
  BY <1>1, <1>2 DEF Filling
<1>11. handle' \in State \cup {NULL}
  BY <1>4, <1>5
<1>12. Held'
  BY <1>2, <1>6, <1>7, <1>8, <1>9, <1>10, <1>11, HeldStays DEF Live
<1>13. Promised => Promised'
  BY <1>2, <1>6, <1>9, PromisedStays
<1> QED BY <1>12, <1>13

-------------------------------------------------------------------------------
(* The audio manager's steps.                                              *)

\* Steps that change the queue and todo only.
LEMMA QueueHeld ==
  ASSUME Held, UNCHANGED <<lists, sound, count, handle, main>>, Ends'
  PROVE  Held'
<1>1. Alike
  BY DEF Alike
<1>2. \A s \in State : Live(s)' = Live(s) /\ Filling(s)' = Filling(s)
  BY DEF Live, Filling
<1>3. Used' = Used
  BY <1>2 DEF Used
<1>4. Lists(Used)'
  <2>1. PICK U \in SUBSET State : U = Used /\ Lists(U)
    BY ListsOf DEF Held
  <2>2. Lists(U)'
    BY <2>1, ListsStay
  <2> QED BY <1>3, <2>1, <2>2, ListsNow
<1>5. Starts'
  BY DEF Held, Starts, Starting, Live, lists
<1>6. Accounts'
  <2>1. Cardinality(Voices)' = Cardinality(Voices)
    BY <1>1, AlikeSame
  <2> QED BY <2>1 DEF Held, Accounts, Live, Waiting
<1> QED BY <1>4, <1>5, <1>6 DEF Held

\* The events that a sound still needs
LEMMA QueuePromised ==
  ASSUME Promised, UNCHANGED <<sound, main>>, DecayGone',
         \A s \in State :
           ~Live(s) \/ s \in Disposals(todo') \/ Endless(s)
             \/ (s \notin Disposals(todo) /\ \A e \in Needs(s) : e \in Coming => e \in Coming')
  PROVE  Promised'
<1>1. \A s \in State : /\ Live(s)' = Live(s) /\ Waiting(s)' = Waiting(s)
                       /\ Endless(s)' = Endless(s) /\ Needs(s)' = Needs(s)
  BY DEF Live, Waiting, Endless, Needs
<1>2. Disposals(todo)' = Disposals(todo')
  BY DEF Disposals
<1>3. HasEvent'
  <2> SUFFICES ASSUME NEW s \in State, Live(s), s \notin Disposals(todo'), ~Endless(s),
                      ~(main.pc = "post" /\ s = main.item /\ Waiting(s))
               PROVE  \E e \in Needs(s) : e \in Coming'
    BY <1>1, <1>2 DEF HasEvent
  <2>1. s \notin Disposals(todo) /\ \A e \in Needs(s) : e \in Coming => e \in Coming'
    OBVIOUS
  <2>2. \E e \in Needs(s) : e \in Coming
    BY <2>1 DEF Promised, HasEvent
  <2> QED BY <2>1, <2>2
<1> QED BY <1>3 DEF Promised

\* What there is to do in the next state.
LEMMA ViewsNext ==
  /\ Posts(todo)' = Posts(todo') /\ Disposals(todo)' = Disposals(todo')
  /\ Removals(todo)' = Removals(todo') /\ Cutoffs(todo)' = Cutoffs(todo')
BY DEF Posts, Disposals, Removals, Cutoffs

\* Each action of the audio manager keeps the invariant: PostEvent,
LEMMA PostEventHeld ==
  ASSUME Types, Held, PostEvent
  PROVE  Held' /\ (Promised /\ ~dropped' => Promised')
<1>1. PICK e \in GoodEvent, d \in Nat, p \in SUBSET GoodEvent :
        /\ Post(e, d) /\ OnPlan(todo') /\ UNCHANGED nextEvent
        /\ Views(todo, {e} \cup p, {}, {}, {}) /\ Views(todo', p, {}, {}, {})
  BY PostEventIs
<1>2. UNCHANGED <<lists, sound, count, handle, main>> /\ todo # <<>>
  BY DEF PostEvent, Doing
<1>3. /\ EventSet(events) \subseteq EventSet(events)'
      /\ EventSet(events)' \subseteq EventSet(events) \cup {e}
      /\ ~dropped' => ~dropped /\ e \in EventSet(events)'
  BY <1>1, PostHas DEF Types, QueueTypes
<1>4. Posts(todo) = {e} \cup p /\ Posts(todo)' = p /\ todo' # <<>>
  BY <1>1, ViewsNext DEF Views, OnPlan
<1>5. Coming = EventSet(events) \cup ({e} \cup p) /\ Coming' = EventSet(events)' \cup p
  BY <1>2, <1>4 DEF Coming
<1>6. /\ Removals(todo) = {} /\ Disposals(todo) = {} /\ Cutoffs(todo) = {}
      /\ Removals(todo)' = {} /\ Disposals(todo)' = {} /\ Cutoffs(todo)' = {}
  BY <1>1, ViewsNext DEF Views
<1>7. Coming' \subseteq Coming /\ (~dropped' => Coming \subseteq Coming')
  BY <1>3, <1>5
<1>8. Ends'
  BY <1>2, <1>6, <1>7 DEF Held, Ends, Live
<1>9. Held'
  BY <1>2, <1>8, QueueHeld
<1>10. ASSUME Promised, ~dropped' PROVE Promised'
  <2>1. DecayGone'
    BY <1>6 DEF DecayGone
  <2> QED BY <1>2, <1>6, <1>7, <1>10, <2>1, QueuePromised
<1> QED BY <1>9, <1>10

\* GetNext,
LEMMA GetNextHeld ==
  ASSUME Types, Held, GetNext
  PROVE  Held' /\ (Promised => Promised')
<1>1. /\ NextEvent /\ todo' = <<>>
      /\ Views(todo, {}, {}, {}, {}) /\ Views(todo', {}, {}, {}, {})
  BY GetNextIs
<1>2. UNCHANGED <<lists, sound, count, handle, main>> /\ todo # <<>>
  BY DEF GetNext, Doing
<1>3. /\ EventSet(events) \subseteq EventSet(events)' \cup {nextEvent'}
      /\ EventSet(events)' \subseteq EventSet(events)
      /\ nextEvent' \in EventSet(events) \cup {NoEvent}
  BY <1>1, NextHas DEF Types, QueueTypes
<1>4. Posts(todo) = {} /\ Posts(todo)' = {}
  BY <1>1, ViewsNext DEF Views
<1>5. Coming = EventSet(events) /\ Coming' = EventSet(events)' \cup {nextEvent'}
  BY <1>1, <1>2, <1>4 DEF Coming
<1>6. /\ Removals(todo) = {} /\ Disposals(todo) = {} /\ Cutoffs(todo) = {}
      /\ Removals(todo)' = {} /\ Disposals(todo)' = {} /\ Cutoffs(todo)' = {}
  BY <1>1, ViewsNext DEF Views
<1>7. Coming' \subseteq Coming \cup {NoEvent} /\ Coming \subseteq Coming'
  BY <1>3, <1>5
<1>8. Ends'
  <2>1. \A s \in State : Ev("END", s) # NoEvent
    BY DEF Ev, NoEvent
  <2> QED BY <1>2, <1>6, <1>7, <2>1 DEF Held, Ends, Live
<1>9. Held'
  BY <1>2, <1>8, QueueHeld
<1>10. ASSUME Promised PROVE Promised'
  <2>1. DecayGone'
    BY <1>6 DEF DecayGone
  <2> QED BY <1>2, <1>6, <1>7, <1>10, <2>1, QueuePromised
<1> QED BY <1>9, <1>10

\* RemoveEvents: the events that go are those of a sound no longer in use, or a decay,
LEMMA RemoveHeld ==
  ASSUME Types, Held, RemoveEvents
  PROVE  Held' /\ (Promised => Promised')
<1>1. OnPlan(todo') /\ \E s \in State : RemovesAll(s) \/ RemovesDecay(s)
  BY RemoveIs
<1>2. UNCHANGED <<nextEvent, lists, sound, count, handle, main>> /\ todo # <<>> /\ todo' # <<>>
  BY <1>1 DEF RemoveEvents, Doing, OnPlan
<1>3. PICK s \in State : RemovesAll(s) \/ RemovesDecay(s)
  BY <1>1
<1>4. Coming = EventSet(events) \cup Posts(todo) /\ Coming' = EventSet(events)' \cup Posts(todo')
  BY <1>2, ViewsNext DEF Coming
<1>6. CASE RemovesAll(s)
  <2>1. /\ EventSet(events)' = {e \in EventSet(events) : ~(e.state = s /\ e.type \in Type)}
    <3>1. EventSet(events)' = EventSet(events')
      BY DEF EventSet
    <3> QED BY <1>6, <3>1, WithoutHas DEF RemovesAll, Types, QueueTypes, QueueOK
  <2>2. /\ Posts(todo) = {} /\ Disposals(todo) = {} /\ Removals(todo) = {s} /\ Cutoffs(todo) = {}
        /\ Posts(todo') = {} /\ Disposals(todo') = {} /\ Removals(todo') = {} /\ Cutoffs(todo') = {}
    BY <1>6 DEF RemovesAll, Views
  <2>3. /\ Coming' \subseteq Coming
        /\ \A type \in Type : Ev(type, s) \notin Coming'
        /\ \A e \in Coming : e.state # s => e \in Coming'
    BY <1>4, <2>1, <2>2 DEF Ev
  <2>4. ~Live(s)
    BY <2>2 DEF Held, Ends
  <2>5. Ends'
    <3>1. "END" \in Type
      BY DEF Type
    <3> QED BY <1>2, <2>2, <2>3, <3>1, ViewsNext DEF Held, Ends, Live
  <2>6. Held'
    BY <1>2, <2>5, QueueHeld
  <2>7. ASSUME Promised PROVE Promised'
    <3>1. DecayGone'
      BY <2>2, ViewsNext DEF DecayGone
    <3>2. ASSUME NEW x \in State, x # s, NEW e \in Needs(x), e \in Coming PROVE e \in Coming'
      <4>1. e.state = x
        BY <3>2 DEF Needs, Ev
      <4> QED BY <2>3, <3>2, <4>1
    <3> QED BY <1>2, <2>2, <2>4, <2>7, <3>1, <3>2, QueuePromised
  <2> QED BY <2>6, <2>7
<1>7. CASE RemovesDecay(s)
  <2>1. /\ EventSet(events)' = {e \in EventSet(events) : ~(e.state = s /\ e.type \in DecayOnly)}
    <3>1. EventSet(events)' = EventSet(events')
      BY DEF EventSet
    <3> QED BY <1>7, <3>1, WithoutHas DEF RemovesDecay, Types, QueueTypes, QueueOK
  <2>2. /\ Posts(todo) = Posts(todo') /\ Disposals(todo) = Disposals(todo')
        /\ Removals(todo) = Removals(todo') /\ Cutoffs(todo) = {s} /\ Cutoffs(todo') = {}
    BY <1>7 DEF RemovesDecay, Views
  <2>3. /\ Coming' \subseteq Coming
        /\ \A e \in Coming : e # Ev("DECAY", s) => e \in Coming'
    <3>1. \A e \in EventSet(events) : e.state = s /\ e.type \in DecayOnly => e = Ev("DECAY", s)
      <4>1. EventSet(events) \subseteq Event
        BY GoodEvents DEF Types, QueueTypes, QueueOK
      <4> QED BY <4>1 DEF Event, Ev, DecayOnly
    <3> QED BY <1>4, <2>1, <2>2, <3>1
  <2>4. Ends'
    BY <1>2, <2>2, <2>3, ViewsNext DEF Held, Ends, Live, Filling
  <2>5. Held'
    BY <1>2, <2>4, QueueHeld
  <2>6. ASSUME Promised PROVE Promised'
    <3>1. DecayGone'
      BY <2>2, ViewsNext DEF DecayGone
    <3>2. ASSUME NEW x \in State, x \notin Disposals(todo), NEW e \in Needs(x), e \in Coming
          PROVE  e \in Coming'
      <4>1. CASE e # Ev("DECAY", s)
        BY <2>3, <3>2, <4>1
      <4>2. CASE e = Ev("DECAY", s)
        <5>1. x = s /\ sound[x].playingState = "PLAYING"
          BY <3>2, <4>2, NeedsAre
        <5>2. sound[s].playingState = "STOPPING"
          BY <2>2, <2>6, <3>2, <5>1 DEF Promised, DecayGone
        <5> QED BY <5>1, <5>2
      <4> QED BY <4>1, <4>2
    <3> QED BY <1>2, <2>2, <2>6, <3>1, <3>2, QueuePromised
  <2> QED BY <2>5, <2>6
<1> QED BY <1>3, <1>6, <1>7

\* Dispose: the state goes back to the free list, its voice and its pointer with it.
LEMMA DisposeHeld ==
  ASSUME Types, Held, Dispose, ~overlapped'
  PROVE  Held' /\ (Promised => Promised')
<1>1. PICK s \in State :
        /\ OnPlan(todo') /\ FreeState(s)
        /\ sound' = [sound EXCEPT ![s].playingState = "NONE", ![s].owned = FALSE]
        /\ count' = IF sound[s].playing THEN count - 1 ELSE count
        /\ handle' = IF sound[s].owned /\ handle = s THEN NULL ELSE handle
        /\ overlapped' = (overlapped \/ main.pc = "take" \/ ~MaskFree
                            \/ (Starting /\ s \in {main.item, main.latest}))
        /\ Views(todo, {}, {s}, {s}, {}) /\ Views(todo', {}, {}, {s}, {})
  BY DisposeIs
<1>2. UNCHANGED <<queue, main, dropped>> /\ todo # <<>> /\ todo' # <<>>
  BY <1>1 DEF Dispose, Doing, OnPlan
<1>3. Starts /\ Accounts /\ Ends /\ Lists(Used)
  BY DEF Held
<1>4. /\ sound \in [State -> SoundState] /\ count \in Int /\ handle \in State \cup {NULL}
      /\ main.item \in State \cup {NULL} /\ main.latest \in State \cup {NULL}
  BY DEF Types, SoundTypes, MainTypes, MainState
<1>5. /\ \A x \in State \ {s} : sound'[x] = sound[x]
      /\ sound'[s].playingState = "NONE" /\ sound' \in [State -> SoundState]
  BY <1>1, <1>4, DisposeSound
<1>6. main.pc # "take" /\ (Starting => s # main.item /\ s # main.latest)
  BY <1>1
<1>7. /\ Posts(todo) = {} /\ Disposals(todo) = {s} /\ Removals(todo) = {s} /\ Cutoffs(todo) = {}
      /\ Posts(todo') = {} /\ Disposals(todo') = {} /\ Removals(todo') = {s} /\ Cutoffs(todo') = {}
  BY <1>1 DEF Views
<1>8. Live(s)
  BY <1>3, <1>7 DEF Ends
<1>9. /\ \A x \in State \ {s} : Live(x)' = Live(x) /\ Waiting(x)' = Waiting(x)
                                /\ Endless(x)' = Endless(x) /\ Needs(x)' = Needs(x)
      /\ ~Live(s)' /\ ~Waiting(s)'
  BY <1>5 DEF Live, Waiting, Endless, Needs
<1>10. ~Filling(s) /\ \A x \in State : Filling(x)' = Filling(x)
  BY <1>2, <1>6 DEF Filling, Starting
<1>11. Lists(Used)'
  <2>1. PICK U \in SUBSET State : U = Used /\ Lists(U)
    BY <1>3, ListsOf
  <2>2. s \in U
    BY <1>8, <2>1 DEF Used
  <2>3. PICK V : V = U \ {s}
    OBVIOUS
  <2>4. Lists(V)'
    <3>1. (Lists(U \ {s}))'
      BY <1>1, <2>1, <2>2, ListsFree DEF Types, ListTypes
    <3> QED BY <2>3, <3>1
  <2>5. Used' = V
    BY <1>9, <1>10, <2>1, <2>3 DEF Used
  <2> QED BY <2>4, <2>5, ListsNow
<1>12. Starts'
  <2>1. main.pc = "fill" => sound'[main.item].playingState = "NONE"
    <3>1. main.pc = "fill" => Starting /\ main.item \in State /\ ~Live(main.item)
      BY <1>3 DEF Starting, Types, MainTypes, MainState, Starts
    <3> QED BY <3>1, <1>5, <1>6 DEF Live
  <2>2. main.pc = "post" => sound'[main.item].playingState # "NONE" /\ main.item # main.latest
    <3>1. main.pc = "post" => Starting /\ main.item \in State /\ Live(main.item)
                              /\ main.item # main.latest
      BY <1>3 DEF Starting, Types, MainTypes, MainState, Starts
    <3> QED BY <3>1, <1>5, <1>6 DEF Live
  <2>3. Starting /\ main.latest # NULL => sound'[main.latest].playingState # "NONE"
    <3>1. Starting /\ main.latest # NULL => Live(main.latest) /\ main.latest \in State \ {s}
      BY <1>3, <1>4, <1>6 DEF Starts
    <3> QED BY <3>1, <1>5 DEF Live
  <2>4. handle' \in {NULL, handle}
    BY <1>1
  <2> QED BY <1>2, <1>3, <1>6, <2>1, <2>2, <2>3, <2>4 DEF Starts, Starting, Live
<1>13. Accounts'
  <2>1. \A x \in State : Live(x)' => sound'[x].set
    BY <1>3, <1>5, <1>9 DEF Accounts
  <2>2. \A x \in State : Waiting(x)' => ~sound'[x].playing
    BY <1>3, <1>5, <1>9 DEF Accounts
  <2>3. count' = Cardinality(Voices)'
    <3>1. Voices' = Voices \ {s}
      <4>1. \A x \in State :
              (Live(x)' /\ sound'[x].playing) <=> (Live(x) /\ sound[x].playing /\ x # s)
        BY <1>5, <1>9
      <4> QED BY <4>1, Zenon DEF Voices
    <3>2. IsFiniteSet(Voices)
      <4>1. Voices \subseteq State
        BY DEF Voices
      <4> QED BY <4>1, Constants, FS_Subset
    <3>3. PICK A : A = Voices
      OBVIOUS
    <3>4. Cardinality(A \ {s}) = IF s \in A THEN Cardinality(A) - 1 ELSE Cardinality(A)
      BY <3>2, <3>3, FS_RemoveElement
    <3>5. s \in A <=> sound[s].playing
      BY <1>8, <3>3 DEF Voices
    <3>6. Cardinality(Voices)' = Cardinality(A \ {s})
      BY <3>1, <3>3
    <3>7. count = Cardinality(A)
      BY <1>3, <3>3 DEF Accounts
    <3> QED BY <1>1, <3>4, <3>5, <3>6, <3>7
  <2>4. handle' # NULL => sound'[handle'].playingState # "NONE" /\ sound'[handle'].owned
    <3>1. handle # NULL => Live(handle) /\ sound[handle].owned
      BY <1>3 DEF Accounts
    <3>2. CASE handle = s
      BY <1>1, <1>4, <3>1, <3>2
    <3>3. CASE handle # s
      <4>1. handle' = handle
        BY <1>1, <3>3
      <4>2. handle # NULL => sound'[handle] = sound[handle]
        BY <1>4, <1>5, <3>3
      <4> QED BY <3>1, <4>1, <4>2 DEF Live
    <3> QED BY <3>2, <3>3
  <2> QED BY <2>1, <2>2, <2>3, <2>4 DEF Accounts, Live
<1>14. Coming' = Coming
  <2>1. EventSet(events)' = EventSet(events)
    BY <1>2 DEF EventSet, queue
  <2> QED BY <1>2, <1>7, <2>1, ViewsNext DEF Coming
<1>15. Ends'
  BY <1>3, <1>7, <1>9, <1>10, <1>14, ViewsNext DEF Ends
<1>16. ASSUME Promised PROVE Promised'
  <2>1. HasEvent'
    <3>1. ASSUME NEW x \in State
          PROVE  \/ ~Live(x)' \/ Endless(x)'
                 \/ main'.pc = "post" /\ x = main'.item /\ Waiting(x)'
                 \/ \E e \in Needs(x)' : e \in Coming'
      <4>1. CASE x = s
        BY <1>9, <4>1
      <4>2. CASE x # s
        BY <1>2, <1>7, <1>9, <1>14, <1>16, <4>2 DEF Promised, HasEvent
      <4> QED BY <4>1, <4>2
    <3> QED BY <3>1 DEF HasEvent
  <2>2. DecayGone'
    BY <1>7, ViewsNext DEF DecayGone
  <2> QED BY <2>1, <2>2 DEF Promised
<1> QED BY <1>11, <1>12, <1>13, <1>15, <1>16 DEF Held

\* What a reaction has to keep.
LEMMA ReactHeld ==
  ASSUME Types, Held, UNCHANGED <<queue, lists, handle, main>>,
         Views(todo, {}, {}, {}, {}), todo' # <<>>,
         \A x \in State : Keeps(x) /\ Live(x)' = Live(x) /\ (Waiting(x)' => ~sound'[x].playing),
         count' = Cardinality(Voices)',
         \A x \in State : Ev("END", x) \in Posts(todo') => Live(x),
         \A x \in State : x \in Disposals(todo') => Live(x),
         Removals(todo') \subseteq Disposals(todo')
  PROVE  Held'
<1>1. Starts /\ Accounts /\ Ends /\ Lists(Used)
  BY DEF Held
<1>2. /\ main.item \in State \cup {NULL} /\ main.latest \in State \cup {NULL}
      /\ handle \in State \cup {NULL}
      /\ \A pc \in {"take", "fill", "post"} : main.pc = pc => main.item \in State
  BY DEF Types, MainTypes, MainState, SoundTypes
<1>3. \A x \in State : sound'[x].playingState # "NONE" <=> sound[x].playingState # "NONE"
  BY DEF Live
<1>4. Starts'
  <2>1. Starting' = Starting
    BY DEF Starting
  <2>2. head' = head /\ main' = main /\ handle' = handle
    BY DEF lists
  <2> QED BY <1>1, <1>2, <1>3, <2>1, <2>2 DEF Starts, Live
<1>5. Used' = Used
  <2>1. \A x \in State : Filling(x)' = Filling(x)
    BY DEF Filling
  <2> QED BY <2>1 DEF Used
<1>6. Lists(Used)'
  <2>1. PICK U \in SUBSET State : U = Used /\ Lists(U)
    BY <1>1, ListsOf
  <2>2. Lists(U)'
    BY <2>1, ListsStay
  <2> QED BY <1>5, <2>1, <2>2, ListsNow
<1>7. Accounts'
  <2>1. \A x \in State : Live(x)' => sound'[x].set
    BY <1>1 DEF Accounts, Keeps
  <2>2. handle' # NULL => sound'[handle'].playingState # "NONE" /\ sound'[handle'].owned
    BY <1>1, <1>2, <1>3 DEF Accounts, Keeps, Live
  <2> QED BY <2>1, <2>2 DEF Accounts, Live
<1>8. Ends'
  <2>1. Posts(todo) = {} /\ Removals(todo) = {}
    BY DEF Views
  <2>2. EventSet(events)' = EventSet(events)
    BY DEF EventSet, queue
  <2>3. Coming' = EventSet(events) \cup Posts(todo')
    BY <2>2, ViewsNext DEF Coming
  <2>4. \A x \in State : Ev("END", x) \in EventSet(events) => Live(x)
    BY <1>1, <2>1 DEF Ends, Coming
  <2> QED BY <2>3, <2>4, ViewsNext DEF Ends
<1> QED BY <1>4, <1>6, <1>7, <1>8 DEF Held

\* A reaction keeps Promised if each sound gets the event it needs, or keeps the one it has.
LEMMA ReactPromised ==
  ASSUME Promised, UNCHANGED <<queue, main>>, Views(todo, {}, {}, {}, {}), todo' # <<>>,
         \A x \in State : Live(x)' = Live(x),
         \A x \in State : Live(x) =>
            \/ x \in Disposals(todo') \/ Endless(x)' \/ \E e \in Needs(x)' : e \in Posts(todo')
            \/ sound'[x] = sound[x] /\ (todo = <<>> => nextEvent \notin Needs(x)),
         \A x \in State :
            x \in Cutoffs(todo') => x \in Disposals(todo') \/ sound'[x].playingState = "STOPPING"
  PROVE  Promised'
<1>1. Posts(todo) = {} /\ Disposals(todo) = {}
  BY DEF Views
<1>2. EventSet(events)' = EventSet(events)
  BY DEF EventSet, queue
<1>3. Coming' = EventSet(events) \cup Posts(todo')
  BY <1>2, ViewsNext DEF Coming
<1>4. HasEvent'
  <2>1. ASSUME NEW x \in State, Live(x), x \notin Disposals(todo'), ~Endless(x)',
               ~(main'.pc = "post" /\ x = main'.item /\ Waiting(x)')
        PROVE  \E e \in Needs(x)' : e \in Coming'
    <3>1. CASE \E e \in Needs(x)' : e \in Posts(todo')
      BY <3>1, <1>3
    <3>2. CASE sound'[x] = sound[x] /\ (todo = <<>> => nextEvent \notin Needs(x))
      <4>1. Waiting(x)' = Waiting(x) /\ Endless(x)' = Endless(x) /\ Needs(x)' = Needs(x)
        BY <3>2 DEF Waiting, Endless, Needs
      <4>2. PICK e \in Needs(x) : e \in Coming
        BY <1>1, <2>1, <4>1 DEF Promised, HasEvent
      <4>3. e \in EventSet(events)
        BY <1>1, <3>2, <4>2 DEF Coming
      <4> QED BY <1>3, <4>1, <4>2, <4>3
    <3> QED BY <2>1, <3>1, <3>2
  <2> QED BY <2>1, ViewsNext DEF HasEvent
<1>5. DecayGone'
  BY ViewsNext DEF DecayGone
<1> QED BY <1>4, <1>5 DEF Promised

\* The event in hand is for one sound, and no other needs it.
LEMMA ForOther ==
  ASSUME NEW s \in State, For(s), NEW x \in State, x # s, todo = <<>>
  PROVE  nextEvent \notin Needs(x)
<1>1. PICK type \in Type \ {"API"} : nextEvent = Ev(type, s)
  BY DEF For
<1> QED BY <1>1, NeedsAre

\* One voice more
LEMMA VoicesGrow ==
  ASSUME Types, Accounts, NEW s \in State, Plays(s)
  PROVE  count' = Cardinality(Voices)'
<1>1. /\ \A x \in State \ {s} : sound'[x] = sound[x]
      /\ sound'[s].playing /\ sound'[s].playingState = "PLAYING"
  BY PlaysSound
<1>2. ~sound[s].playing /\ count' = count + 1
  BY DEF Plays, Accounts
<1>3. Voices' = Voices \cup {s}
  <2>1. \A x \in State :
          (Live(x)' /\ sound'[x].playing) <=> ((Live(x) /\ sound[x].playing) \/ x = s)
    BY <1>1 DEF Live
  <2> QED BY <2>1, Zenon DEF Voices
<1>4. PICK A : A = Voices
  OBVIOUS
<1>5. IsFiniteSet(A) /\ s \notin A
  <2>1. A \subseteq State
    BY <1>4 DEF Voices
  <2> QED BY <1>2, <1>4, <2>1, Constants, FS_Subset DEF Voices
<1>6. Cardinality(A \cup {s}) = Cardinality(A) + 1
  BY <1>5, FS_AddElement
<1>7. Cardinality(Voices)' = Cardinality(A \cup {s})
  BY <1>3, <1>4
<1>8. count = Cardinality(A)
  BY <1>4 DEF Accounts
<1> QED BY <1>2, <1>6, <1>7, <1>8

\* The voices stay counted right when no sound gets or loses one.
LEMMA VoicesSame ==
  ASSUME Accounts, UNCHANGED count,
         \A x \in State : Live(x)' = Live(x) /\ sound'[x].playing = sound[x].playing
  PROVE  count' = Cardinality(Voices)'
<1>1. Voices' = Voices
  <2>1. \A x \in State : (Live(x)' /\ sound'[x].playing) <=> (Live(x) /\ sound[x].playing)
    OBVIOUS
  <2> QED BY <2>1, Zenon DEF Voices
<1> QED BY <1>1 DEF Accounts

\* The victim of a sound that wants a voice is in use.
LEMMA VictimLive ==
  ASSUME Types, Held, NEW s \in State, NEW v \in Victims, Preempts(s, v),
         HandleEvent \/ GoOn, ~overlapped'
  PROVE  Live(v)
<1>1. v \in State /\ sound[v].playingState # "PREEMPT"
      /\ \E n \in 0 .. NumStates : v = Chain(prev, last)[n]
  BY VictimsAre
<1>2. PICK U \in SUBSET State : U = Used /\ Lists(U)
  BY ListsOf DEF Held
<1>3. v \in U
  <2>1. \A n \in 0 .. NumStates : Chain(prev, last)[n] \in U \cup {NULL}
    BY <1>2, ListsReach DEF Types, ListTypes
  <2> QED BY <1>1, <2>1, Constants
<1>4. CASE Filling(v)
  <2>1. todo = <<>>
    BY DEF Preempts
  <2>2. HandleEvent
    BY <2>1 DEF GoOn, Doing
  <2>3. ~(main.pc = "fill" /\ sound'[main.item] # sound[main.item])
    BY <2>2 DEF HandleEvent
  <2>4. sound'[v] = sound[v]
    BY <1>4, <2>3 DEF Filling
  <2>5. sound'[v].playingState = "PREEMPT"
    BY PreemptsSound
  <2> QED BY <1>1, <2>4, <2>5
<1> QED BY <1>2, <1>3, <1>4 DEF Used

\* The different events are told apart.
LEMMA EndsOnly ==
  ASSUME NEW s \in State, NEW x \in State
  PROVE  /\ Ev("END", x) # Ev("DECAY", s)
         /\ Ev("END", x) # Ev("PLAY", s) /\ Ev("END", x) # Ev("STOP", s)
         /\ Ev("END", x) # Heartbeat /\ (Ev("END", x) = Ev("END", s) => x = s)
BY DEF Ev, Heartbeat

\* HandleEvent and GoOn keep the invariant, whatever the event and the sound.
LEMMA ReactionHeld ==
  ASSUME Types, Held, HandleEvent \/ GoOn, ~overlapped'
  PROVE  Held' /\ (Promised => Promised')
<1>1. Reaction /\ Views(todo, {}, {}, {}, {})
  BY Reacts
<1>2. todo' # <<>>
  BY <1>1, ReactionViews
<1>3. UNCHANGED <<queue, lists, handle, main>>
  BY DEF HandleEvent, GoOn
<1>4. Accounts /\ Ends
  BY DEF Held
<1>5. Removals(todo) = {}
  BY <1>1 DEF Views
<1>6. CASE Ignored \/ Beats
  <2>1. UNCHANGED <<sound, count>>
    BY <1>6 DEF Ignored, Beats
  <2>2. /\ Posts(todo') \subseteq {Heartbeat} /\ Disposals(todo') = {} /\ Removals(todo') = {}
        /\ Cutoffs(todo') = {}
    <3>1. Views(todo', {}, {}, {}, {}) \/ Views(todo', {Heartbeat}, {}, {}, {})
      BY <1>1, <1>6, ReactionViews
    <3> QED BY <3>1 DEF Views
  <2>3. \A x \in State : /\ Keeps(x) /\ Live(x)' = Live(x) /\ (Waiting(x)' => ~sound'[x].playing)
                         /\ sound'[x].playing = sound[x].playing
    BY <1>4, <2>1 DEF Keeps, Live, Waiting, Accounts
  <2>4. Held'
    <3>1. count' = Cardinality(Voices)'
      BY <1>4, <2>1, <2>3, VoicesSame
    <3>2. \A x \in State : Ev("END", x) \notin Posts(todo')
      BY <2>2, EndsOnly
    <3> QED BY <1>1, <1>2, <1>3, <2>2, <2>3, <3>1, <3>2, ReactHeld
  <2>5. ASSUME Promised PROVE Promised'
    <3>1. ASSUME NEW x \in State, Live(x)
          PROVE  Endless(x)' \/ (sound'[x] = sound[x] /\ (todo = <<>> => nextEvent \notin Needs(x)))
      <4>1. CASE Ignored /\ todo = <<>> /\ nextEvent \in Needs(x)
        <5>1. ~sound[x].set \/ Endless(x)
          BY <4>1 DEF Ignored
        <5>2. Endless(x)
          BY <1>4, <3>1, <5>1 DEF Accounts
        <5> QED BY <2>1, <5>2 DEF Endless
      <4>2. CASE Beats
        BY <2>1, <4>2, NeedsAre DEF Beats
      <4> QED BY <1>6, <2>1, <4>1, <4>2
    <3> QED BY <1>1, <1>2, <1>3, <2>2, <2>3, <2>5, <3>1, ReactPromised
  <2> QED BY <2>4, <2>5
<1>7. ASSUME NEW s \in State, Plays(s)
      PROVE  Held' /\ (Promised => Promised')
  <2>1. /\ \A x \in State \ {s} : sound'[x] = sound[x]
        /\ Keeps(s) /\ sound'[s].playingState = "PLAYING"
    BY <1>7, PlaysSound
  <2>2. /\ Posts(todo') = {Ev("DECAY", s)} /\ Disposals(todo') = {} /\ Removals(todo') = {}
        /\ Cutoffs(todo') = {}
    BY <1>1, <1>7, ReactionViews DEF Views
  <2>3. \A x \in State : Keeps(x) /\ Live(x)' = Live(x) /\ (Waiting(x)' => ~sound'[x].playing)
    <3>1. Live(s)' = Live(s) /\ ~Waiting(s)'
      BY <1>7, <2>1 DEF Plays, Live, Waiting
    <3>2. ASSUME NEW x \in State, x # s
          PROVE  Keeps(x) /\ Live(x)' = Live(x) /\ (Waiting(x)' => ~sound'[x].playing)
      BY <1>4, <2>1, <3>2 DEF Keeps, Live, Waiting, Accounts
    <3> QED BY <2>1, <3>1, <3>2
  <2>4. Held'
    <3>1. count' = Cardinality(Voices)'
      BY <1>4, <1>7, VoicesGrow
    <3>2. \A x \in State : Ev("END", x) \notin Posts(todo')
      BY <2>2, EndsOnly
    <3> QED BY <1>1, <1>2, <1>3, <2>2, <2>3, <3>1, <3>2, ReactHeld
  <2>5. ASSUME Promised PROVE Promised'
    <3>1. Ev("DECAY", s) \in Needs(s)'
      BY <2>1 DEF Needs, Waiting
    <3>2. \A x \in State :
            x # s => sound'[x] = sound[x] /\ (todo = <<>> => nextEvent \notin Needs(x))
      BY <1>7, <2>1, ForOther DEF Plays
    <3> QED BY <1>1, <1>2, <1>3, <2>2, <2>3, <2>5, <3>1, <3>2, ReactPromised
  <2> QED BY <2>4, <2>5
<1>8. ASSUME NEW s \in State, Waits(s)
      PROVE  Held' /\ (Promised => Promised')
  <2>1. /\ \A x \in State \ {s} : sound'[x] = sound[x]
        /\ KeepsVoice(s) /\ sound'[s].playingState = "WAIT_VOICE"
    BY <1>8, WaitsSound
  <2>2. /\ Posts(todo') = {Ev("PLAY", s)} /\ Disposals(todo') = {} /\ Removals(todo') = {}
        /\ Cutoffs(todo') = {}
    BY <1>1, <1>8, ReactionViews DEF Views
  <2>3. \A x \in State : /\ Keeps(x) /\ Live(x)' = Live(x) /\ (Waiting(x)' => ~sound'[x].playing)
                         /\ sound'[x].playing = sound[x].playing
    <3>1. /\ Live(s)' = Live(s) /\ ~sound'[s].playing /\ Keeps(s)
          /\ sound'[s].playing = sound[s].playing
      BY <1>4, <1>8, <2>1 DEF Waits, Live, Waiting, Accounts, KeepsVoice
    <3>2. ASSUME NEW x \in State, x # s
          PROVE  /\ Keeps(x) /\ Live(x)' = Live(x) /\ (Waiting(x)' => ~sound'[x].playing)
                 /\ sound'[x].playing = sound[x].playing
      BY <1>4, <2>1, <3>2 DEF Keeps, Live, Waiting, Accounts
    <3> QED BY <3>1, <3>2
  <2>4. Held'
    <3>1. count' = Cardinality(Voices)'
      BY <1>4, <1>8, <2>3, VoicesSame DEF Waits
    <3>2. \A x \in State : Ev("END", x) \notin Posts(todo')
      BY <2>2, EndsOnly
    <3> QED BY <1>1, <1>2, <1>3, <2>2, <2>3, <3>1, <3>2, ReactHeld
  <2>5. ASSUME Promised PROVE Promised'
    <3>1. Ev("PLAY", s) \in Needs(s)'
      BY <2>1 DEF Needs, Waiting
    <3>2. \A x \in State :
            x # s => sound'[x] = sound[x] /\ (todo = <<>> => nextEvent \notin Needs(x))
      BY <1>8, <2>1, ForOther DEF Waits
    <3> QED BY <1>1, <1>2, <1>3, <2>2, <2>3, <2>5, <3>1, <3>2, ReactPromised
  <2> QED BY <2>4, <2>5
<1>9. ASSUME NEW s \in State, NEW v \in Victims, Preempts(s, v)
      PROVE  Held' /\ (Promised => Promised')
  <2>1. /\ \A x \in State \ {s, v} : sound'[x] = sound[x]
        /\ KeepsVoice(s) /\ KeepsVoice(v) /\ sound'[v].playingState = "PREEMPT"
        /\ s # v => sound'[s].playingState = sound[s].playingState
    BY <1>9, PreemptsSound
  <2>2. /\ Posts(todo') = {Ev("END", v), Ev("PLAY", s)} /\ Disposals(todo') = {}
        /\ Removals(todo') = {} /\ Cutoffs(todo') = {}
    BY <1>1, <1>9, ReactionViews DEF Views
  <2>3. v \in State /\ Live(v) /\ Waiting(s) /\ For(s) /\ UNCHANGED count
    BY <1>9, VictimsAre, VictimLive DEF Preempts
  <2>4. \A x \in State : /\ Keeps(x) /\ Live(x)' = Live(x) /\ (Waiting(x)' => ~sound'[x].playing)
                         /\ sound'[x].playing = sound[x].playing
    <3>1. Live(v)' = Live(v) /\ ~Waiting(v)' /\ Keeps(v) /\ sound'[v].playing = sound[v].playing
      BY <2>1, <2>3 DEF Live, Waiting, KeepsVoice
    <3>2. ASSUME s # v
          PROVE  Live(s)' = Live(s) /\ ~sound'[s].playing /\ Keeps(s)
                 /\ sound'[s].playing = sound[s].playing
      BY <1>4, <2>1, <2>3, <3>2 DEF Live, Waiting, Accounts, KeepsVoice
    <3>3. ASSUME NEW x \in State, x # s, x # v
          PROVE  /\ Keeps(x) /\ Live(x)' = Live(x) /\ (Waiting(x)' => ~sound'[x].playing)
                 /\ sound'[x].playing = sound[x].playing
      BY <1>4, <2>1, <3>3 DEF Keeps, Live, Waiting, Accounts
    <3> QED BY <2>3, <3>1, <3>2, <3>3
  <2>5. Held'
    <3>1. count' = Cardinality(Voices)'
      BY <1>4, <2>3, <2>4, VoicesSame
    <3>2. \A x \in State : Ev("END", x) \in Posts(todo') => Live(x)
      BY <2>2, <2>3, EndsOnly
    <3> QED BY <1>1, <1>2, <1>3, <2>2, <2>4, <3>1, <3>2, ReactHeld
  <2>6. ASSUME Promised PROVE Promised'
    <3>1. Ev("END", v) \in Needs(v)'
      BY <2>1 DEF Needs, Waiting
    <3>2. s # v => Ev("PLAY", s) \in Needs(s)'
      BY <2>1, <2>3 DEF Needs, Waiting
    <3>3. \A x \in State : x # s /\ x # v =>
            sound'[x] = sound[x] /\ (todo = <<>> => nextEvent \notin Needs(x))
      BY <2>1, <2>3, ForOther
    <3>4. ASSUME NEW x \in State
          PROVE  \/ \E e \in Needs(x)' : e \in Posts(todo')
                 \/ sound'[x] = sound[x] /\ (todo = <<>> => nextEvent \notin Needs(x))
      BY <2>2, <3>1, <3>2, <3>3
    <3> QED BY <1>1, <1>2, <1>3, <2>2, <2>4, <2>6, <3>4, ReactPromised
  <2> QED BY <2>5, <2>6
<1>10. ASSUME NEW s \in State, Disposes(s) \/ Decays(s) \/ Cuts(s)
       PROVE  Held' /\ (Promised => Promised')
  <2>1. UNCHANGED <<sound, count>> /\ For(s)
    BY <1>10 DEF Disposes, Decays, Cuts
  <2>2. \/ /\ Posts(todo') = {Ev("STOP", s)} /\ Disposals(todo') = {} /\ Removals(todo') = {}
           /\ Cutoffs(todo') = {} /\ Decays(s)
        \/ /\ Posts(todo') = {} /\ Disposals(todo') = {s} /\ Removals(todo') = {s}
           /\ Cutoffs(todo') \subseteq {s} /\ Live(s)
    <3>1. CASE Decays(s)
      BY <1>1, <3>1, ReactionViews DEF Views
    <3>2. CASE Disposes(s)
      <4>1. Live(s)
        <5>1. CASE Waiting(s)
          BY <5>1 DEF Waiting, Live
        <5>2. CASE todo = <<>> /\ nextEvent = Ev("END", s)
          <6>1. Ev("END", s) \in Coming
            BY <5>2 DEF Coming
          <6> QED BY <1>4, <1>5, <6>1 DEF Ends
        <5> QED BY <3>2, <5>1, <5>2 DEF Disposes
      <4> QED BY <1>1, <3>2, <4>1, ReactionViews DEF Views
    <3>3. CASE Cuts(s)
      <4>1. Live(s)
        BY <3>3 DEF Cuts, Live
      <4> QED BY <1>1, <3>3, <4>1, ReactionViews DEF Views
    <3> QED BY <1>10, <3>1, <3>2, <3>3
  <2>3. \A x \in State : /\ Keeps(x) /\ Live(x)' = Live(x) /\ (Waiting(x)' => ~sound'[x].playing)
                         /\ sound'[x].playing = sound[x].playing
    BY <1>4, <2>1 DEF Keeps, Live, Waiting, Accounts
  <2>4. Held'
    <3>1. count' = Cardinality(Voices)'
      BY <1>4, <2>1, <2>3, VoicesSame
    <3>2. \A x \in State : Ev("END", x) \notin Posts(todo')
      BY <2>2, EndsOnly
    <3>3. \A x \in State : x \in Disposals(todo') => Live(x)
      BY <2>2
    <3>4. Removals(todo') \subseteq Disposals(todo')
      BY <2>2
    <3> QED BY <1>1, <1>2, <1>3, <2>3, <3>1, <3>2, <3>3, <3>4, ReactHeld
  <2>5. ASSUME Promised PROVE Promised'
    <3>1. \A x \in State :
            x # s => sound'[x] = sound[x] /\ (todo = <<>> => nextEvent \notin Needs(x))
      BY <2>1, ForOther
    <3>2. \/ s \in Disposals(todo') \/ \E e \in Needs(s)' : e \in Posts(todo')
          \/ sound'[s] = sound[s] /\ (todo = <<>> => nextEvent \notin Needs(s))
      <4>1. CASE s \notin Disposals(todo') /\ nextEvent \in Needs(s)
        <5>1. Posts(todo') = {Ev("STOP", s)} /\ nextEvent = Ev("DECAY", s)
          BY <2>2, <4>1 DEF Decays
        <5>2. sound[s].playingState = "PLAYING"
          BY <4>1, <5>1, NeedsAre
        <5>3. Ev("STOP", s) \in Needs(s)'
          BY <2>1, <5>2 DEF Needs, Waiting
        <5> QED BY <5>1, <5>3
      <4> QED BY <2>1, <4>1
    <3>3. \A x \in State : x \in Cutoffs(todo') => x \in Disposals(todo')
      BY <2>2
    <3>4. ASSUME NEW x \in State
          PROVE  \/ x \in Disposals(todo') \/ \E e \in Needs(x)' : e \in Posts(todo')
                 \/ sound'[x] = sound[x] /\ (todo = <<>> => nextEvent \notin Needs(x))
      BY <3>1, <3>2
    <3> QED BY <1>1, <1>2, <1>3, <2>3, <2>5, <3>3, <3>4, ReactPromised
  <2> QED BY <2>4, <2>5
<1>11. ASSUME NEW s \in State, Releases(s)
       PROVE  Held' /\ (Promised => Promised')
  <2>1. /\ \A x \in State \ {s} : sound'[x] = sound[x]
        /\ KeepsVoice(s) /\ sound'[s].playingState = "STOPPING"
    BY <1>11, ReleasesSound
  <2>2. /\ Posts(todo') = {Ev("END", s)} /\ Disposals(todo') = {} /\ Removals(todo') = {}
        /\ Cutoffs(todo') = {s}
    BY <1>1, <1>11, ReactionViews DEF Views
  <2>3. Live(s) /\ For(s) /\ UNCHANGED count
    BY <1>11 DEF Releases, Live
  <2>4. \A x \in State : /\ Keeps(x) /\ Live(x)' = Live(x) /\ (Waiting(x)' => ~sound'[x].playing)
                         /\ sound'[x].playing = sound[x].playing
    <3>1. Live(s)' = Live(s) /\ ~Waiting(s)' /\ Keeps(s) /\ sound'[s].playing = sound[s].playing
      BY <2>1, <2>3 DEF Live, Waiting, KeepsVoice
    <3>2. ASSUME NEW x \in State, x # s
          PROVE  /\ Keeps(x) /\ Live(x)' = Live(x) /\ (Waiting(x)' => ~sound'[x].playing)
                 /\ sound'[x].playing = sound[x].playing
      BY <1>4, <2>1, <3>2 DEF Keeps, Live, Waiting, Accounts
    <3> QED BY <2>3, <3>1, <3>2
  <2>5. Held'
    <3>1. count' = Cardinality(Voices)'
      BY <1>4, <2>3, <2>4, VoicesSame
    <3>2. \A x \in State : Ev("END", x) \in Posts(todo') => Live(x)
      BY <2>2, <2>3, EndsOnly
    <3> QED BY <1>1, <1>2, <1>3, <2>2, <2>4, <3>1, <3>2, ReactHeld
  <2>6. ASSUME Promised PROVE Promised'
    <3>1. Ev("END", s) \in Needs(s)'
      BY <2>1 DEF Needs, Waiting
    <3>2. \A x \in State :
            x # s => sound'[x] = sound[x] /\ (todo = <<>> => nextEvent \notin Needs(x))
      BY <2>1, <2>3, ForOther
    <3>3. ASSUME NEW x \in State
          PROVE  \/ \E e \in Needs(x)' : e \in Posts(todo')
                 \/ sound'[x] = sound[x] /\ (todo = <<>> => nextEvent \notin Needs(x))
      BY <2>2, <3>1, <3>2
    <3> QED BY <1>1, <1>2, <1>3, <2>1, <2>2, <2>4, <2>6, <3>3, ReactPromised
  <2> QED BY <2>5, <2>6
<1> QED BY <1>1, <1>6, <1>7, <1>8, <1>9, <1>10, <1>11 DEF Reaction

-------------------------------------------------------------------------------
(* The theorems.                                                           *)

\* The invariant holds at first,
LEMMA InvInit ==
  ASSUME Init
  PROVE  Inv
<1>1. Types
  BY TypesInit
<1>2. /\ events = <<>> /\ nextEvent = Heartbeat /\ todo = <<>> /\ sound = [s \in State |-> Silent]
      /\ count = 0 /\ handle = NULL /\ main = Idle
  BY DEF Init
<1>3. main.pc = "idle"
  BY <1>2, IdleIs
<1>4. \A s \in State : ~Live(s) /\ ~Waiting(s) /\ ~Filling(s)
  BY <1>2, <1>3 DEF Live, Waiting, Filling, Silent
<1>5. Lists(Used)
  <2>1. Used = {}
    BY <1>4 DEF Used
  <2> QED BY <2>1, ListsInit
<1>6. Starts
  BY <1>3 DEF Starts, Starting
<1>7. Accounts
  <2>1. Voices = {}
    BY <1>4 DEF Voices
  <2> QED BY <1>2, <1>4, <2>1, FS_EmptySet DEF Accounts
<1>8. Views(todo, {}, {}, {}, {})
  BY <1>2, NothingToDo
<1>9. Ends
  <2>1. EventSet(events) = {}
    BY <1>2 DEF EventSet
  <2>2. Coming = {Heartbeat}
    BY <1>2, <1>8, <2>1 DEF Coming, Views
  <2> QED BY <1>8, <2>2, EndsOnly DEF Ends, Views
<1>10. Promised
  BY <1>4, <1>8 DEF Promised, HasEvent, DecayGone, Views
<1> QED BY <1>1, <1>5, <1>6, <1>7, <1>9, <1>10 DEF Inv, Held

\* and every action keeps it.
LEMMA InvNext ==
  ASSUME Inv, [Next]_vars
  PROVE  Inv'
<1>1. Types /\ (~overlapped => Held /\ (~dropped => Promised))
  BY DEF Inv
<1>2. Types'
  BY <1>1, GameTypes, AudioTypes, TypesStill DEF Next
<1>3. CASE UNCHANGED vars
  <2> SUFFICES ASSUME ~overlapped' PROVE Held' /\ (~dropped' => Promised')
    BY <1>2 DEF Inv
  <2>1. UNCHANGED <<queue, todo, lists, sound, count, handle, main, overlapped, dropped>>
    BY <1>3 DEF vars
  <2>2. Alike
    BY <2>1 DEF Alike
  <2>3. Coming' = Coming
    BY <2>1, ComingSame DEF queue
  <2>4. \A s \in State : Filling(s)' = Filling(s)
    BY <2>1 DEF Filling
  <2>5. Held
    BY <1>1, <2>1
  <2>6. Starts'
    BY <2>1, <2>5 DEF Held, Starts, Starting, Live, lists
  <2>7. handle' \in State \cup {NULL}
    BY <1>1, <2>1 DEF Types, SoundTypes
  <2>8. handle' # NULL => sound'[handle'].playingState # "NONE" /\ sound'[handle'].owned
    BY <2>1, <2>5 DEF Held, Accounts, Live
  <2>9. Held'
    BY <2>1, <2>2, <2>3, <2>4, <2>5, <2>6, <2>7, <2>8, HeldStays
  <2>10. ASSUME ~dropped' PROVE Promised'
    <3>1. Promised
      BY <1>1, <2>1, <2>10
    <3>2. main' = main /\ todo' = todo
      BY <2>1
    <3>3. DecayGone'
      BY <2>1, <3>1 DEF Promised, DecayGone, Cutoffs, Disposals
    <3>4. HasEvent'
      <4>1. \A s \in State : /\ Live(s)' = Live(s) /\ Waiting(s)' = Waiting(s)
                             /\ Endless(s)' = Endless(s) /\ Needs(s)' = Needs(s)
        BY <2>2, AlikeSame
      <4>2. Disposals(todo)' = Disposals(todo)
        BY <3>2 DEF Disposals
      <4> QED BY <2>3, <3>1, <3>2, <4>1, <4>2 DEF Promised, HasEvent
    <3> QED BY <3>3, <3>4 DEF Promised
  <2> QED BY <2>9, <2>10
<1>4. CASE Game
  <2> SUFFICES ASSUME ~overlapped' PROVE Held' /\ (~dropped' => Promised')
    BY <1>2 DEF Inv
  <2>1. ~overlapped
    BY <1>4 DEF Game, PlaySfx, LookAgain, Take, Fill, PostPlay, Finish, Check, Deactivate, Walk,
                WalkStep
  <2>2. ASSUME ~dropped' PROVE ~dropped
    <3>1. \A e, d : Post(e, d) => ~dropped
      BY <2>2 DEF Post
    <3> QED BY <1>4, <2>2, <3>1
         DEF Game, PlaySfx, LookAgain, Take, Fill, PostPlay, Finish, Check, Deactivate, Walk,
             WalkStep
  <2>3. Held' /\ (Promised /\ ~dropped' => Promised')
    BY <1>1, <1>4, <2>1, PlaySfxHeld, LookAgainHeld, OthersHeld, TakeHeld, FillHeld, PostPlayHeld,
       FinishHeld, DeactivateHeld, WalkStepHeld DEF Game
  <2> QED BY <1>1, <2>1, <2>2, <2>3
<1>5. CASE Audio
  <2> SUFFICES ASSUME ~overlapped' PROVE Held' /\ (~dropped' => Promised')
    BY <1>2 DEF Inv
  <2>1. ~overlapped
    BY <1>5 DEF Audio, HandleEvent, GoOn, PostEvent, Dispose, RemoveEvents, GetNext
  <2>2. ASSUME ~dropped' PROVE ~dropped
    <3>1. \A e, d : Post(e, d) => ~dropped
      BY <2>2 DEF Post
    <3> QED BY <1>5, <2>2, <3>1
         DEF Audio, HandleEvent, GoOn, PostEvent, Dispose, RemoveEvents, GetNext
  <2>3. Held' /\ (Promised /\ ~dropped' => Promised')
    BY <1>1, <1>5, <2>1, ReactionHeld, PostEventHeld, DisposeHeld, RemoveHeld, GetNextHeld DEF Audio
  <2> QED BY <1>1, <2>1, <2>2, <2>3
<1> QED BY <1>3, <1>4, <1>5 DEF Next

\* At every step of the main thread (sndPlaySfx, sndDeactivate, the walks of the list) and
\* of the audio manager (sndPlayerVoiceHandler), whatever their interleaving, the states of
\* the player keep their types; unless a sound was disposed of or cut off in the middle of a
\* start or a walk, the lists, the voices and the game's pointer agree with the sounds, and
\* unless an event was refused besides, every sound has an event that it waits for.
THEOREM Invariant == Spec => []Inv
<1>1. Init => Inv
  BY InvInit
<1>2. Inv /\ [Next]_vars => Inv'
  BY InvNext
<1> QED BY <1>1, <1>2, PTL DEF Spec

\* It implies SoundsAccounted,
LEMMA InvAccounts ==
  ASSUME Inv
  PROVE  SoundsAccounted
<1> DEFINE free == {Chain(next, head)[n] : n \in 0 .. NumStates} \ {NULL}
           used == {Chain(next, first)[n] : n \in 0 .. NumStates} \ {NULL}
<1> SUFFICES ASSUME ~overlapped
             PROVE  /\ free \cup used = State /\ free \cap used = {}
                    /\ \A s \in State : next[s] # NULL => prev[next[s]] = s
                    /\ used # {} => next[last] = NULL /\ last \in used
                    /\ count = Cardinality({s \in used : /\ sound[s].playing
                                                         /\ sound[s].playingState # "NONE"})
                    /\ handle # NULL => handle \in used /\ sound[handle].owned
  BY DEF SoundsAccounted
<1>1. Held /\ Types
  BY DEF Inv
<1>2. PICK U \in SUBSET State : U = Used /\ Lists(U)
  BY <1>1, ListsOf DEF Held
<1>3. /\ free = State \ U /\ used = U
      /\ \A s \in State : next[s] # NULL => prev[next[s]] = s
      /\ U # {} => next[last] = NULL /\ last \in U
  BY <1>1, <1>2, ListsReach DEF Types, ListTypes
<1> HIDE DEF free, used
<1>4. free \cup used = State /\ free \cap used = {}
  BY <1>3
<1>5. {s \in used : sound[s].playing /\ sound[s].playingState # "NONE"} = Voices
  <2>1. \A s : s \in Voices <=> s \in State /\ Live(s) /\ sound[s].playing
    BY DEF Voices
  <2>2. \A s : s \in U <=> s \in State /\ (Live(s) \/ Filling(s))
    BY <1>2 DEF Used
  <2> QED BY <1>3, <2>1, <2>2 DEF Live
<1>6. count = Cardinality(Voices)
  BY <1>1 DEF Held, Accounts
<1>7. handle # NULL => handle \in used /\ sound[handle].owned
  BY <1>1, <1>2, <1>3 DEF Held, Accounts, Types, SoundTypes, Used
<1> QED BY <1>3, <1>4, <1>5, <1>6, <1>7

\* Unless a sound was disposed of or cut off in the middle of a start or a walk (snd.c),
\* each state is on one of the two lists, which are linked soundly in both directions, the
\* voices in g_sndAllocatedVoicesCount are those of the sounds in use, and the pointer the
\* game keeps is to a sound in use that knows of it.
THEOREM SoundsAreAccounted == Spec => []SoundsAccounted
BY Invariant, InvAccounts, PTL

\* and SoundHasEvent.
LEMMA InvHasEvent ==
  ASSUME Inv
  PROVE  SoundHasEvent
<1> SUFFICES ASSUME Unspoilt, NEW s \in State \ {main.item}
             PROVE  \/ sound[s].playingState = "NONE" \/ s \in Disposals(todo)
                    \/ sound[s].looped /\ sound[s].playingState = "PLAYING"
                    \/ \E type \in {"PLAY", "DECAY", "STOP", "END"} : Ev(type, s) \in Coming
  BY DEF SoundHasEvent, Coming, EventSet, Posts, Disposals
<1>1. Held /\ Promised
  BY DEF Inv, Unspoilt
<1>2. \/ ~Live(s) \/ s \in Disposals(todo) \/ Endless(s) \/ \E e \in Needs(s) : e \in Coming
  BY <1>1 DEF Promised, HasEvent
<1>3. \A e \in Needs(s) : \E type \in {"PLAY", "DECAY", "STOP", "END"} : e = Ev(type, s)
  BY DEF Needs
<1> QED BY <1>2, <1>3 DEF Live, Endless

\* A sound in use has an event to come, or one being handled, that ends it or leads to one
\* that does, unless it is looped and plays: no sound effect keeps its state and its voice
\* for ever because its event was removed (sndRemoveEvents) with those of another.
THEOREM SoundsHaveEvents == Spec => []SoundHasEvent
BY Invariant, InvHasEvent, PTL

-------------------------------------------------------------------------------
(* The event queue keeps what EventSchedule promises.                      *)

\* a is the agenda of the list, whose items fall due at the times due.
IsAgenda(a, list, due) ==
  /\ Times(due, list)
  /\ a = [i \in 1 .. Len(list) |-> [event |-> list[i].event, due |-> due[i]]]

\* The agenda of SndPlayer, in this state and in the next one.
LEMMA AgendaNow ==
  ASSUME events \in Seq(Item)
  PROVE  \E due : IsAgenda(Agenda, events, due)
<1>1. PICK c : c = CHOOSE d : Times(d, events)
  OBVIOUS
<1>2. Times(c, events)
  BY <1>1, TimesExist
<1>3. Agenda = [i \in 1 .. Len(events) |->
                  [event |-> events[i].event, due |-> (CHOOSE d : Times(d, events))[i]]]
  BY Zenon DEF Agenda, Times
<1>4. Agenda = [i \in 1 .. Len(events) |-> [event |-> events[i].event, due |-> c[i]]]
  BY <1>1, <1>3
<1> QED BY <1>2, <1>4 DEF IsAgenda

LEMMA AgendaThen ==
  ASSUME events' \in Seq(Item)
  PROVE  \E due : IsAgenda(Agenda', events', due)
<1>1. PICK c : c = CHOOSE d : Times(d, events')
  OBVIOUS
<1>2. Times(c, events')
  BY <1>1, TimesExist
<1>3. Agenda' = [i \in 1 .. Len(events') |->
                   [event |-> events'[i].event, due |-> (CHOOSE d : Times(d, events'))[i]]]
  BY Zenon DEF Agenda, Times
<1>4. Agenda' = [i \in 1 .. Len(events') |-> [event |-> events'[i].event, due |-> c[i]]]
  BY <1>1, <1>3
<1> QED BY <1>2, <1>4 DEF IsAgenda

Entry == [event : Event, due : Nat]

\* What an agenda is.
LEMMA AgendaIs ==
  ASSUME NEW list \in Seq(Item), NEW due, NEW a, IsAgenda(a, list, due)
  PROVE  /\ a \in Seq(Entry) /\ Len(a) = Len(list) /\ DOMAIN a = 1 .. Len(list)
         /\ \A i \in 1 .. Len(list) :
              /\ a[i] = [event |-> list[i].event, due |-> due[i]]
              /\ a[i].event = list[i].event /\ a[i].due = due[i] /\ a[i] \in Entry
<1>1. /\ Len(list) \in Nat /\ due \in [0 .. Len(list) -> Nat]
      /\ \A i \in 1 .. Len(list) : list[i].event \in Event /\ due[i] \in Nat
  <2>1. Times(due, list)
    BY DEF IsAgenda
  <2>2. /\ Len(list) \in Nat /\ due \in [0 .. Len(list) -> Nat]
        /\ \A i \in 1 .. Len(list) : list[i].event \in Event
    BY <2>1, ItemIs, TimesStep
  <2> QED BY <2>2
<1>2. a = [i \in 1 .. Len(list) |-> [event |-> list[i].event, due |-> due[i]]]
  BY DEF IsAgenda
<1>3. \A i \in 1 .. Len(list) :
        [event |-> list[i].event, due |-> due[i]] \in Entry
  BY <1>1 DEF Entry
<1>4. \A i \in 1 .. Len(list) :
        /\ a[i] = [event |-> list[i].event, due |-> due[i]]
        /\ a[i].event = list[i].event /\ a[i].due = due[i] /\ a[i] \in Entry
  BY <1>2, <1>3
<1>5. a \in [1 .. Len(list) -> Entry] /\ DOMAIN a = 1 .. Len(list)
  BY <1>2, <1>3
<1>6. a \in Seq(Entry) /\ Len(a) = Len(list)
  BY <1>1, <1>5
<1> QED BY <1>4, <1>5, <1>6

\* The times of a list with an event put in: those of the others are what they were.
LEMMA PutInTimes ==
  ASSUME NEW list \in Seq(Item), NEW due, Times(due, list), NEW new, NEW d2, Times(d2, new),
         NEW e \in Event, NEW d \in Nat, NEW p \in 1 .. (Len(list) + 1),
         PutIn(new, Len(list), list, due, e, d, p)
  PROVE  \A i \in 0 .. (Len(list) + 1) :
           d2[i] = IF i < p THEN due[i] ELSE IF i = p THEN d ELSE due[i - 1]
<1> DEFINE N == Len(list)
           Right(i) == d2[i] = IF i < p THEN due[i] ELSE IF i = p THEN d ELSE due[i - 1]
           T == {i \in 0 .. (N + 1) : Right(i)}
<1>1. /\ N \in Nat /\ due \in [0 .. N -> Nat] /\ due[0] = 0
      /\ \A n \in 1 .. N : due[n] = due[n - 1] + list[n].delta
      /\ \A n \in 1 .. N : list[n].delta \in Nat
  BY TimesStep, ItemIs
<1>2. new \in Seq(Item) /\ Len(new) = N + 1
  BY DEF PutIn
<1>3. /\ d2 \in [0 .. (N + 1) -> Nat] /\ d2[0] = 0
      /\ \A n \in 1 .. (N + 1) : d2[n] = d2[n - 1] + new[n].delta
  BY <1>2, TimesStep
<1>4. 0 \in T
  BY <1>1, <1>3
<1>5. ASSUME NEW n \in 1 .. (N + 1), n - 1 \in T PROVE n \in T
  <2>1. n \in 0 .. (N + 1) /\ Right(n - 1) /\ d2[n] = d2[n - 1] + new[n].delta
    BY <1>3, <1>5
  <2>2. CASE n < p
    <3>1. n \in 1 .. N /\ n \in 1 .. (p - 1) /\ n - 1 < p
      BY <2>2, <1>1
    <3>2. new[n] = list[n] /\ due[n] = due[n - 1] + list[n].delta
      BY <3>1, <1>1 DEF PutIn
    <3> QED BY <2>1, <2>2, <3>1, <3>2
  <2>3. CASE n = p
    <3>1. n - 1 < p /\ n - 1 \in 0 .. N
      BY <2>3, <1>1
    <3>2. new[n].delta = d - due[n - 1] /\ due[n - 1] \in Nat
      BY <2>3, <3>1, <1>1 DEF PutIn
    <3> QED BY <2>1, <2>3, <3>1, <3>2
  <2>4. CASE n = p + 1
    <3>1. p \in 1 .. N /\ ~(n - 1 < p) /\ n - 1 = p
      BY <2>4, <1>1
    <3>2. new[n].delta = due[p] - d /\ due[p] \in Nat
      BY <2>4, <3>1, <1>1 DEF PutIn
    <3> QED BY <2>1, <2>4, <3>1, <3>2
  <2>5. CASE n > p + 1
    <3>1. n \in (p + 2) .. (N + 1) /\ n - 1 \in 1 .. N /\ ~(n - 1 < p) /\ n - 1 # p
      BY <2>5, <1>1
    <3>2. new[n] = list[n - 1] /\ due[n - 1] = due[(n - 1) - 1] + list[n - 1].delta
      BY <3>1, <1>1 DEF PutIn
    <3> QED BY <2>1, <2>5, <3>1, <3>2
  <2> QED BY <2>2, <2>3, <2>4, <2>5
<1>6. \A n \in 0 .. (N + 1) : n \in T
  <2>1. N + 1 \in Nat
    BY <1>1
  <2> HIDE DEF T, N
  <2> QED BY <2>1, <1>4, <1>5, Climb
<1> QED BY <1>6

\* The times of a list without its first item count from there.
LEMMA TailTimes ==
  ASSUME NEW list \in Seq(Item), list # <<>>, NEW due, Times(due, list),
         NEW d2, Times(d2, Tail(list))
  PROVE  \A i \in 0 .. (Len(list) - 1) : d2[i] = due[i + 1] - due[1]
<1>1. PICK new : new = Tail(list)
  OBVIOUS
<1> DEFINE M == Len(list) - 1
           T == {i \in 0 .. M : d2[i] = due[i + 1] - due[1]}
<1>2. /\ M \in Nat /\ Len(list) \in Nat /\ due \in [0 .. Len(list) -> Nat]
      /\ \A n \in 1 .. Len(list) : due[n] = due[n - 1] + list[n].delta
      /\ \A n \in 1 .. Len(list) : list[n].delta \in Nat
  <2>1. Len(list) \in Nat /\ Len(list) # 0
    OBVIOUS
  <2> QED BY <2>1, TimesStep, ItemIs
<1>3. new \in Seq(Item) /\ Len(new) = M /\ \A i \in 1 .. M : new[i] = list[i + 1]
  BY <1>1
<1>4. /\ d2 \in [0 .. M -> Nat] /\ d2[0] = 0
      /\ \A n \in 1 .. M : d2[n] = d2[n - 1] + new[n].delta
  <2>1. Times(d2, new)
    BY <1>1
  <2>2. /\ d2 \in [0 .. Len(new) -> Nat] /\ d2[0] = 0
        /\ \A n \in 1 .. Len(new) : d2[n] = d2[n - 1] + new[n].delta
    BY <2>1, <1>3, TimesStep
  <2> QED BY <2>2, <1>3
<1>5. 0 \in T
  <2>1. 1 \in 0 .. Len(list) /\ 0 + 1 = 1 /\ 0 \in 0 .. M
    BY <1>2
  <2>2. due[1] \in Nat
    BY <2>1, <1>2
  <2> QED BY <2>1, <2>2, <1>4
<1>6. ASSUME NEW n \in 1 .. M, n - 1 \in T PROVE n \in T
  <2>1. n \in 0 .. M /\ n + 1 \in 1 .. Len(list) /\ (n - 1) + 1 = n /\ n \in 1 .. Len(list)
        /\ (n + 1) - 1 = n /\ 1 \in 1 .. Len(list)
    BY <1>2
  <2>2. d2[n - 1] = due[n] - due[1] /\ d2[n] = d2[n - 1] + list[n + 1].delta
    BY <2>1, <1>3, <1>4, <1>6
  <2>3. due[n + 1] = due[n] + list[n + 1].delta /\ list[n + 1].delta \in Nat
    BY <2>1, <1>2
  <2>4. due[n] \in Nat /\ due[1] \in Nat
    BY <2>1, <1>2
  <2> QED BY <2>1, <2>2, <2>3, <2>4
<1>7. \A n \in 0 .. M : n \in T
  <2> HIDE DEF T, M
  <2> QED BY <1>2, <1>5, <1>6, Climb
<1> QED BY <1>7

\* What is left of a list stays due when it was.
LEMMA SelectedTimes ==
  ASSUME NEW list \in Seq(Item), NEW due, Times(due, list), NEW new, NEW d2, Times(d2, new),
         NEW m \in 0 .. Len(list), NEW k, NEW s, NEW types,
         Selected(new, m, Len(list), list, due, k, s, types)
  PROVE  \A j \in 1 .. m : d2[j] = due[k[j]]
<1> DEFINE T == {j \in 0 .. m : j # 0 => d2[j] = due[k[j]]}
<1>1. /\ Len(list) \in Nat /\ m \in Nat /\ due \in [0 .. Len(list) -> Nat]
  BY TimesStep
<1>2. /\ new \in Seq(Item) /\ Len(new) = m /\ k \in [1 .. m -> 1 .. Len(list)]
      /\ \A j \in 1 .. m : new[j].delta = due[k[j]] - Prior(due, k, j)
  BY DEF Selected
<1>3. d2 \in [0 .. m -> Nat] /\ d2[0] = 0 /\ \A n \in 1 .. m : d2[n] = d2[n - 1] + new[n].delta
  BY <1>2, TimesStep
<1>4. 0 \in T
  BY <1>1
<1>5. ASSUME NEW n \in 1 .. m, n - 1 \in T PROVE n \in T
  <2>1. n \in 0 .. m /\ k[n] \in 1 .. Len(list) /\ due[k[n]] \in Nat
    BY <1>1, <1>2
  <2>2. d2[n] = d2[n - 1] + (due[k[n]] - Prior(due, k, n))
    BY <1>2, <1>3
  <2>3. CASE n = 1
    BY <2>1, <2>2, <2>3, <1>3 DEF Prior
  <2>4. CASE n # 1
    <3>1. n - 1 \in 1 .. m /\ n - 1 # 0
      BY <2>4, <1>1
    <3>2. k[n - 1] \in 1 .. Len(list) /\ due[k[n - 1]] \in Nat /\ d2[n - 1] = due[k[n - 1]]
      BY <3>1, <1>1, <1>2, <1>5
    <3>3. Prior(due, k, n) = due[k[n - 1]]
      BY <2>4 DEF Prior
    <3> QED BY <2>1, <2>2, <3>2, <3>3
  <2> QED BY <2>3, <2>4
<1>6. \A n \in 0 .. m : n \in T
  <2> HIDE DEF T
  <2> QED BY <1>1, <1>4, <1>5, Climb
<1> QED BY <1>1, <1>6

\* What one sequence after another is.
LEMMA ConcatIs ==
  ASSUME NEW S, NEW x \in Seq(S), NEW y \in Seq(S), NEW m \in Nat, m = Len(x),
         NEW n \in Nat, n = Len(y)
  PROVE  /\ x \o y \in Seq(S) /\ Len(x \o y) = m + n
         /\ \A i \in 1 .. m : (x \o y)[i] = x[i]
         /\ \A i \in 1 .. n : (x \o y)[m + i] = y[i]
<1>1. x \o y \in Seq(S) /\ Len(x \o y) = m + n
  OBVIOUS
<1>2. ASSUME NEW i \in 1 .. m PROVE (x \o y)[i] = x[i]
  OBVIOUS
<1>3. ASSUME NEW i \in 1 .. n PROVE (x \o y)[m + i] = y[i]
  <2>1. m + i \in 1 .. (m + n) /\ ~(m + i <= m) /\ (m + i) - m = i
    OBVIOUS
  <2> QED BY <2>1
<1> QED BY <1>1, <1>2, <1>3

\* A sequence with an element put in is what InsertAt says.
LEMMA InsertIs ==
  ASSUME NEW S, NEW a \in Seq(S), NEW b \in Seq(S), Len(b) = Len(a) + 1,
         NEW p \in 1 .. (Len(a) + 1),
         \A i \in 1 .. (Len(a) + 1) : i # p => b[i] = IF i < p THEN a[i] ELSE a[i - 1]
  PROVE  b = InsertAt(a, p, b[p])
<1>1. PICK N \in Nat : N = Len(a)
  OBVIOUS
<1>2. PICK x : x = b[p] /\ x \in S
  <2>1. b[p] \in S
    BY <1>1
  <2> QED BY <2>1
<1>3. PICK u \in Seq(S) : u = SubSeq(a, 1, p - 1) /\ Len(u) = p - 1
                          /\ \A i \in 1 .. (p - 1) : u[i] = a[i]
  <2>1. /\ SubSeq(a, 1, p - 1) \in Seq(S) /\ Len(SubSeq(a, 1, p - 1)) = p - 1
        /\ \A i \in 1 .. (p - 1) : SubSeq(a, 1, p - 1)[i] = a[i]
    BY <1>1
  <2> QED BY <2>1
<1>4. PICK w \in Seq(S) : w = SubSeq(a, p, N) /\ Len(w) = N + 1 - p
                          /\ \A i \in 1 .. (N + 1 - p) : w[i] = a[p + i - 1]
  <2>1. /\ SubSeq(a, p, N) \in Seq(S) /\ Len(SubSeq(a, p, N)) = N + 1 - p
        /\ \A i \in 1 .. (N + 1 - p) : SubSeq(a, p, N)[i] = a[p + i - 1]
    BY <1>1
  <2> QED BY <2>1
<1>5. PICK o \in Seq(S) : o = <<x>> /\ Len(o) = 1 /\ o[1] = x
  <2>1. <<x>> \in Seq(S) /\ Len(<<x>>) = 1 /\ <<x>>[1] = x
    BY <1>2
  <2> QED BY <2>1
<1>6. PICK v \in Seq(S) : v = u \o o /\ Len(v) = p
                          /\ v[p] = x /\ \A i \in 1 .. (p - 1) : v[i] = u[i]
  <2>1. PICK q \in Nat : q = p - 1 /\ q + 1 = p
    BY <1>1
  <2>2. /\ u \o o \in Seq(S) /\ Len(u \o o) = q + 1
        /\ \A i \in 1 .. q : (u \o o)[i] = u[i]
        /\ \A i \in 1 .. 1 : (u \o o)[q + i] = o[i]
    BY <2>1, <1>3, <1>5, ConcatIs
  <2>3. (u \o o)[p] = x
    BY <2>1, <2>2, <1>5
  <2> QED BY <2>1, <2>2, <2>3
<1>7. PICK c \in Seq(S) : /\ c = v \o w /\ Len(c) = N + 1
                          /\ \A i \in 1 .. p : c[i] = v[i]
                          /\ \A i \in 1 .. (N + 1 - p) : c[p + i] = w[i]
  <2>1. PICK q \in Nat, n \in Nat : q = N + 1 - p /\ n = p /\ n + q = N + 1
    <3>1. N + 1 - p \in Nat /\ p + (N + 1 - p) = N + 1 /\ p \in Nat
      BY <1>1
    <3> QED BY <3>1
  <2>2. n = Len(v) /\ q = Len(w)
    BY <2>1, <1>4, <1>6
  <2>3. /\ v \o w \in Seq(S) /\ Len(v \o w) = n + q
        /\ \A i \in 1 .. n : (v \o w)[i] = v[i]
        /\ \A i \in 1 .. q : (v \o w)[n + i] = w[i]
    BY <2>2, ConcatIs
  <2> QED BY <2>1, <2>3
<1>8. ASSUME NEW i \in 1 .. (N + 1) PROVE c[i] = b[i]
  <2>1. CASE i < p
    <3>1. i \in 1 .. (p - 1) /\ i \in 1 .. p /\ i # p
      BY <2>1, <1>1
    <3> QED BY <3>1, <2>1, <1>1, <1>3, <1>6, <1>7
  <2>2. CASE i = p
    <3>1. p \in 1 .. p
      BY <1>1
    <3> QED BY <3>1, <2>2, <1>2, <1>6, <1>7
  <2>3. CASE i > p
    <3>1. /\ i - p \in 1 .. (N + 1 - p) /\ p + (i - p) - 1 = i - 1 /\ p + (i - p) = i
          /\ ~(i < p) /\ i # p
      BY <2>3, <1>1
    <3>2. c[i] = w[i - p] /\ w[i - p] = a[i - 1]
      BY <3>1, <1>4, <1>7
    <3> QED BY <3>1, <3>2, <1>1
  <2> QED BY <2>1, <2>2, <2>3, <1>1
<1>9. b = c
  <2>1. b \in Seq(S) /\ c \in Seq(S) /\ Len(b) = N + 1 /\ Len(c) = N + 1
    BY <1>1, <1>7
  <2>2. b = [i \in 1 .. (N + 1) |-> b[i]] /\ c = [i \in 1 .. (N + 1) |-> c[i]]
    BY <2>1
  <2> QED BY <2>2, <1>8
<1>10. InsertAt(a, p, x) = (u \o o) \o w
  BY <1>1, <1>3, <1>4, <1>5 DEF InsertAt
<1> QED BY <1>2, <1>6, <1>7, <1>9, <1>10

\* Putting an event in the list puts it in the agenda at a place that keeps the order.
LEMMA AgendaPost ==
  ASSUME NEW list \in Seq(Item), NEW due, NEW a, IsAgenda(a, list, due),
         NEW new \in Seq(Item), NEW d2, NEW b, IsAgenda(b, new, d2),
         NEW e \in Event, NEW d \in Nat, NEW p \in 1 .. (Len(list) + 1),
         PutIn(new, Len(list), list, due, e, d, p)
  PROVE  /\ Len(a) = Len(list) /\ Len(b) = Len(a) + 1
         /\ b = InsertAt(a, p, b[p]) /\ b[p] \in Entry
         /\ \A i \in 1 .. (p - 1) : b[i].due <= b[p].due
         /\ \A i \in (p + 1) .. Len(b) : b[p].due < b[i].due
<1>1. Times(due, list) /\ Times(d2, new)
  BY DEF IsAgenda
<1>2. PICK N \in Nat : N = Len(list) /\ Len(new) = N + 1
  BY DEF PutIn
<1>3. \A i \in 0 .. (N + 1) :
        d2[i] = IF i < p THEN due[i] ELSE IF i = p THEN d ELSE due[i - 1]
  BY <1>1, <1>2, PutInTimes
<1>4. /\ a \in Seq(Entry) /\ Len(a) = N
      /\ \A i \in 1 .. N : a[i] = [event |-> list[i].event, due |-> due[i]]
  BY <1>2, AgendaIs
<1>5. /\ b \in Seq(Entry) /\ Len(b) = N + 1
      /\ \A i \in 1 .. (N + 1) :
           b[i] = [event |-> new[i].event, due |-> d2[i]] /\ b[i].due = d2[i] /\ b[i] \in Entry
  BY <1>2, AgendaIs
<1>6. due \in [0 .. N -> Nat]
  BY <1>1, <1>2, TimesStep
<1>7. ASSUME NEW i \in 1 .. (N + 1), i # p PROVE b[i] = IF i < p THEN a[i] ELSE a[i - 1]
  <2>1. CASE i < p
    <3>1. i \in 1 .. N /\ i \in 1 .. (p - 1) /\ i \in 0 .. (N + 1)
      BY <2>1, <1>2
    <3>2. new[i] = list[i] /\ d2[i] = due[i]
      BY <3>1, <2>1, <1>3 DEF PutIn
    <3> QED BY <3>1, <3>2, <2>1, <1>4, <1>5
  <2>2. CASE i = p + 1
    <3>1. i - 1 \in 1 .. N /\ p <= N /\ i - 1 = p /\ i \in 0 .. (N + 1) /\ ~(i < p)
      BY <2>2, <1>2
    <3>2. new[i].event = list[p].event
      BY <3>1, <2>2, <1>2 DEF PutIn
    <3>3. d2[i] = due[i - 1]
      BY <3>1, <1>3, <1>7
    <3> QED BY <3>1, <3>2, <3>3, <1>4, <1>5
  <2>3. CASE i > p + 1
    <3>1. i - 1 \in 1 .. N /\ i \in (p + 2) .. (N + 1) /\ i \in 0 .. (N + 1) /\ ~(i < p)
      BY <2>3, <1>2
    <3>2. new[i] = list[i - 1]
      BY <3>1, <1>2 DEF PutIn
    <3>3. d2[i] = due[i - 1]
      BY <3>1, <1>3, <1>7
    <3> QED BY <3>1, <3>2, <3>3, <1>4, <1>5
  <2> QED BY <2>1, <2>2, <2>3, <1>7, <1>2
<1>8. b = InsertAt(a, p, b[p])
  <2>1. /\ Len(b) = Len(a) + 1 /\ p \in 1 .. (Len(a) + 1)
        /\ \A i \in 1 .. (Len(a) + 1) : i # p => b[i] = IF i < p THEN a[i] ELSE a[i - 1]
    BY <1>2, <1>4, <1>5, <1>7
  <2>2. a \in Seq(Entry) /\ b \in Seq(Entry)
    BY <1>4, <1>5
  <2> HIDE DEF IsAgenda, PutIn
  <2> QED BY <2>1, <2>2, InsertIs
<1>9. b[p] \in Entry /\ b[p].due = d
  <2>1. p \in 1 .. (N + 1) /\ p \in 0 .. (N + 1) /\ ~(p < p)
    BY <1>2
  <2> QED BY <2>1, <1>3, <1>5
<1>10. ASSUME NEW i \in 1 .. (p - 1) PROVE b[i].due <= b[p].due
  <2>1. /\ i \in 1 .. (N + 1) /\ i < p /\ i \in 0 .. N /\ i \in 0 .. (N + 1)
        /\ p - 1 \in i .. N /\ p - 1 \in 0 .. N
    BY <1>2
  <2>2. due[i] <= due[p - 1]
    BY <2>1, <1>1, <1>2, TimesRise
  <2>3. due[p - 1] <= d
    BY DEF PutIn
  <2>4. b[i].due = due[i] /\ due[i] \in Nat /\ due[p - 1] \in Nat
    BY <2>1, <1>3, <1>5, <1>6
  <2> QED BY <2>2, <2>3, <2>4, <1>9
<1>11. ASSUME NEW i \in (p + 1) .. (N + 1) PROVE b[p].due < b[i].due
  <2>1. /\ i \in 1 .. (N + 1) /\ ~(i < p) /\ i # p /\ p <= N /\ p \in 0 .. N
        /\ i - 1 \in p .. N /\ i - 1 \in 0 .. N /\ i \in 0 .. (N + 1)
    BY <1>2
  <2>2. due[p] <= due[i - 1]
    BY <2>1, <1>1, <1>2, TimesRise
  <2>3. d < due[p]
    BY <2>1, <1>2 DEF PutIn
  <2>4. b[i].due = due[i - 1] /\ due[p] \in Nat /\ due[i - 1] \in Nat
    BY <2>1, <1>3, <1>5, <1>6
  <2> QED BY <2>2, <2>3, <2>4, <1>9
<1> QED BY <1>2, <1>4, <1>5, <1>8, <1>9, <1>10, <1>11

\* Taking the first event counts the times of the others from it.
LEMMA AgendaDeliver ==
  ASSUME NEW list \in Seq(Item), list # <<>>, NEW due, NEW a, IsAgenda(a, list, due),
         NEW d2, NEW b, IsAgenda(b, Tail(list), d2)
  PROVE  /\ a # <<>> /\ Head(a).event = Head(list).event
         /\ b = [i \in 1 .. (Len(a) - 1) |-> [a[i + 1] EXCEPT !.due = @ - Head(a).due]]
<1>1. Times(due, list) /\ Times(d2, Tail(list))
  BY DEF IsAgenda
<1>2. PICK N \in Nat : N = Len(list) /\ N >= 1
  OBVIOUS
<1>3. \A i \in 0 .. (N - 1) : d2[i] = due[i + 1] - due[1]
  BY <1>1, <1>2, TailTimes
<1>4. PICK new \in Seq(Item) : new = Tail(list) /\ Len(new) = N - 1
                               /\ \A i \in 1 .. (N - 1) : new[i] = list[i + 1]
  <2>1. /\ Tail(list) \in Seq(Item) /\ Len(Tail(list)) = N - 1
        /\ \A i \in 1 .. (N - 1) : Tail(list)[i] = list[i + 1]
    BY <1>2
  <2> QED BY <2>1
<1>5. /\ a \in Seq(Entry) /\ Len(a) = N
      /\ \A i \in 1 .. N :
           /\ a[i] = [event |-> list[i].event, due |-> due[i]]
           /\ a[i].event = list[i].event /\ a[i].due = due[i]
  BY <1>2, AgendaIs
<1>6. IsAgenda(b, new, d2)
  BY <1>4
<1>7. b = [i \in 1 .. (N - 1) |-> [event |-> new[i].event, due |-> d2[i]]]
  BY <1>4, <1>6 DEF IsAgenda
<1>8. PICK h : h = Head(a) /\ h = a[1] /\ h.event = list[1].event /\ h.due = due[1] /\ a # <<>>
  <2>1. 1 \in 1 .. N
    BY <1>2
  <2>2. a # <<>> /\ Head(a) = a[1]
    BY <1>2, <1>5
  <2> QED BY <2>1, <2>2, <1>5
<1>9. ASSUME NEW i \in 1 .. (N - 1)
      PROVE  [a[i + 1] EXCEPT !.due = @ - h.due] = [event |-> new[i].event, due |-> d2[i]]
  <2>1. i + 1 \in 1 .. N /\ i \in 0 .. (N - 1)
    BY <1>2
  <2>2. PICK x, y : x = list[i + 1].event /\ y = due[i + 1]
    OBVIOUS
  <2>3. a[i + 1] = [event |-> x, due |-> y] /\ new[i].event = x /\ d2[i] = y - h.due
    BY <2>1, <2>2, <1>3, <1>4, <1>5, <1>8
  <2>4. [[event |-> x, due |-> y] EXCEPT !.due = @ - h.due] = [event |-> x, due |-> y - h.due]
    OBVIOUS
  <2> QED BY <2>3, <2>4
<1>10. b = [i \in 1 .. (N - 1) |-> [a[i + 1] EXCEPT !.due = @ - h.due]]
  <2> HIDE DEF IsAgenda
  <2> QED BY <1>7, <1>9
<1>11. Head(list).event = list[1].event
  BY <1>2
<1> QED BY <1>5, <1>8, <1>10, <1>11

\* Taking events out calls them off in the agenda.
LEMMA AgendaCallOff ==
  ASSUME NEW list \in Seq(Item), NEW due, NEW a, IsAgenda(a, list, due),
         NEW new \in Seq(Item), NEW d2, NEW b, IsAgenda(b, new, d2),
         NEW m \in 0 .. Len(list), NEW k, NEW s, NEW types,
         Selected(new, m, Len(list), list, due, k, s, types)
  PROVE  /\ k \in [1 .. m -> DOMAIN a] /\ m \in 0 .. Len(a)
         /\ \A i, j \in 1 .. m : i < j => k[i] < k[j]
         /\ b = [i \in 1 .. m |-> a[k[i]]]
<1>1. Times(due, list) /\ Times(d2, new)
  BY DEF IsAgenda
<1>2. \A j \in 1 .. m : d2[j] = due[k[j]]
  BY <1>1, SelectedTimes
<1>3. /\ Len(new) = m /\ k \in [1 .. m -> 1 .. Len(list)]
      /\ \A i, j \in 1 .. m : i < j => k[i] < k[j]
      /\ \A j \in 1 .. m : new[j].event = list[k[j]].event
  BY DEF Selected
<1>4. /\ Len(a) = Len(list) /\ DOMAIN a = 1 .. Len(list)
      /\ \A i \in 1 .. Len(list) : a[i] = [event |-> list[i].event, due |-> due[i]]
  <2>1. /\ a \in Seq(Entry) /\ Len(a) = Len(list) /\ DOMAIN a = 1 .. Len(list)
        /\ \A i \in 1 .. Len(list) :
             /\ a[i] = [event |-> list[i].event, due |-> due[i]]
             /\ a[i].event = list[i].event /\ a[i].due = due[i] /\ a[i] \in Entry
    BY AgendaIs
  <2> QED BY <2>1
<1>5. b = [i \in 1 .. m |-> [event |-> new[i].event, due |-> d2[i]]]
  BY <1>3 DEF IsAgenda
<1>6. \A i \in 1 .. m : a[k[i]] = [event |-> new[i].event, due |-> d2[i]]
  BY <1>2, <1>3, <1>4
<1> QED BY <1>3, <1>4, <1>5, <1>6

\* One step of the schedule, or none.
OnSchedule == [Schedule!Next]_<<Agenda, nextEvent>>

LEMMA AgendaStays ==
  ASSUME UNCHANGED <<events, nextEvent>>
  PROVE  OnSchedule
<1>1. Agenda' = Agenda
  BY Zenon DEF Agenda
<1> QED BY <1>1 DEF OnSchedule

\* A post, refused or not,
LEMMA PostOnSchedule ==
  ASSUME Types, NEW e \in GoodEvent, NEW d \in Nat, Post(e, d), UNCHANGED nextEvent
  PROVE  OnSchedule
<1>1. /\ events \in Seq(Item) /\ Len(events) <= MaxEvents /\ e \in Event
      /\ MaxEvents \in Nat /\ Len(events) \in Nat
  BY GoodEvents, Constants DEF Types, QueueTypes, QueueOK
<1>2. CASE Len(events) = MaxEvents
  BY <1>2, AgendaStays DEF Post
<1>3. CASE Len(events) # MaxEvents
  <2>1. events' = Posted(events, e, d)
    BY <1>3 DEF Post
  <2>2. events' \in Seq(Item)
    BY <1>1, <2>1, PostedHas
  <2>3. PICK due : IsAgenda(Agenda, events, due)
    BY <1>1, AgendaNow
  <2>4. PICK d2 : IsAgenda(Agenda', events', d2)
    BY <2>2, AgendaThen
  <2>5. PICK p \in 1 .. (Len(events) + 1) : PutIn(events', Len(events), events, due, e, d, p)
    <3>1. Times(due, events)
      BY <2>3 DEF IsAgenda
    <3> QED BY <3>1, <1>1, <2>1, PostedIs
  <2>6. PICK a : a = Agenda
    OBVIOUS
  <2>7. PICK b : b = Agenda'
    OBVIOUS
  <2>8. /\ Len(a) = Len(events) /\ Len(b) = Len(a) + 1
        /\ b = InsertAt(a, p, b[p]) /\ b[p] \in Entry
        /\ \A i \in 1 .. (p - 1) : b[i].due <= b[p].due
        /\ \A i \in (p + 1) .. Len(b) : b[p].due < b[i].due
    <3>1. IsAgenda(a, events, due) /\ IsAgenda(b, events', d2)
      BY <2>3, <2>4, <2>6, <2>7
    <3> QED BY <3>1, <1>1, <2>2, <2>5, AgendaPost
  <2>9. Len(a) < MaxEvents /\ p \in 1 .. (Len(a) + 1)
    BY <1>1, <1>3, <2>8
  <2>10. Schedule!Post(p)
    <3>1. Len(Agenda) < MaxEvents /\ Len(Agenda') = Len(Agenda) + 1
      BY <2>6, <2>7, <2>8, <2>9
    <3>2. Agenda' = Schedule!InsertAt(Agenda, p, Agenda'[p])
      BY <2>6, <2>7, <2>8 DEF InsertAt, Schedule!InsertAt
    <3>3. Agenda'[p] \in Schedule!Entry
      BY <2>7, <2>8 DEF Entry, Schedule!Entry
    <3>4. /\ \A i \in 1 .. (p - 1) : Agenda'[i].due <= Agenda'[p].due
          /\ \A i \in (p + 1) .. Len(Agenda') : Agenda'[p].due < Agenda'[i].due
      BY <2>7, <2>8
    <3> QED BY <3>1, <3>2, <3>3, <3>4, Zenon DEF Schedule!Post
  <2> QED BY <2>6, <2>9, <2>10 DEF OnSchedule, Schedule!Next
<1> QED BY <1>2, <1>3

\* the next event,
LEMMA NextOnSchedule ==
  ASSUME Types, NextEvent
  PROVE  OnSchedule
<1>1. events \in Seq(Item)
  BY DEF Types, QueueTypes, QueueOK
<1>2. PICK due : IsAgenda(Agenda, events, due)
  BY <1>1, AgendaNow
<1>3. PICK a : a = Agenda
  OBVIOUS
<1>4. PICK b : b = Agenda'
  OBVIOUS
<1>5. CASE events = <<>>
  <2>1. nextEvent' = NoEvent /\ events' = events
    BY <1>5 DEF NextEvent
  <2>2. Agenda' = Agenda
    BY <2>1, Zenon DEF Agenda
  <2>3. a = <<>>
    <3>1. a \in Seq(Entry) /\ Len(a) = 0
      BY <1>1, <1>2, <1>3, <1>5, AgendaIs
    <3> QED BY <3>1
  <2>4. Schedule!Deliver
    BY <1>3, <2>1, <2>2, <2>3 DEF Schedule!Deliver
  <2> QED BY <2>4 DEF OnSchedule, Schedule!Next
<1>6. CASE events # <<>>
  <2>1. nextEvent' = Head(events).event /\ events' = Tail(events)
    BY <1>6 DEF NextEvent
  <2>2. events' \in Seq(Item)
    BY <1>1, <1>6, <2>1
  <2>3. PICK d2 : IsAgenda(Agenda', events', d2)
    BY <2>2, AgendaThen
  <2>4. IsAgenda(a, events, due) /\ IsAgenda(b, Tail(events), d2)
    BY <1>2, <1>3, <1>4, <2>1, <2>3
  <2>5. /\ a # <<>> /\ Head(a).event = Head(events).event
        /\ b = [i \in 1 .. (Len(a) - 1) |-> [a[i + 1] EXCEPT !.due = @ - Head(a).due]]
    BY <1>1, <1>6, <2>4, AgendaDeliver
  <2>6. Schedule!Deliver
    BY <1>3, <1>4, <2>1, <2>5 DEF Schedule!Deliver
  <2> QED BY <2>6 DEF OnSchedule, Schedule!Next
<1> QED BY <1>5, <1>6

\* and a removal.
LEMMA RemovalOnSchedule ==
  ASSUME Types, NEW s, NEW types, events' = WithoutEvents(events, s, types), UNCHANGED nextEvent
  PROVE  OnSchedule
<1>1. events \in Seq(Item)
  BY DEF Types, QueueTypes, QueueOK
<1>2. events' \in Seq(Item)
  BY <1>1, WithoutHas
<1>3. PICK due : IsAgenda(Agenda, events, due)
  BY <1>1, AgendaNow
<1>4. PICK d2 : IsAgenda(Agenda', events', d2)
  BY <1>2, AgendaThen
<1>5. PICK a : a = Agenda
  OBVIOUS
<1>6. PICK b : b = Agenda'
  OBVIOUS
<1>7. PICK m \in 0 .. Len(events) : \E k :
        Selected(events', m, Len(events), events, due, k, s, types)
  <2>1. Times(due, events)
    BY <1>3 DEF IsAgenda
  <2> QED BY <2>1, <1>1, WithoutIs
<1>8. PICK k : Selected(events', m, Len(events), events, due, k, s, types)
  BY <1>7
<1>9. /\ k \in [1 .. m -> DOMAIN a] /\ m \in 0 .. Len(a)
      /\ \A i, j \in 1 .. m : i < j => k[i] < k[j]
      /\ b = [i \in 1 .. m |-> a[k[i]]]
  <2>1. IsAgenda(a, events, due) /\ IsAgenda(b, events', d2)
    BY <1>3, <1>4, <1>5, <1>6
  <2> QED BY <2>1, <1>1, <1>2, <1>8, AgendaCallOff
<1>10. Schedule!CallOff(m)
  BY <1>5, <1>6, <1>9 DEF Schedule!CallOff
<1> QED BY <1>5, <1>9, <1>10 DEF OnSchedule, Schedule!Next

\* Each action is a step of the schedule or leaves it alone: those of the main thread,
LEMMA GameOnSchedule ==
  ASSUME Types, Game
  PROVE  OnSchedule
<1>1. CASE PlaySfx \/ Check \/ Walk \/ Take \/ Fill \/ LookAgain \/ Finish
  <2>1. UNCHANGED <<events, nextEvent>>
    BY <1>1 DEF PlaySfx, Check, Walk, Take, Fill, LookAgain, Finish, queue
  <2> QED BY <2>1, AgendaStays
<1>2. CASE PostPlay
  <2>1. main.item \in State /\ main.parts \in Seq(Part) /\ main.parts # <<>>
    BY <1>2 DEF Types, PostPlay, MainTypes, MainState
  <2>2. PICK l \in Seq(Part) : l = main.parts /\ l # <<>>
    BY <2>1
  <2>3. Head(l) \in Part
    BY <2>2
  <2>4. Head(main.parts).delay * Frame + 1 \in Nat
    BY <2>2, <2>3, SndAssumption DEF Part
  <2>5. Ev("PLAY", main.item) \in GoodEvent
    BY <2>1, OpsGood
  <2> QED BY <2>4, <2>5, <1>2, PostOnSchedule DEF PostPlay
<1>3. CASE Deactivate
  <2>1. main.item \in State
    BY <1>3 DEF Types, Deactivate, MainTypes, MainState
  <2>2. Ev("DEACTIVATE", main.item) \in GoodEvent
    BY <2>1, OpsGood DEF ForAll
  <2> QED BY <2>2, <1>3, PostOnSchedule DEF Deactivate
<1>4. CASE WalkStep
  <2>1. main.item \in State /\ main.pc \in {"DEACTIVATE", "RELEASE"}
    BY <1>4 DEF Types, WalkStep, MaskFree, MainTypes, MainState
  <2>2. Ev(main.pc, main.item) \in GoodEvent
    BY <2>1, OpsGood DEF ForAll
  <2> QED BY <2>2, <1>4, PostOnSchedule, AgendaStays DEF WalkStep
<1> QED BY <1>1, <1>2, <1>3, <1>4 DEF Game

\* and those of the audio manager.
LEMMA AudioOnSchedule ==
  ASSUME Types, Audio
  PROVE  OnSchedule
<1>1. CASE HandleEvent \/ GoOn \/ Dispose
  <2>1. UNCHANGED <<events, nextEvent>>
    BY <1>1 DEF HandleEvent, GoOn, Dispose, queue
  <2> QED BY <2>1, AgendaStays
<1>2. CASE PostEvent
  <2>1. PICK e \in GoodEvent, d \in Nat : Post(e, d) /\ UNCHANGED nextEvent
    BY <1>2, PostEventIs
  <2> QED BY <2>1, PostOnSchedule
<1>3. CASE RemoveEvents
  BY <1>3, RemovalOnSchedule DEF RemoveEvents
<1>4. CASE GetNext
  BY <1>4, NextOnSchedule DEF GetNext
<1> QED BY <1>1, <1>2, <1>3, <1>4 DEF Audio

\* At first the agenda is empty.
LEMMA InitOnSchedule ==
  ASSUME Init
  PROVE  Schedule!Init
<1>1. events = <<>> /\ nextEvent = Heartbeat
  BY DEF Init
<1>2. nextEvent \in Event
  BY <1>1 DEF Heartbeat, Event, Ev, Type
<1>3. PICK a : a = Agenda
  OBVIOUS
<1>4. events \in Seq(Item)
  BY <1>1
<1>5. PICK due : IsAgenda(a, events, due)
  BY <1>3, <1>4, AgendaNow
<1>6. a \in Seq(Entry) /\ Len(a) = 0
  BY <1>1, <1>4, <1>5, AgendaIs
<1>7. a = <<>>
  BY <1>6
<1> QED BY <1>2, <1>3, <1>7 DEF Schedule!Init

\* The event queue of the sound player (alEvtqPostEvent, alEvtqNextEvent, sndRemoveEvents in
\* event.c and snd.c) keeps the agenda of EventSchedule: every event comes when it was posted
\* for, in order, whatever the threads post ahead of it or take out before it.
THEOREM SndPlayerImplementsSchedule == Spec => ImplementsSchedule
<1>1. Init => Schedule!Init
  BY InitOnSchedule
<1>2. Types /\ [Next]_vars => OnSchedule
  <2> SUFFICES ASSUME Types, [Next]_vars PROVE OnSchedule
    OBVIOUS
  <2>1. CASE UNCHANGED vars
    BY <2>1, AgendaStays DEF vars, queue
  <2> QED BY <2>1, GameOnSchedule, AudioOnSchedule DEF Next
<1>3. Types /\ [Next]_vars => [Schedule!Next]_<<Agenda, nextEvent>>
  BY <1>2 DEF OnSchedule
<1> QED BY <1>1, <1>3, TypesInvariant, PTL DEF Spec, ImplementsSchedule, Schedule!Spec
===============================================================================
