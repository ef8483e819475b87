----------------------------- MODULE ListLemmas -----------------------------
(***************************************************************************)
(* Lemmas about numbers and lists that the proofs about several components *)
(* rest on.  Induction is stated with sets: the elements that have a       *)
(* property are a set, and a set with 0 that is closed under successor     *)
(* holds every number.                                                     *)
(***************************************************************************)
EXTENDS Lists, SequenceTheorems, FiniteSetTheorems, WellFoundedInduction, TLAPS

\* Every set of numbers that is not empty has a least one: the intervals 1 .. n of
\* its members are finite sets, and strict inclusion is well founded on these.
LEMMA LeastNumber ==
  ASSUME NEW T \in SUBSET Nat, T # {}
  PROVE  \E m \in T : \A n \in T : m <= n
<1>. DEFINE B == {1 .. n : n \in T}
<1>1. B \subseteq FiniteSubsetsOf(Nat) /\ B # {}
  <2>1. \A n \in T : (1 .. n) \subseteq Nat /\ IsFiniteSet(1 .. n)
    BY FS_Interval
  <2>. QED  BY <2>1 DEF FiniteSubsetsOf
<1>. HIDE DEF B
<1>2. PICK x \in B : \A y \in B : ~(<<y, x>> \in StrictSubsetOrdering(Nat))
  BY <1>1, WFMin, FS_StrictSubsetOrderingWellFounded
<1>3. PICK m \in T : x = 1 .. m
  BY DEF B
<1>4. ASSUME NEW n \in T, n < m PROVE FALSE
  <2>1. 1 .. n \in B
    BY DEF B
  <2>2. (1 .. n) \subseteq 1 .. m /\ m \in 1 .. m /\ m \notin 1 .. n
    BY <1>4
  <2>3. <<1 .. n, x>> \in StrictSubsetOrdering(Nat)
    BY <2>2, <1>3 DEF StrictSubsetOrdering
  <2>. QED  BY <2>1, <2>3, <1>2
<1>. QED  BY <1>4

\* Induction over the numbers from 0 to a bound.
LEMMA Induction ==
  ASSUME NEW N \in Nat, NEW T, 0 \in T, \A n \in 0 .. N - 1 : n \in T => n + 1 \in T
  PROVE  0 .. N \subseteq T
<1>1. SUFFICES ASSUME (0 .. N) \ T # {} PROVE FALSE
  OBVIOUS
<1>2. PICK m \in (0 .. N) \ T : \A n \in (0 .. N) \ T : m <= n
  <2>1. (0 .. N) \ T \in SUBSET Nat
    OBVIOUS
  <2>. QED  BY <1>1, <2>1, LeastNumber
<1>3. m - 1 \in 0 .. N - 1 /\ m - 1 \in T
  BY <1>2
<1>. QED  BY <1>2, <1>3

\* There is a function with the values that recursion over 0 .. N gives.
HasRecursion(N, S, base, G) ==
  \E f \in [0 .. N -> S] : f[0] = base /\ \A n \in 1 .. N : f[n] = G[n][f[n - 1]]

\* A function can be defined by recursion over the numbers up to a bound.
LEMMA Recursion ==
  ASSUME NEW N \in Nat, NEW S, NEW base \in S, NEW G \in [1 .. N -> [S -> S]]
  PROVE  HasRecursion(N, S, base, G)
<1>. DEFINE Defined(f, k) == f[0] = base /\ \A n \in 1 .. k : f[n] = G[n][f[n - 1]]
            T == {k \in Nat : \E f \in [0 .. k -> S] : Defined(f, k)}
<1>1. 0 \in T
  <2>1. [n \in 0 .. 0 |-> base] \in [0 .. 0 -> S] /\ Defined([n \in 0 .. 0 |-> base], 0)
    OBVIOUS
  <2>. QED  BY <2>1
<1>2. ASSUME NEW k \in 0 .. N - 1, k \in T PROVE k + 1 \in T
  <2>1. PICK f \in [0 .. k -> S] : Defined(f, k)
    BY <1>2
  <2>. DEFINE g == [n \in 0 .. k + 1 |-> IF n = k + 1 THEN G[k + 1][f[k]] ELSE f[n]]
  <2>2. g \in [0 .. k + 1 -> S]
    <3>1. G[k + 1] \in [S -> S] /\ f[k] \in S
      OBVIOUS
    <3>2. G[k + 1][f[k]] \in S
      BY <3>1
    <3>. QED  BY <3>2
  <2>3. \A n \in 0 .. k : g[n] = f[n]
    OBVIOUS
  <2>4. g[k + 1] = G[k + 1][g[k]]
    <3>1. g[k] = f[k] /\ g[k + 1] = G[k + 1][f[k]]
      BY <2>3
    <3>. QED  BY <3>1
  <2>5. g[0] = base
    BY <2>1, <2>3
  <2>. HIDE DEF g
  <2>6. ASSUME NEW n \in 1 .. k + 1 PROVE g[n] = G[n][g[n - 1]]
    <3>1. CASE n = k + 1
      BY <2>4, <3>1
    <3>2. CASE n \in 1 .. k
      <4>1. n - 1 \in 0 .. k /\ n \in 0 .. k
        BY <3>2
      <4>. QED  BY <2>1, <2>3, <3>2, <4>1
    <3>. QED  BY <3>1, <3>2
  <2>. QED  BY <2>2, <2>5, <2>6, SMTT(30)
<1>. HIDE DEF T
<1>3. 0 .. N \subseteq T
  BY <1>1, <1>2, Induction
<1>4. N \in T
  BY <1>3
<1>. QED  BY <1>4 DEF T, HasRecursion

-----------------------------------------------------------------------------
(* Selected. *)

Position(K, n) == Cardinality(K \cap (1 .. n))

\* f[n] is what is left of the first n elements of s.
Selecting(f, s, K) ==
  /\ f[0] = <<>>
  /\ \A n \in 1 .. Len(s) : f[n] = IF n \in K THEN Append(f[n - 1], s[n]) ELSE f[n - 1]
  /\ Selected(s, K) = f[Len(s)]

\* The recursion in Selected is sound: it has the function it describes.
LEMMA SelectedDef ==
  ASSUME NEW S, NEW s \in Seq(S), NEW K
  PROVE  \E f \in [0 .. Len(s) -> Seq(S)] : Selecting(f, s, K)
<1>1. PICK Q, N : Q = Seq(S) /\ N = Len(s) /\ N \in Nat
  OBVIOUS
<1>. DEFINE Step(n, list) == IF n \in K THEN Append(list, s[n]) ELSE list
            Fits(f) == f = [n \in 0 .. N |->
                              IF n = 0 THEN <<>>
                              ELSE IF n \in K THEN Append(f[n - 1], s[n]) ELSE f[n - 1]]
            sel == CHOOSE f : Fits(f)
<1>2. \A n \in 1 .. N, list \in Q : Step(n, list) \in Q
  BY <1>1
<1>3. Selected(s, K) = sel[N]
  BY <1>1 DEF Selected
<1>4. \A f : Fits(f) <=> /\ f = [n \in 0 .. N |-> f[n]]
                          /\ f[0] = <<>>
                          /\ \A n \in 1 .. N : f[n] = Step(n, f[n - 1])
  <2>. TAKE f
  <2>1. ASSUME Fits(f) PROVE /\ f = [n \in 0 .. N |-> f[n]]
                             /\ f[0] = <<>>
                             /\ \A n \in 1 .. N : f[n] = Step(n, f[n - 1])
    <3>1. f[0] = <<>> /\ f = [n \in 0 .. N |-> f[n]]
      BY <1>1, <2>1
    <3>2. ASSUME NEW n \in 1 .. N PROVE f[n] = Step(n, f[n - 1])
      <4>. DEFINE F == [m \in 0 .. N |->
                          IF m = 0 THEN <<>>
                          ELSE IF m \in K THEN Append(f[m - 1], s[m]) ELSE f[m - 1]]
      <4>1. n \in 0 .. N /\ n # 0
        BY <1>1
      <4>2. F[n] = Step(n, f[n - 1])
        BY <4>1
      <4>3. f = F
        BY <2>1
      <4>. HIDE DEF F
      <4>. QED  BY <4>2, <4>3
    <3>. QED  BY <3>1, <3>2
  <2>2. ASSUME f = [n \in 0 .. N |-> f[n]], f[0] = <<>>,
               \A n \in 1 .. N : f[n] = Step(n, f[n - 1])
        PROVE  Fits(f)
    <3>1. \A n \in 0 .. N :
            f[n] = IF n = 0 THEN <<>> ELSE IF n \in K THEN Append(f[n - 1], s[n]) ELSE f[n - 1]
      <4>. TAKE n \in 0 .. N
      <4>1. CASE n = 0
        BY <2>2, <4>1
      <4>2. CASE n \in 1 .. N
        BY <2>2, <4>2
      <4>. QED  BY <1>1, <4>1, <4>2
    <3>. QED  BY <2>2, <3>1
  <2>. QED  BY <2>1, <2>2
<1>. HIDE DEF sel, Fits, Step
<1>5. PICK g \in [0 .. N -> Q] : g[0] = <<>> /\ \A n \in 1 .. N : g[n] = Step(n, g[n - 1])
  <2>1. PICK G \in [1 .. N -> [Q -> Q]] : \A n \in 1 .. N, list \in Q : G[n][list] = Step(n, list)
    <3>1. [n \in 1 .. N |-> [list \in Q |-> Step(n, list)]] \in [1 .. N -> [Q -> Q]]
      BY <1>2
    <3>. QED  BY <3>1
  <2>2. PICK base \in Q : base = <<>>
    <3>1. <<>> \in Q
      BY <1>1
    <3>. QED  BY <3>1
  <2>3. PICK g \in [0 .. N -> Q] : g[0] = base /\ \A n \in 1 .. N : g[n] = G[n][g[n - 1]]
    <3>1. HasRecursion(N, Q, base, G)
      BY <1>1, Recursion
    <3>. QED  BY <3>1 DEF HasRecursion
  <2>4. ASSUME NEW n \in 1 .. N PROVE g[n] = Step(n, g[n - 1])
    <3>1. n - 1 \in 0 .. N
      BY <1>1
    <3>. QED  BY <2>1, <2>3, <3>1
  <2>. QED  BY <2>2, <2>3, <2>4
<1>6. Fits(sel)
  <2>1. Fits(g)
    BY <1>4, <1>5
  <2>. QED  BY <2>1 DEF sel
<1>7. \A n \in 0 .. N : sel[n] = g[n]
  <2>. DEFINE T == {n \in 0 .. N : sel[n] = g[n]}
  <2>1. 0 \in T
    BY <1>1, <1>4, <1>5, <1>6
  <2>2. ASSUME NEW n \in 0 .. N - 1, n \in T PROVE n + 1 \in T
    <3>1. n + 1 \in 1 .. N /\ (n + 1) - 1 = n
      BY <1>1
    <3>2. sel[n + 1] = Step(n + 1, sel[n]) /\ g[n + 1] = Step(n + 1, g[n])
      BY <1>4, <1>5, <1>6, <3>1
    <3>. QED  BY <2>2, <3>1, <3>2
  <2>. HIDE DEF T
  <2>3. 0 .. N \subseteq T
    BY <1>1, <2>1, <2>2, Induction
  <2>. QED  BY <2>3 DEF T
<1>8. g \in [0 .. Len(s) -> Seq(S)] /\ Selecting(g, s, K)
  BY <1>1, <1>3, <1>5, <1>7 DEF Step, Selecting
<1>. QED  BY <1>8

\* Where the n-th element of a list comes to be, when it stays.
LEMMA PositionStep ==
  ASSUME NEW K, NEW n \in Nat
  PROVE  /\ Position(K, n) \in Nat
         /\ Position(K, 0) = 0
         /\ Position(K, n + 1) = IF n + 1 \in K THEN Position(K, n) + 1 ELSE Position(K, n)
<1>1. \A k \in Nat : IsFiniteSet(K \cap (1 .. k)) /\ Position(K, k) \in Nat
  <2>. TAKE k \in Nat
  <2>1. IsFiniteSet(1 .. k)
    BY FS_Interval
  <2>2. K \cap (1 .. k) \subseteq 1 .. k
    OBVIOUS
  <2>3. IsFiniteSet(K \cap (1 .. k))
    BY <2>1, <2>2, FS_Subset
  <2>. QED  BY <2>3, FS_CardinalityType DEF Position
<1>2. Position(K, 0) = 0
  <2>1. K \cap (1 .. 0) = {}
    OBVIOUS
  <2>. QED  BY <2>1, FS_EmptySet DEF Position
<1>3. CASE n + 1 \in K
  <2>1. K \cap (1 .. n + 1) = (K \cap (1 .. n)) \cup {n + 1} /\ n + 1 \notin K \cap (1 .. n)
    BY <1>3
  <2>. QED  BY <1>1, <1>2, <1>3, <2>1, FS_AddElement DEF Position
<1>4. CASE n + 1 \notin K
  <2>1. K \cap (1 .. n + 1) = K \cap (1 .. n)
    BY <1>4
  <2>. QED  BY <1>1, <1>2, <1>4, <2>1 DEF Position
<1>. QED  BY <1>3, <1>4

\* The elements that stay keep their order.
LEMMA PositionOrder ==
  ASSUME NEW K, NEW m \in Nat, NEW n \in Nat, m <= n
  PROVE  /\ Position(K, m) <= Position(K, n)
         /\ m < n /\ n \in K => Position(K, m) < Position(K, n)
<1>. DEFINE T == {k \in Nat : /\ Position(K, m) <= Position(K, m + k)
                              /\ k > 0 /\ m + k \in K => Position(K, m) < Position(K, m + k)}
<1>1. 0 \in T
  BY PositionStep
<1>2. ASSUME NEW k \in 0 .. (n - m) - 1, k \in T PROVE k + 1 \in T
  <2>1. m + k \in Nat /\ m + (k + 1) = (m + k) + 1
    OBVIOUS
  <2>2. /\ Position(K, m + k) \in Nat /\ Position(K, m) \in Nat
        /\ Position(K, (m + k) + 1) = IF (m + k) + 1 \in K THEN Position(K, m + k) + 1
                                      ELSE Position(K, m + k)
    BY <2>1, PositionStep
  <2>3. k \in Nat /\ Position(K, m) <= Position(K, m + k)
    BY <1>2
  <2>. QED  BY <2>1, <2>2, <2>3
<1>. HIDE DEF T
<1>3. 0 .. n - m \subseteq T
  BY <1>1, <1>2, Induction
<1>4. n - m \in T
  BY <1>3
<1>5. m + (n - m) = n /\ (m < n => n - m > 0)
  OBVIOUS
<1>. QED  BY <1>4, <1>5 DEF T

\* What is left of a list: the n-th element, when it stays, at its position, and
\* nothing else.
LEMMA SelectedFacts ==
  ASSUME NEW S, NEW s \in Seq(S), NEW K
  PROVE  /\ Selected(s, K) \in Seq(S)
         /\ Len(Selected(s, K)) = Position(K, Len(s))
         /\ \A n \in 1 .. Len(s) : n \in K =>
              /\ Position(K, n) \in 1 .. Len(Selected(s, K))
              /\ Selected(s, K)[Position(K, n)] = s[n]
         /\ \A i \in 1 .. Len(Selected(s, K)) :
              \E n \in 1 .. Len(s) : n \in K /\ Position(K, n) = i /\ Selected(s, K)[i] = s[n]
<1>1. PICK f \in [0 .. Len(s) -> Seq(S)] : Selecting(f, s, K)
  BY SelectedDef
<1>. DEFINE Holds(n) ==
              /\ Len(f[n]) = Position(K, n)
              /\ \A m \in 1 .. n : m \in K => f[n][Position(K, m)] = s[m]
              /\ \A i \in 1 .. Position(K, n) : \E m \in 1 .. n : m \in K /\ Position(K, m) = i
            T == {n \in 0 .. Len(s) : Holds(n)}
<1>2. 0 \in T
  <2>1. Position(K, 0) = 0 /\ 0 \in 0 .. Len(s)
    BY PositionStep
  <2>2. f[0] = <<>> /\ Len(f[0]) = 0
    BY <1>1 DEF Selecting
  <2>. QED  BY <2>1, <2>2
<1>3. ASSUME NEW n \in 0 .. Len(s) - 1, n \in T PROVE n + 1 \in T
  <2>1. /\ n + 1 \in 1 .. Len(s) /\ (n + 1) - 1 = n
        /\ f[n] \in Seq(S) /\ s[n + 1] \in S
    OBVIOUS
  <2>2. /\ Position(K, n) \in Nat
        /\ Position(K, n + 1) = IF n + 1 \in K THEN Position(K, n) + 1 ELSE Position(K, n)
    BY PositionStep
  <2>3. \A m \in 1 .. n : m \in K => Position(K, m) \in 1 .. Position(K, n)
    <3>. TAKE m \in 1 .. n
    <3>1. Position(K, m) \in Nat /\ Position(K, m) <= Position(K, n)
      BY PositionStep, PositionOrder
    <3>2. m \in K => Position(K, 0) < Position(K, m) /\ Position(K, 0) = 0
      BY PositionStep, PositionOrder
    <3>. QED  BY <3>1, <3>2, <2>2
  <2>4. CASE n + 1 \in K
    <3>1. /\ f[n + 1] = Append(f[n], s[n + 1])
          /\ Len(f[n + 1]) = Position(K, n) + 1
          /\ f[n + 1][Position(K, n) + 1] = s[n + 1]
          /\ \A i \in 1 .. Position(K, n) : f[n + 1][i] = f[n][i]
      <4>1. f[n + 1] = Append(f[n], s[n + 1]) /\ Len(f[n]) = Position(K, n)
        BY <1>1, <1>3, <2>1, <2>4 DEF Selecting
      <4>. QED  BY <4>1, <2>1, <2>2, AppendProperties
    <3>2. \A m \in 1 .. n + 1 : m \in K => f[n + 1][Position(K, m)] = s[m]
      <4>. TAKE m \in 1 .. n + 1
      <4>1. CASE m = n + 1
        BY <3>1, <2>2, <2>4, <4>1
      <4>2. CASE m \in 1 .. n
        BY <3>1, <2>3, <1>3, <4>2
      <4>. QED  BY <4>1, <4>2
    <3>3. \A i \in 1 .. Position(K, n + 1) : \E m \in 1 .. n + 1 : m \in K /\ Position(K, m) = i
      <4>. TAKE i \in 1 .. Position(K, n + 1)
      <4>1. CASE i = Position(K, n + 1)
        BY <2>4, <4>1
      <4>2. CASE i \in 1 .. Position(K, n)
        <5>1. PICK m \in 1 .. n : m \in K /\ Position(K, m) = i
          BY <1>3, <4>2
        <5>. QED  BY <5>1
      <4>. QED  BY <2>2, <2>4, <4>1, <4>2
    <3>4. Len(f[n + 1]) = Position(K, n + 1) /\ n + 1 \in 0 .. Len(s)
      BY <3>1, <2>1, <2>2, <2>4
    <3>. QED  BY <3>2, <3>3, <3>4
  <2>5. CASE n + 1 \notin K
    <3>1. f[n + 1] = f[n] /\ Position(K, n + 1) = Position(K, n)
      BY <1>1, <2>1, <2>2, <2>5 DEF Selecting
    <3>2. \A m \in 1 .. n + 1 : m \in K => m \in 1 .. n
      BY <2>5
    <3>3. Len(f[n + 1]) = Position(K, n + 1) /\ n + 1 \in 0 .. Len(s)
      BY <1>3, <2>1, <3>1
    <3>4. \A m \in 1 .. n + 1 : m \in K => f[n + 1][Position(K, m)] = s[m]
      BY <1>3, <3>1, <3>2
    <3>5. \A i \in 1 .. Position(K, n + 1) : \E m \in 1 .. n + 1 : m \in K /\ Position(K, m) = i
      <4>. TAKE i \in 1 .. Position(K, n + 1)
      <4>1. PICK m \in 1 .. n : m \in K /\ Position(K, m) = i
        BY <1>3, <3>1
      <4>. QED  BY <4>1
    <3>. QED  BY <3>3, <3>4, <3>5
  <2>. QED  BY <2>4, <2>5
<1>4. Holds(Len(s))
  <2>. HIDE DEF T
  <2>1. Len(s) \in Nat
    OBVIOUS
  <2>2. 0 .. Len(s) \subseteq T
    BY <1>2, <1>3, <2>1, Induction
  <2>3. Len(s) \in T
    BY <2>1, <2>2
  <2>. QED  BY <2>3 DEF T
<1>5. Selected(s, K) = f[Len(s)] /\ Selected(s, K) \in Seq(S)
  BY <1>1 DEF Selecting
<1>6. ASSUME NEW n \in 1 .. Len(s), n \in K
      PROVE  Position(K, n) \in 1 .. Position(K, Len(s))
  <2>1. Position(K, n) <= Position(K, Len(s))
    BY PositionOrder
  <2>2. Position(K, 0) < Position(K, n) /\ Position(K, 0) = 0
    BY <1>6, PositionStep, PositionOrder
  <2>3. Position(K, n) \in Nat /\ Position(K, Len(s)) \in Nat
    BY PositionStep
  <2>. QED  BY <2>1, <2>2, <2>3
<1>. QED  BY <1>4, <1>5, <1>6

\* A list does not grow.
LEMMA SelectedLength ==
  ASSUME NEW S, NEW s \in Seq(S), NEW K
  PROVE  Len(Selected(s, K)) \in Nat /\ Len(Selected(s, K)) <= Len(s)
<1>1. Len(s) \in Nat
  OBVIOUS
<1>2. IsFiniteSet(1 .. Len(s)) /\ Cardinality(1 .. Len(s)) = Len(s)
  <2>1. \A n \in Nat : IF 1 > n THEN 0 = n ELSE (n - 1) + 1 = n
    OBVIOUS
  <2>. QED  BY <1>1, <2>1, FS_Interval, SMTT(30)
<1>3. K \cap (1 .. Len(s)) \subseteq 1 .. Len(s)
  OBVIOUS
<1>4. Position(K, Len(s)) <= Len(s)
  BY <1>2, <1>3, FS_Subset DEF Position
<1>5. Selected(s, K) \in Seq(S) /\ Len(Selected(s, K)) = Position(K, Len(s))
  BY SelectedFacts
<1>. QED  BY <1>4, <1>5

\* A set of numbers that is not empty and has a bound has a greatest one.
LEMMA GreatestNumber ==
  ASSUME NEW n \in Nat, NEW T \in SUBSET (1 .. n), T # {}
  PROVE  \E m \in T : \A k \in T : m >= k
<1>. DEFINE U == {n - k : k \in T}
<1>1. U \in SUBSET Nat /\ U # {}
  <2>1. \A k \in T : n - k \in Nat
    OBVIOUS
  <2>. QED  BY <2>1
<1>2. PICK u \in U : \A v \in U : u <= v
  <2>. HIDE DEF U
  <2>. QED  BY <1>1, LeastNumber
<1>3. PICK m \in T : u = n - m
  OBVIOUS
<1>4. ASSUME NEW k \in T PROVE m >= k
  <2>1. n - k \in U /\ k \in 1 .. n /\ m \in 1 .. n
    OBVIOUS
  <2>2. u <= n - k
    BY <1>2, <2>1
  <2>. QED  BY <1>3, <2>1, <2>2
<1>. QED  BY <1>4

-----------------------------------------------------------------------------
(* Linked. *)

\* f[n] is the list after the first n numbers.
Linking(f, N, Same) ==
  /\ f[0] = <<>>
  /\ \A n \in 1 .. N : f[n] = Pushed(f[n - 1], n, Same)
  /\ Linked(N, Same) = f[N]

\* The recursion in Linked is sound: it has the function it describes.
LEMMA LinkedDef ==
  ASSUME NEW N \in Nat, NEW Same
  PROVE  \E f \in [0 .. N -> Seq(1 .. N)] : Linking(f, N, Same)
<1>1. PICK Q : Q = Seq(1 .. N)
  OBVIOUS
<1>. DEFINE Fits(f) == f = [n \in 0 .. N |-> IF n = 0 THEN <<>> ELSE Pushed(f[n - 1], n, Same)]
            lnk == CHOOSE f : Fits(f)
<1>2. \A n \in 1 .. N, list \in Q : Pushed(list, n, Same) \in Q
  <2>. TAKE n \in 1 .. N, list \in Q
  <2>1. Append(list, n) \in Q
    BY <1>1
  <2>. QED  BY <2>1 DEF Pushed
<1>3. Linked(N, Same) = lnk[N]
  BY DEF Linked
<1>4. \A f : Fits(f) <=> /\ f = [n \in 0 .. N |-> f[n]]
                          /\ f[0] = <<>>
                          /\ \A n \in 1 .. N : f[n] = Pushed(f[n - 1], n, Same)
  <2>. TAKE f
  <2>1. ASSUME Fits(f) PROVE /\ f = [n \in 0 .. N |-> f[n]]
                             /\ f[0] = <<>>
                             /\ \A n \in 1 .. N : f[n] = Pushed(f[n - 1], n, Same)
    <3>1. f[0] = <<>> /\ f = [n \in 0 .. N |-> f[n]]
      BY <2>1
    <3>2. ASSUME NEW n \in 1 .. N PROVE f[n] = Pushed(f[n - 1], n, Same)
      <4>. DEFINE F == [m \in 0 .. N |-> IF m = 0 THEN <<>> ELSE Pushed(f[m - 1], m, Same)]
      <4>1. n \in 0 .. N /\ n # 0
        OBVIOUS
      <4>2. F[n] = Pushed(f[n - 1], n, Same)
        BY <4>1
      <4>3. f = F
        BY <2>1
      <4>. HIDE DEF F
      <4>. QED  BY <4>2, <4>3
    <3>. QED  BY <3>1, <3>2
  <2>2. ASSUME f = [n \in 0 .. N |-> f[n]], f[0] = <<>>,
               \A n \in 1 .. N : f[n] = Pushed(f[n - 1], n, Same)
        PROVE  Fits(f)
    <3>1. \A n \in 0 .. N : f[n] = IF n = 0 THEN <<>> ELSE Pushed(f[n - 1], n, Same)
      <4>. TAKE n \in 0 .. N
      <4>1. CASE n = 0
        BY <2>2, <4>1
      <4>2. CASE n \in 1 .. N
        BY <2>2, <4>2
      <4>. QED  BY <4>1, <4>2
    <3>. QED  BY <2>2, <3>1
  <2>. QED  BY <2>1, <2>2
<1>. HIDE DEF lnk, Fits
<1>5. PICK g \in [0 .. N -> Q] : g[0] = <<>> /\ \A n \in 1 .. N : g[n] = Pushed(g[n - 1], n, Same)
  <2>1. PICK G \in [1 .. N -> [Q -> Q]] :
          \A n \in 1 .. N, list \in Q : G[n][list] = Pushed(list, n, Same)
    <3>1. [n \in 1 .. N |-> [list \in Q |-> Pushed(list, n, Same)]] \in [1 .. N -> [Q -> Q]]
      BY <1>2
    <3>. QED  BY <3>1
  <2>2. PICK base \in Q : base = <<>>
    <3>1. <<>> \in Q
      BY <1>1
    <3>. QED  BY <3>1
  <2>3. PICK g \in [0 .. N -> Q] : g[0] = base /\ \A n \in 1 .. N : g[n] = G[n][g[n - 1]]
    <3>1. HasRecursion(N, Q, base, G)
      BY Recursion
    <3>. QED  BY <3>1 DEF HasRecursion
  <2>4. ASSUME NEW n \in 1 .. N PROVE g[n] = Pushed(g[n - 1], n, Same)
    <3>1. n - 1 \in 0 .. N
      OBVIOUS
    <3>. QED  BY <2>1, <2>3, <3>1
  <2>. QED  BY <2>2, <2>3, <2>4
<1>6. Fits(lnk)
  <2>1. Fits(g)
    BY <1>4, <1>5
  <2>. QED  BY <2>1 DEF lnk
<1>7. \A n \in 0 .. N : lnk[n] = g[n]
  <2>. DEFINE T == {n \in 0 .. N : lnk[n] = g[n]}
  <2>1. 0 \in T
    BY <1>4, <1>5, <1>6
  <2>2. ASSUME NEW n \in 0 .. N - 1, n \in T PROVE n + 1 \in T
    <3>1. n + 1 \in 1 .. N /\ (n + 1) - 1 = n
      OBVIOUS
    <3>2. lnk[n + 1] = Pushed(lnk[n], n + 1, Same) /\ g[n + 1] = Pushed(g[n], n + 1, Same)
      BY <1>4, <1>5, <1>6, <3>1
    <3>. QED  BY <2>2, <3>1, <3>2
  <2>. HIDE DEF T
  <2>3. 0 .. N \subseteq T
    BY <2>1, <2>2, Induction
  <2>. QED  BY <2>3 DEF T
<1>8. g \in [0 .. N -> Seq(1 .. N)] /\ Linking(g, N, Same)
  BY <1>1, <1>3, <1>5, <1>7 DEF Linking
<1>. QED  BY <1>8

\* The numbers of a list of which no two are the same, unless they are next to each other,
\* and which has for each number up to n that number or one that is the same.
Links(list, n, Same) ==
  /\ list \in Seq(1 .. n)
  /\ \A m \in 1 .. n : \E i \in 1 .. Len(list) : list[i] = m \/ <<list[i], m>> \in Same
  /\ \A i, j \in 1 .. Len(list) : i < j =>
       list[i] < list[j] /\ (<<list[i], list[j]>> \in Same => j = i + 1)
  /\ (\A i, j \in 1 .. n : i < j => <<i, j>> \notin Same) =>
       Len(list) = n /\ \A i \in 1 .. n : list[i] = i

\* A number that is pushed to such a list makes one for a number more.
LEMMA LinksStep ==
  ASSUME NEW n \in Nat, NEW Same, NEW list, Links(list, n, Same)
  PROVE  Links(Pushed(list, n + 1, Same), n + 1, Same)
<1>1. list \in Seq(1 .. n) /\ Len(list) \in Nat /\ list \in Seq(1 .. n + 1)
  <2>1. list \in Seq(1 .. n) /\ 1 .. n \subseteq 1 .. n + 1
    BY DEF Links
  <2>. QED  BY <2>1
<1>2. CASE \E i \in 1 .. Len(list) - 1 : <<list[i], n + 1>> \in Same
  <2>1. PICK i \in 1 .. Len(list) - 1 : <<list[i], n + 1>> \in Same
    BY <1>2
  <2>2. i \in 1 .. Len(list) /\ list[i] \in 1 .. n
    BY <1>1
  <2>3. Pushed(list, n + 1, Same) = list
    BY <1>2 DEF Pushed
  <2>4. \A m \in 1 .. n + 1 : \E k \in 1 .. Len(list) : list[k] = m \/ <<list[k], m>> \in Same
    <3>. TAKE m \in 1 .. n + 1
    <3>. m = n + 1 \/ m \in 1 .. n
      OBVIOUS
    <3>1. CASE m = n + 1
      BY <2>1, <2>2, <3>1
    <3>2. CASE m \in 1 .. n
      BY <3>2 DEF Links
    <3>. QED  BY <3>1, <3>2
  <2>5. ~(\A k, j \in 1 .. n + 1 : k < j => <<k, j>> \notin Same)
    <3>1. list[i] \in 1 .. n + 1 /\ n + 1 \in 1 .. n + 1 /\ list[i] < n + 1
      BY <2>2
    <3>. QED  BY <2>1, <3>1
  <2>. QED  BY <1>1, <2>3, <2>4, <2>5 DEF Links
<1>3. CASE \A i \in 1 .. Len(list) - 1 : <<list[i], n + 1>> \notin Same
  <2>1. PICK new \in Seq(1 .. n + 1) :
          /\ new = Pushed(list, n + 1, Same) /\ Len(new) = Len(list) + 1
          /\ new[Len(list) + 1] = n + 1 /\ \A i \in 1 .. Len(list) : new[i] = list[i]
    <3>1. Pushed(list, n + 1, Same) = Append(list, n + 1)
      BY <1>3 DEF Pushed
    <3>2. n + 1 \in 1 .. n + 1
      OBVIOUS
    <3>3. Append(list, n + 1) \in Seq(1 .. n + 1)
      BY <1>1, <3>2
    <3>4. /\ Len(Append(list, n + 1)) = Len(list) + 1
          /\ Append(list, n + 1)[Len(list) + 1] = n + 1
          /\ \A i \in 1 .. Len(list) : Append(list, n + 1)[i] = list[i]
      BY <1>1, <3>2
    <3>. QED  BY <3>1, <3>3, <3>4
  <2>2. Len(list) + 1 \in 1 .. Len(new) /\ \A i \in 1 .. Len(list) : i \in 1 .. Len(new)
    BY <1>1, <2>1
  <2>3. \A m \in 1 .. n + 1 : \E k \in 1 .. Len(new) : new[k] = m \/ <<new[k], m>> \in Same
    <3>. TAKE m \in 1 .. n + 1
    <3>. m = n + 1 \/ m \in 1 .. n
      OBVIOUS
    <3>1. CASE m = n + 1
      BY <2>1, <2>2, <3>1
    <3>2. CASE m \in 1 .. n
      <4>1. PICK k \in 1 .. Len(list) : list[k] = m \/ <<list[k], m>> \in Same
        BY <3>2 DEF Links
      <4>. QED  BY <2>1, <2>2, <4>1
    <3>. QED  BY <3>1, <3>2
  <2>4. ASSUME NEW i \in 1 .. Len(new), NEW j \in 1 .. Len(new), i < j
        PROVE  new[i] < new[j] /\ (<<new[i], new[j]>> \in Same => j = i + 1)
    <3>1. i \in 1 .. Len(list) /\ (j \in 1 .. Len(list) \/ j = Len(list) + 1)
      <4>1. \A L \in Nat : i \in 1 .. L + 1 /\ j \in 1 .. L + 1 =>
              i \in 1 .. L /\ (j \in 1 .. L \/ j = L + 1)
        BY <2>4
      <4>2. i \in 1 .. Len(list) + 1 /\ j \in 1 .. Len(list) + 1
        BY <2>1
      <4>. QED  BY <1>1, <4>1, <4>2
    <3>2. CASE j \in 1 .. Len(list)
      BY <2>1, <2>4, <3>1, <3>2 DEF Links
    <3>3. CASE j = Len(list) + 1
      <4>1. new[j] = n + 1 /\ new[i] = list[i] /\ list[i] \in 1 .. n
        BY <1>1, <2>1, <3>1, <3>3, SMTT(30)
      <4>2. new[i] < new[j]
        BY <4>1
      <4>3. i \in 1 .. Len(list) - 1 \/ j = i + 1
        BY <1>1, <3>1, <3>3
      <4>. QED  BY <1>3, <4>1, <4>2, <4>3
    <3>. QED  BY <3>1, <3>2, <3>3
  <2>5. ASSUME \A i, j \in 1 .. n + 1 : i < j => <<i, j>> \notin Same
        PROVE  Len(new) = n + 1 /\ \A i \in 1 .. n + 1 : new[i] = i
    <3>1. \A i, j \in 1 .. n : i \in 1 .. n + 1 /\ j \in 1 .. n + 1
      OBVIOUS
    <3>2. Len(list) = n /\ \A i \in 1 .. n : list[i] = i
      BY <2>5, <3>1 DEF Links
    <3>3. \A i \in 1 .. n + 1 : i \in 1 .. n \/ i = n + 1
      OBVIOUS
    <3>. QED  BY <2>1, <3>2, <3>3
  <2>. QED  BY <2>1, <2>3, <2>4, <2>5 DEF Links
<1>. QED  BY <1>2, <1>3

\* What comes to be linked.
LEMMA LinkedFacts ==
  ASSUME NEW N \in Nat, NEW Same
  PROVE  Links(Linked(N, Same), N, Same)
<1>1. PICK f \in [0 .. N -> Seq(1 .. N)] : Linking(f, N, Same)
  BY LinkedDef
<1>. DEFINE T == {n \in 0 .. N : Links(f[n], n, Same)}
<1>2. 0 \in T
  <2>1. f[0] = <<>> /\ 0 \in 0 .. N
    BY <1>1 DEF Linking
  <2>2. <<>> \in Seq(1 .. 0) /\ Len(<<>>) = 0 /\ \A i \in 1 .. 0 : FALSE
    OBVIOUS
  <2>3. Links(<<>>, 0, Same)
    BY <2>2 DEF Links
  <2>. QED  BY <2>1, <2>3
<1>3. ASSUME NEW n \in 0 .. N - 1, n \in T PROVE n + 1 \in T
  <2>1. n + 1 \in 1 .. N /\ n + 1 \in 0 .. N /\ (n + 1) - 1 = n /\ n \in Nat
    OBVIOUS
  <2>2. f[n + 1] = Pushed(f[n], n + 1, Same)
    BY <1>1, <2>1 DEF Linking
  <2>3. Links(Pushed(f[n], n + 1, Same), n + 1, Same)
    BY <1>3, <2>1, LinksStep
  <2>. QED  BY <2>1, <2>2, <2>3
<1>. HIDE DEF T
<1>4. 0 .. N \subseteq T
  BY <1>2, <1>3, Induction
<1>5. N \in T
  BY <1>4
<1>. QED  BY <1>1, <1>5 DEF T, Linking
=============================================================================
