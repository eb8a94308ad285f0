------------------------- MODULE InductionTheorems -------------------------
(***************************************************************************)
(* Induction and recursion over an interval of numbers, stated of sets and *)
(* functions: what the loops of the code compute, for any number of        *)
(* rounds.  All of it rests on the least element of a set of numbers.      *)
(***************************************************************************)
EXTENDS Integers, WellFoundedInduction, TLAPS

-----------------------------------------------------------------------------
(* Least and greatest elements *)

LEMMA Least ==
    ASSUME NEW T, T \subseteq Nat, T # {}
    PROVE  \E m \in T : \A k \in T : m <= k
<1>1. PICK m \in T : \A k \in T : ~ (<<k, m>> \in OpToRel(<, Nat))
  BY WFMin, NatLessThanWellFounded
<1>2. ASSUME NEW k \in T, k < m PROVE FALSE
  BY <1>1, <1>2 DEF OpToRel
<1> QED BY <1>2

\* A set of numbers up to n has a greatest one: counted down from n it is the least
LEMMA GreatestIn ==
    ASSUME NEW n \in Nat, NEW T, T \subseteq 0 .. n, T # {}
    PROVE  \E m \in T : \A k \in T : k <= m
<1> DEFINE D == {n - k : k \in T}
<1>1. D \subseteq Nat /\ D # {}
  OBVIOUS
<1>2. PICK d \in D : \A e \in D : d <= e
  <2> HIDE DEF D
  <2> QED BY <1>1, Least
<1>3. PICK m \in T : d = n - m
  OBVIOUS
<1>4. ASSUME NEW k \in T PROVE k <= m
  <2>1. n - k \in D
    OBVIOUS
  <2>2. d <= n - k
    <3> HIDE DEF D
    <3> QED BY <1>2, <2>1
  <2>3. k \in 0 .. n /\ m \in 0 .. n
    OBVIOUS
  <2> HIDE DEF D
  <2> QED BY <1>3, <2>2, <2>3
<1> QED BY <1>4

\* One of finitely many numbers is the greatest: a least n for which this fails for the
\* first n of them would have a predecessor
LEMMA Greatest ==
    ASSUME NEW n \in Nat \ {0}, NEW f, \A i \in 1 .. n : f[i] \in Nat
    PROVE  \E m \in 1 .. n : \A i \in 1 .. n : f[i] <= f[m]
<1> DEFINE Bad == {k \in 1 .. n : \A m \in 1 .. k : \E i \in 1 .. k : ~ (f[i] <= f[m])}
<1>1. SUFFICES ASSUME Bad # {} PROVE FALSE
  <2>1. n \notin Bad
    BY <1>1
  <2> QED BY <2>1
<1>a. Bad \subseteq Nat
  OBVIOUS
<1>2. PICK k \in Bad : \A j \in Bad : k <= j
  <2> HIDE DEF Bad
  <2> QED BY <1>1, <1>a, Least
<1>3. k # 1
  <2> SUFFICES ASSUME k = 1 PROVE FALSE
    OBVIOUS
  <2>1. PICK i \in 1 .. 1 : ~ (f[i] <= f[1])
    BY <1>2
  <2> QED BY <2>1
<1>4. k - 1 \in 1 .. n /\ k - 1 \notin Bad
  <2>1. k \in 1 .. n
    OBVIOUS
  <2>2. ~ (k <= k - 1)
    BY <2>1
  <2>3. k - 1 \notin Bad
    <3> HIDE DEF Bad
    <3> QED BY <1>2, <2>2
  <2> QED BY <1>3, <2>1, <2>3
<1>5. PICK m \in 1 .. k - 1 : \A i \in 1 .. k - 1 : f[i] <= f[m]
  BY <1>4
<1>6. CASE f[k] <= f[m]
  BY <1>2, <1>5, <1>6
<1>7. CASE f[m] < f[k]
  <2>1. \A i \in 1 .. k : f[i] <= f[k]
    BY <1>2, <1>5, <1>7
  <2> QED BY <1>2, <2>1
<1> QED BY <1>2, <1>5, <1>6, <1>7
-----------------------------------------------------------------------------
(* Induction and recursion *)

\* A set with 0, and with each number up to n whose predecessor it has, has all of them
LEMMA UpwardInduction ==
    ASSUME NEW n \in Nat, NEW P, 0 \in P, \A k \in 0 .. n : k < n /\ k \in P => k + 1 \in P
    PROVE  \A k \in 0 .. n : k \in P
<1> DEFINE Bad == {k \in 0 .. n : k \notin P}
<1> SUFFICES ASSUME Bad # {} PROVE FALSE
  OBVIOUS
<1>1. Bad \subseteq Nat
  OBVIOUS
<1>2. PICK k \in Bad : \A j \in Bad : k <= j
  <2> HIDE DEF Bad
  <2> QED BY <1>1, Least
<1>3. k \in 0 .. n /\ k # 0 /\ k \notin P
  OBVIOUS
<1>4. k - 1 \notin P
  BY <1>3
<1>5. k - 1 \in Bad /\ ~ (k <= k - 1)
  BY <1>3, <1>4
<1> QED BY <1>2, <1>5

\* Two functions that begin alike, and go on alike, are the same up to n
Alike(n, F, G) ==
    /\ F[0] = G[0]
    /\ \A i \in 1 .. n : F[i - 1] = G[i - 1] => F[i] = G[i]

LEMMA SameRounds ==
    ASSUME NEW n \in Nat, NEW F, NEW G, Alike(n, F, G)
    PROVE  \A k \in 0 .. n : F[k] = G[k]
<1> DEFINE P == {k \in 0 .. n : F[k] = G[k]}
<1>1. 0 \in P
  BY DEF Alike
<1>2. ASSUME NEW k \in 0 .. n, k < n, k \in P PROVE k + 1 \in P
  <2>1. PICK j \in 1 .. n : j = k + 1 /\ j - 1 = k
    BY <1>2
  <2>2. F[j] = G[j]
    BY <1>2, <2>1 DEF Alike
  <2> QED BY <2>1, <2>2
<1>3. \A k \in 0 .. n : k \in P
  <2> HIDE DEF P
  <2> QED BY <1>1, <1>2, UpwardInduction
<1> QED BY <1>3

\* What the rounds I of a loop do to a value of V
Rounds(I, V) == [I -> [V -> V]]

\* The function that a recursion from below defines
LEMMA UpwardRecursion ==
    ASSUME NEW n \in Nat, NEW V, NEW first \in V, NEW step \in Rounds(1 .. n, V)
    PROVE  \E F \in [0 .. n -> V] :
              F[0] = first /\ \A i \in 1 .. n : F[i] = step[i][F[i - 1]]
<1> DEFINE Solves(F, m) ==
             /\ F \in [0 .. m -> V] /\ F[0] = first
             /\ \A i \in 1 .. m : F[i] = step[i][F[i - 1]]
           P == {m \in 0 .. n : \E F : Solves(F, m)}
<1>1. 0 \in P
  <2> DEFINE F == [i \in 0 .. 0 |-> first]
  <2>1. Solves(F, 0)
    OBVIOUS
  <2> HIDE DEF F, Solves
  <2> QED BY <2>1
<1>2. ASSUME NEW m \in 0 .. n, m < n, m \in P PROVE m + 1 \in P
  <2>1. PICK F : Solves(F, m)
    BY <1>2
  <2> DEFINE G == [i \in 0 .. m + 1 |-> IF i = m + 1 THEN step[m + 1][F[m]] ELSE F[i]]
  <2>2. step[m + 1][F[m]] \in V
    BY <1>2, <2>1 DEF Rounds
  <2>3. G \in [0 .. m + 1 -> V] /\ G[0] = first
    BY <2>1, <2>2
  <2>4. ASSUME NEW i \in 1 .. m + 1 PROVE G[i] = step[i][G[i - 1]]
    <3>1. CASE i = m + 1
      BY <3>1
    <3>2. CASE i # m + 1
      <4>1. i \in 1 .. m /\ i - 1 \in 0 .. m
        BY <3>2
      <4>2. G[i] = F[i] /\ G[i - 1] = F[i - 1]
        BY <4>1
      <4> QED BY <2>1, <4>1, <4>2
    <3> QED BY <3>1, <3>2
  <2>5. Solves(G, m + 1)
    <3> HIDE DEF G
    <3> QED BY <2>3, <2>4
  <2>6. m + 1 \in 0 .. n
    BY <1>2
  <2> QED BY <2>5, <2>6
<1>3. n \in P
  <2>1. \A k \in 0 .. n : k \in P
    <3> HIDE DEF P
    <3> QED BY <1>1, <1>2, UpwardInduction
  <2> QED BY <2>1
<1> QED BY <1>3

\* The function that a recursion from above defines
RoundsBack(a, b, V) == Rounds(a .. b - 1, V)

LEMMA DownwardRecursion ==
    ASSUME NEW a \in Int, NEW b \in Int, a <= b, NEW V, NEW last \in V,
           NEW step \in RoundsBack(a, b, V)
    PROVE  \E F \in [a .. b -> V] :
              F[b] = last /\ \A i \in a .. b - 1 : F[i] = step[i][F[i + 1]]
<1> DEFINE n == b - a
           mirror == [k \in 1 .. n |-> step[b - k]]
<1>1. n \in Nat
  OBVIOUS
<1>2. ASSUME NEW k \in 1 .. n PROVE mirror[k] = step[b - k] /\ b - k \in a .. b - 1
  OBVIOUS
<1>3. mirror \in Rounds(1 .. n, V)
  BY <1>2 DEF Rounds, RoundsBack
<1>4. PICK G \in [0 .. n -> V] : G[0] = last /\ \A i \in 1 .. n : G[i] = mirror[i][G[i - 1]]
  <2> HIDE DEF mirror, n
  <2> QED BY <1>1, <1>3, UpwardRecursion
<1> DEFINE F == [i \in a .. b |-> G[b - i]]
<1>5. ASSUME NEW i \in a .. b PROVE F[i] \in V /\ F[i] = IF i = b THEN last ELSE step[i][F[i + 1]]
  <2>1. b - i \in 0 .. n /\ F[i] = G[b - i]
    OBVIOUS
  <2>2. CASE i = b
    BY <1>4, <2>1, <2>2
  <2>3. CASE i # b
    <3>1. b - i \in 1 .. n /\ (b - i) - 1 \in 0 .. n /\ i + 1 \in a .. b /\ b - (i + 1) = (b - i) - 1
      BY <2>3
    <3>2. G[b - i] = mirror[b - i][G[(b - i) - 1]]
      <4>1. PICK k \in 1 .. n : k = b - i
        BY <3>1
      <4> HIDE DEF mirror, n
      <4>2. G[k] = mirror[k][G[k - 1]]
        BY <1>4, <4>1
      <4> QED BY <4>1, <4>2
    <3>3. mirror[b - i] = step[b - (b - i)]
      <4> HIDE DEF mirror
      <4> QED BY <1>2, <3>1
    <3>4. F[i + 1] = G[(b - i) - 1] /\ b - (b - i) = i
      BY <3>1
    <3> QED BY <1>4, <2>1, <2>3, <3>2, <3>3, <3>4
  <2> QED BY <2>2, <2>3
<1>6. F \in [a .. b -> V]
  BY <1>5
<1>7. F[b] = last /\ \A i \in a .. b - 1 : F[i] = step[i][F[i + 1]]
  <2>1. b \in a .. b /\ \A i \in a .. b - 1 : i \in a .. b /\ i # b
    OBVIOUS
  <2> HIDE DEF F
  <2> QED BY <1>5, <2>1
<1> HIDE DEF F
<1> QED BY <1>6, <1>7
=============================================================================
