------------------------------ MODULE Numbers ------------------------------
(***************************************************************************)
(* Induction over numbers and functions defined by recursion, as facts     *)
(* about sets.                                                             *)
(***************************************************************************)
EXTENDS Integers, FiniteSetTheorems, TLAPS

\* Every set of numbers has a least one, which is how the proofs below do
\* induction.
LEMMA LeastNumber ==
    ASSUME NEW T, T \subseteq Nat, T # {}
    PROVE  \E x \in T : \A y \in T : x <= y
<1>1. PICK n \in T : TRUE
  OBVIOUS
<1> DEFINE F == {0 .. k : k \in {t \in T : t <= n}}
           S == FiniteSubsetsOf(Nat)
<1>2. \A k \in Nat : 0 .. k \in S
  BY FS_Interval DEF FiniteSubsetsOf
<1>3. F \subseteq S /\ F # {}
  BY <1>1, <1>2
<1>4. PICK x \in F : \A y \in F : <<y, x>> \notin StrictSubsetOrdering(Nat)
  <2> HIDE DEF F, S
  <2>1. IsWellFoundedOn(StrictSubsetOrdering(Nat), S)
    BY FS_StrictSubsetOrderingWellFounded DEF S
  <2>2. QED
    BY <1>3, <2>1, WFMin
<1>5. PICK k \in T : k <= n /\ x = 0 .. k
  OBVIOUS
<1>6. ASSUME NEW y \in T, y < k
      PROVE  FALSE
  <2>1. y \in Nat /\ k \in Nat /\ n \in Nat
    BY <1>1
  <2>2. 0 .. y \in F
    BY <1>5, <1>6, <2>1
  <2>3. 0 .. y \subseteq 0 .. k /\ 0 .. y \subseteq Nat /\ 0 .. k \subseteq Nat
    BY <1>6, <2>1
  <2>4. k \in 0 .. k /\ k \notin 0 .. y
    BY <1>6, <2>1
  <2>5. <<0 .. y, 0 .. k>> \in StrictSubsetOrdering(Nat)
    BY <2>3, <2>4 DEF StrictSubsetOrdering
  <2>6. QED
    BY <1>4, <1>5, <2>2, <2>5
<1>7. QED
  BY <1>5, <1>6

\* A set of numbers that holds 0, and k if it holds k - 1, holds them all.
LEMMA Induction ==
    ASSUME NEW T, 0 \in T,
           \A k \in Nat \ {0} : k - 1 \in T => k \in T
    PROVE  Nat \subseteq T
<1>1. SUFFICES ASSUME Nat \ T # {} PROVE FALSE
  OBVIOUS
<1>2. PICK k \in Nat \ T : \A y \in Nat \ T : k <= y
  BY <1>1, LeastNumber
<1>3. k # 0 /\ k - 1 \in Nat /\ ~(k <= k - 1)
  BY <1>2
<1>4. QED
  BY <1>2, <1>3

\* What a function has at 0, and keeps from one number to the next, it has at
\* all of them.
LEMMA StepByStep ==
    ASSUME NEW X, NEW f, NEW n \in Nat, f[0] \in X,
           \A i \in 1 .. n : f[i - 1] \in X => f[i] \in X
    PROVE  \A i \in 0 .. n : f[i] \in X
<1> DEFINE T == {k \in Nat : k <= n => f[k] \in X}
<1>1. 0 \in T
  OBVIOUS
<1>2. ASSUME NEW k \in Nat \ {0}, k - 1 \in T
      PROVE  k \in T
  <2>1. k <= n => k \in 1 .. n /\ f[k - 1] \in X
    BY <1>2
  <2>2. QED
    BY <2>1
<1>3. Nat \subseteq T
  <2> HIDE DEF T
  <2>1. QED
    BY <1>1, <1>2, Induction
<1>4. QED
  BY <1>3

\* f is computed in n steps from x0, step i by G[i].
Computed(f, x0, n, G) == f[0] = x0 /\ \A i \in 1 .. n : f[i] = G[i][f[i - 1]]

\* What is computed in n steps, each from the one before, exists.
LEMMA Recursion ==
    ASSUME NEW X, NEW x0 \in X, NEW n \in Nat, NEW G \in [1 .. n -> [X -> X]]
    PROVE  \E f \in [0 .. n -> X] : Computed(f, x0, n, G)
<1> DEFINE Good(k, f) == f[0] = x0 /\ \A i \in 1 .. k : f[i] = G[i][f[i - 1]]
           T == {k \in Nat : k <= n => \E f \in [0 .. k -> X] : Good(k, f)}
<1>1. 0 \in T
  <2>1. [i \in 0 .. 0 |-> x0] \in [0 .. 0 -> X]
    OBVIOUS
  <2>2. Good(0, [i \in 0 .. 0 |-> x0])
    OBVIOUS
  <2>3. QED
    BY <2>1, <2>2
<1>2. ASSUME NEW k \in Nat \ {0}, k - 1 \in T
      PROVE  k \in T
  <2>1. SUFFICES ASSUME k <= n
                 PROVE  \E f \in [0 .. k -> X] : Good(k, f)
    OBVIOUS
  <2>2. PICK g \in [0 .. k - 1 -> X] : Good(k - 1, g)
    BY <1>2, <2>1
  <2> DEFINE f == [i \in 0 .. k |-> IF i = k THEN G[k][g[k - 1]] ELSE g[i]]
  <2>3. k \in 1 .. n /\ g[k - 1] \in X /\ G[k][g[k - 1]] \in X
    BY <2>1
  <2>4. f \in [0 .. k -> X]
    BY <2>3
  <2>5. f[0] = x0
    BY <2>2
  <2>6. ASSUME NEW i \in 1 .. k
        PROVE  f[i] = G[i][f[i - 1]]
    <3>1. f[i - 1] = g[i - 1]
      OBVIOUS
    <3>2. CASE i = k
      BY <3>1, <3>2
    <3>3. CASE i # k
      <4>1. i \in 1 .. k - 1 /\ f[i] = g[i]
        BY <3>3
      <4>2. g[i] = G[i][g[i - 1]]
        BY <2>2, <4>1
      <4>3. QED
        BY <3>1, <4>1, <4>2
    <3>4. QED
      BY <3>2, <3>3
  <2>7. QED
    BY <2>4, <2>5, <2>6
<1>3. n \in T
  <2> HIDE DEF T
  <2>1. QED
    BY <1>1, <1>2, Induction
<1>4. QED
  BY <1>3 DEF Computed

\* f is defined by recursion: it is x0 at 0, and at i what G[i] makes of the
\* value before.
Recursive(f, x0, n, G) ==
    f = [i \in 0 .. n |-> IF i = 0 THEN x0 ELSE G[i][f[i - 1]]]

\* There is such a function, and it stays in the set that no step leaves.
LEMMA RecursiveFunction ==
    ASSUME NEW X, NEW x0 \in X, NEW n \in Nat, NEW G \in [1 .. n -> [X -> X]]
    PROVE  /\ \E f : Recursive(f, x0, n, G)
           /\ \A f : Recursive(f, x0, n, G) => f \in [0 .. n -> X]
<1>1. \E f : Recursive(f, x0, n, G)
  <2>1. PICK f \in [0 .. n -> X] : Computed(f, x0, n, G)
    BY Recursion
  <2>2. \A i \in 0 .. n : f[i] = IF i = 0 THEN x0 ELSE G[i][f[i - 1]]
    <3>1. \A i \in 0 .. n : i = 0 \/ i \in 1 .. n
      OBVIOUS
    <3>2. QED
      BY <2>1, <3>1 DEF Computed
  <2>3. Recursive(f, x0, n, G)
    BY <2>1, <2>2 DEF Recursive
  <2>4. QED
    BY <2>3
<1>2. ASSUME NEW f, Recursive(f, x0, n, G)
      PROVE  f \in [0 .. n -> X]
  <2> DEFINE T == {k \in Nat : k <= n => f[k] \in X}
  <2>1. \A i \in 0 .. n : f[i] = IF i = 0 THEN x0 ELSE G[i][f[i - 1]]
    BY <1>2 DEF Recursive
  <2>2. 0 \in T
    BY <2>1
  <2>3. ASSUME NEW k \in Nat \ {0}, k - 1 \in T
        PROVE  k \in T
    <3>1. SUFFICES ASSUME k <= n PROVE f[k] \in X
      OBVIOUS
    <3>2. k \in 1 .. n /\ f[k - 1] \in X
      BY <2>3, <3>1
    <3>3. f[k] = G[k][f[k - 1]]
      BY <2>1, <3>2
    <3>4. QED
      BY <3>2, <3>3
  <2>4. Nat \subseteq T
    <3> HIDE DEF T
    <3>1. QED
      BY <2>2, <2>3, Induction
  <2>5. \A i \in 0 .. n : f[i] \in X
    BY <2>4
  <2>6. f = [i \in 0 .. n |-> f[i]]
    BY <1>2, <2>1 DEF Recursive
  <2>7. QED
    BY <2>5, <2>6
<1>3. QED
  BY <1>1, <1>2
=============================================================================
