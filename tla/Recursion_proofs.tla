-------------------------- MODULE Recursion_proofs --------------------------
(***************************************************************************)
(* Induction over numbers and finite sets, and the functions defined by     *)
(* recursion over them.  The induction theorems of the library are about an *)
(* operator; here the hypothesis is a set, those that satisfy it.          *)
(***************************************************************************)
EXTENDS Naturals, FiniteSets, FiniteSetTheorems, WellFoundedInduction, TLAPS

\* A set of numbers has a least element.
LEMMA NatMin ==
  ASSUME NEW T \in SUBSET Nat, T # {}
  PROVE  \E n \in T : \A m \in T : n <= m
<1>1. PICK n \in T : \A m \in T : ~(<<m, n>> \in OpToRel(<, Nat))
  BY NatLessThanWellFounded, WFMin
<1>2. \A m \in T : ~(m < n)
  BY <1>1 DEF OpToRel
<1> QED
  BY <1>2

\* Complete induction.
LEMMA CompleteInduction ==
  ASSUME NEW T, \A n \in Nat : (\A m \in 0 .. n - 1 : m \in T) => n \in T
  PROVE  \A n \in Nat : n \in T
<1> SUFFICES ASSUME Nat \ T # {} PROVE FALSE
  OBVIOUS
<1>1. PICK n \in Nat \ T : \A m \in Nat \ T : n <= m
  BY NatMin
<1>2. \A m \in 0 .. n - 1 : m \in T
  BY <1>1
<1> QED
  BY <1>1, <1>2

\* Induction up to a bound.
LEMMA BoundedInduction ==
  ASSUME NEW N \in Nat, NEW T, 0 \in T, \A n \in 0 .. N - 1 : n \in T => n + 1 \in T
  PROVE  \A n \in 0 .. N : n \in T
<1> DEFINE R == (0 .. N) \ T
<1> SUFFICES ASSUME R # {} PROVE FALSE
  OBVIOUS
<1>1. PICK n \in R : \A m \in R : n <= m
  <2>1. R \in SUBSET Nat
    OBVIOUS
  <2> HIDE DEF R
  <2> QED
    BY <2>1, NatMin
<1>2. n # 0 /\ n - 1 \in 0 .. N - 1 /\ n - 1 \in T
  BY <1>1
<1> QED
  BY <1>1, <1>2

\* Induction over the subsets of a finite set.
LEMMA SetInduction ==
  ASSUME NEW S, IsFiniteSet(S), NEW T, {} \in T,
         \A U \in SUBSET S : U # {} => \E x \in U : U \ {x} \in T => U \in T
  PROVE  S \in T
<1> DEFINE P == {n \in Nat : \A U \in SUBSET S : Cardinality(U) = n => U \in T}
<1>1. ASSUME NEW n \in Nat, \A m \in 0 .. n - 1 : m \in P PROVE n \in P
  <2> SUFFICES ASSUME NEW U \in SUBSET S, Cardinality(U) = n, U # {} PROVE U \in T
    OBVIOUS
  <2>1. PICK x \in U : U \ {x} \in T => U \in T
    OBVIOUS
  <2>2. IsFiniteSet(U)
    BY FS_Subset
  <2>3. Cardinality(U \ {x}) = n - 1 /\ n # 0
    BY <2>2, FS_RemoveElement, FS_EmptySet
  <2> QED
    BY <1>1, <2>1, <2>3
<1> HIDE DEF P
<1>2. \A n \in Nat : n \in P
  BY <1>1, CompleteInduction
<1>3. Cardinality(S) \in Nat
  BY FS_CardinalityType
<1> QED
  BY <1>2, <1>3 DEF P

\* How a value follows from the one before, within D.
StepOn(step, D) == step \in [Nat \X D -> D]

\* The values for 0 .. N, from b on.
Iterates(f, N, D, b, step) ==
  /\ f \in [0 .. N -> D]
  /\ f[0] = b
  /\ \A k \in 1 .. N : f[k] = step[<<k, f[k - 1]>>]

\* A function on 0 .. N may be defined by its first value and by each further
\* value from the one before.
LEMMA Iteration ==
  ASSUME NEW N \in Nat, NEW D, NEW b \in D, NEW step, StepOn(step, D)
  PROVE  \E f : Iterates(f, N, D, b, step)
<1>0. step \in [Nat \X D -> D]
  BY DEF StepOn
<1> DEFINE Upto(n) == {f \in [0 .. n -> D] : f[0] = b /\ \A k \in 1 .. n : f[k] = step[<<k, f[k - 1]>>]}
           T == {n \in Nat : Upto(n) # {}}
<1>1. 0 \in T
  <2>1. [k \in {0} |-> b] \in Upto(0)
    OBVIOUS
  <2> QED
    BY <2>1
<1>2. ASSUME NEW n \in 0 .. N - 1, n \in T PROVE n + 1 \in T
  <2>1. PICK f \in Upto(n) : TRUE
    BY <1>2
  <2> DEFINE g == [k \in 0 .. n + 1 |-> IF k = n + 1 THEN step[<<n + 1, f[n]>>] ELSE f[k]]
  <2>2. n \in Nat /\ f[n] \in D /\ step[<<n + 1, f[n]>>] \in D
    BY <1>0, <2>1
  <2>3. g \in [0 .. n + 1 -> D] /\ g[0] = b
    BY <2>1, <2>2
  <2>4. \A k \in 1 .. n + 1 : g[k] = step[<<k, g[k - 1]>>]
    <3> TAKE k \in 1 .. n + 1
    <3>1. CASE k = n + 1
      <4>1. k \in 0 .. n + 1 /\ n \in 0 .. n + 1 /\ k - 1 = n /\ n # n + 1
        BY <2>2, <3>1
      <4>2. g[k] = step[<<n + 1, f[n]>>] /\ g[n] = f[n]
        BY <3>1, <4>1
      <4> QED
        BY <3>1, <4>1, <4>2
    <3>2. CASE k # n + 1
      <4>1. k \in 1 .. n /\ k - 1 \in 0 .. n /\ k - 1 # n + 1
        BY <2>2, <3>2
      <4> QED
        BY <2>1, <2>2, <4>1
    <3> QED
      BY <3>1, <3>2
  <2> HIDE DEF g
  <2>5. g \in Upto(n + 1)
    BY <2>3, <2>4
  <2> QED
    BY <2>2, <2>5
<1> HIDE DEF T
<1>3. N \in T
  BY <1>1, <1>2, BoundedInduction
<1> QED
  BY <1>3 DEF T, Iterates

\* The values for all numbers, from b on.
IteratesOn(f, D, b, step) ==
  /\ f \in [Nat -> D]
  /\ f[0] = b
  /\ \A n \in Nat \ {0} : f[n] = step[<<n, f[n - 1]>>]

\* A function on all numbers may be defined by its first value and by each further
\* value from the one before.
LEMMA NatRecursion ==
  ASSUME NEW D, NEW b \in D, NEW step, StepOn(step, D)
  PROVE  \E f : IteratesOn(f, D, b, step)
<1> DEFINE upto(N) == CHOOSE g : Iterates(g, N, D, b, step)
           f == [n \in Nat |-> upto(n)[n]]
<1>1. \A N \in Nat : Iterates(upto(N), N, D, b, step)
  BY Iteration
<1> HIDE DEF upto
<1>2. \A n \in Nat : upto(n)[n] \in D
  BY <1>1 DEF Iterates
<1>3. upto(0)[0] = b
  BY <1>1 DEF Iterates
<1>4. ASSUME NEW n \in Nat \ {0} PROVE upto(n)[n] = step[<<n, upto(n - 1)[n - 1]>>]
  <2> DEFINE g == upto(n)
             h == upto(n - 1)
             T == {k \in 0 .. n - 1 : g[k] = h[k]}
  <2>1. n - 1 \in Nat /\ n \in 1 .. n /\ n - 1 \in 0 .. n - 1
    OBVIOUS
  <2>2. /\ g[0] = b /\ \A k \in 1 .. n : g[k] = step[<<k, g[k - 1]>>]
        /\ h[0] = b /\ \A k \in 1 .. n - 1 : h[k] = step[<<k, h[k - 1]>>]
    BY <1>1, <2>1 DEF Iterates
  <2> HIDE DEF g, h
  <2>3. 0 \in T
    BY <2>1, <2>2
  <2>4. ASSUME NEW k \in 0 .. (n - 1) - 1, k \in T PROVE k + 1 \in T
    <3>1. k + 1 \in 1 .. n - 1 /\ k + 1 \in 1 .. n /\ k + 1 \in 0 .. n - 1 /\ (k + 1) - 1 = k
      BY <2>1
    <3> QED
      BY <2>2, <2>4, <3>1
  <2> HIDE DEF T
  <2>5. \A k \in 0 .. n - 1 : k \in T
    BY <2>1, <2>3, <2>4, BoundedInduction
  <2>6. g[n - 1] = h[n - 1]
    BY <2>1, <2>5 DEF T
  <2>7. g[n] = step[<<n, g[n - 1]>>]
    BY <2>1, <2>2
  <2> QED
    BY <2>6, <2>7 DEF g, h
<1>5. f \in [Nat -> D] /\ f[0] = b
  BY <1>2, <1>3
<1>6. ASSUME NEW n \in Nat \ {0} PROVE f[n] = step[<<n, f[n - 1]>>]
  <2>1. n - 1 \in Nat /\ f[n] = upto(n)[n] /\ f[n - 1] = upto(n - 1)[n - 1]
    OBVIOUS
  <2> QED
    BY <1>4, <2>1
<1> HIDE DEF f
<1> QED
  BY <1>5, <1>6 DEF IteratesOn

\* Induction.
LEMMA NatStepInduction ==
  ASSUME NEW T, 0 \in T, \A n \in Nat : n \in T => n + 1 \in T
  PROVE  \A n \in Nat : n \in T
<1> SUFFICES ASSUME NEW n \in Nat PROVE n \in T
  OBVIOUS
<1>1. \A k \in 0 .. n : k \in T
  BY BoundedInduction
<1> QED
  BY <1>1

\* A set without the element that CHOOSE takes from it.
LessOne(U) == U \ {CHOOSE x \in U : TRUE}

\* The values for the subsets of S, from that of the empty set on.
Folds(f, S, D, b, step) ==
  /\ f \in [SUBSET S -> D]
  /\ f[{}] = b
  /\ \A U \in SUBSET S : U # {} => f[U] = step[<<U, f[LessOne(U)]>>]

\* A function on the subsets of a finite set may be defined by its value for the
\* empty set and by that for each other from the one for the set without an element.
LEMMA SetRecursion ==
  ASSUME NEW S, IsFiniteSet(S), NEW D, NEW b \in D, NEW step, step \in [(SUBSET S) \X D -> D]
  PROVE  \E f : Folds(f, S, D, b, step)
<1> DEFINE P == SUBSET S
           n == Cardinality(S) + 1
           G == [P -> D]
           once(g) == [U \in P |-> IF U = {} THEN b ELSE step[<<U, g[LessOne(U)]>>]]
           next == [q \in Nat \X G |-> once(q[2])]
           base == [U \in P |-> b]
<1>1. n \in Nat /\ n # 0 /\ n - 1 \in Nat /\ n - 1 \in 0 .. n
  BY FS_CardinalityType
<1>2. \A U \in P : U # {} => /\ LessOne(U) \in P /\ LessOne(U) # U
                             /\ Cardinality(U) \in Nat /\ Cardinality(LessOne(U)) = Cardinality(U) - 1
  <2> SUFFICES ASSUME NEW U \in P, U # {}
               PROVE  /\ LessOne(U) \in P /\ LessOne(U) # U
                      /\ Cardinality(U) \in Nat /\ Cardinality(LessOne(U)) = Cardinality(U) - 1
    OBVIOUS
  <2> DEFINE x == CHOOSE x \in U : TRUE
  <2>1. x \in U
    OBVIOUS
  <2>2. IsFiniteSet(U)
    BY FS_Subset
  <2>3. Cardinality(U \ {x}) = Cardinality(U) - 1
    BY <2>1, <2>2, FS_RemoveElement
  <2> QED
    BY <2>1, <2>2, <2>3, FS_CardinalityType DEF LessOne
<1>3. {} \in P /\ Cardinality({}) = 0 /\ \A U \in P : Cardinality(U) <= n - 1 /\ Cardinality(U) \in Nat
  BY FS_Subset, FS_EmptySet, FS_CardinalityType
<1> HIDE DEF n, P
<1>4. \A g \in G : once(g) \in G
  BY <1>2 DEF P
<1>5. base \in G
  OBVIOUS
<1>6. PICK g : Iterates(g, n, G, base, next)
  <2>1. next \in [Nat \X G -> G]
    <3> HIDE DEF G, once
    <3> QED
      BY <1>4
  <2>2. StepOn(next, G)
    BY <2>1 DEF StepOn
  <2> HIDE DEF next, G, base
  <2> QED
    BY <1>1, <1>5, <2>2, Iteration
<1>7. \A k \in 0 .. n : g[k] \in G
  BY <1>6 DEF Iterates
<1>8. \A k \in 1 .. n : g[k] = once(g[k - 1])
  <2> TAKE k \in 1 .. n
  <2>1. k \in Nat /\ k - 1 \in 0 .. n /\ g[k - 1] \in G
    BY <1>1, <1>7
  <2> HIDE DEF G, once
  <2> QED
    BY <1>6, <2>1 DEF Iterates
<1> HIDE DEF next
<1>9. \A k \in 0 .. n : g[k][{}] = b
  <2> TAKE k \in 0 .. n
  <2>1. CASE k = 0
    BY <1>3, <1>6, <2>1 DEF Iterates
  <2>2. CASE k # 0
    <3>1. k \in 1 .. n
      BY <1>1, <2>2
    <3>2. g[k] = once(g[k - 1])
      BY <1>8, <3>1
    <3> HIDE DEF G, base
    <3> QED
      BY <1>3, <3>2
  <2> QED
    BY <2>1, <2>2
<1>10. \A k \in 1 .. n : \A U \in P : U # {} => g[k][U] = step[<<U, g[k - 1][LessOne(U)]>>]
  <2> TAKE k \in 1 .. n
  <2> TAKE U \in P
  <2>1. g[k] = once(g[k - 1])
    BY <1>8
  <2> HIDE DEF G, base
  <2> QED
    BY <2>1
<1> HIDE DEF G, once, base
<1> DEFINE T == {k \in 0 .. n - 1 : \A U \in P : Cardinality(U) <= k => g[k + 1][U] = g[k][U]}
<1>11. 0 \in T
  <2>1. ASSUME NEW U \in P, Cardinality(U) <= 0 PROVE g[0 + 1][U] = g[0][U]
    <3>1. U = {}
      BY <1>2, <1>3, <2>1
    <3>2. 0 + 1 \in 0 .. n /\ 0 \in 0 .. n
      BY <1>1
    <3> QED
      BY <1>9, <3>1, <3>2
  <2> QED
    BY <1>1, <2>1
<1>12. ASSUME NEW k \in 0 .. n - 1 - 1, k \in T PROVE k + 1 \in T
  <2>1. /\ k \in Nat /\ k + 1 \in 0 .. n - 1 /\ k + 1 \in 1 .. n /\ (k + 1) + 1 \in 1 .. n
        /\ (k + 1) - 1 = k /\ ((k + 1) + 1) - 1 = k + 1 /\ k + 1 \in 0 .. n /\ (k + 1) + 1 \in 0 .. n
    BY <1>1
  <2>2. ASSUME NEW U \in P, Cardinality(U) <= k + 1 PROVE g[(k + 1) + 1][U] = g[k + 1][U]
    <3>1. CASE U = {}
      BY <1>9, <2>1, <3>1
    <3>2. CASE U # {}
      <4>1. LessOne(U) \in P /\ Cardinality(LessOne(U)) <= k
        BY <1>2, <2>1, <2>2, <3>2
      <4>2. g[k + 1][LessOne(U)] = g[k][LessOne(U)]
        BY <1>12, <4>1
      <4>3. /\ g[(k + 1) + 1][U] = step[<<U, g[k + 1][LessOne(U)]>>]
            /\ g[k + 1][U] = step[<<U, g[k][LessOne(U)]>>]
        BY <1>10, <2>1, <3>2
      <4> QED
        BY <4>2, <4>3
    <3> QED
      BY <3>1, <3>2
  <2> QED
    BY <2>1, <2>2
<1> DEFINE f == g[n]
<1>13. ASSUME NEW U \in P, U # {} PROVE f[U] = step[<<U, f[LessOne(U)]>>]
  <2>1. n - 1 \in T
    <3> HIDE DEF T
    <3>1. \A k \in 0 .. n - 1 : k \in T
      BY <1>1, <1>11, <1>12, BoundedInduction
    <3> QED
      BY <1>1, <3>1
  <2>2. (n - 1) + 1 = n /\ n \in 1 .. n
    BY <1>1
  <2>3. LessOne(U) \in P /\ Cardinality(LessOne(U)) <= n - 1
    BY <1>2, <1>3, <1>13
  <2>4. g[n][LessOne(U)] = g[n - 1][LessOne(U)]
    BY <2>1, <2>2, <2>3
  <2>5. g[n][U] = step[<<U, g[n - 1][LessOne(U)]>>]
    BY <1>10, <1>13, <2>2
  <2> QED
    BY <2>4, <2>5
<1>14. f \in [P -> D] /\ f[{}] = b
  <2>1. n \in 0 .. n
    BY <1>1
  <2> QED
    BY <1>7, <1>9, <2>1 DEF G
<1> HIDE DEF f
<1>15. Folds(f, S, D, b, step)
  BY <1>13, <1>14 DEF Folds, P
<1> QED
  BY <1>15

=============================================================================
