------------------------------- MODULE Recursion -------------------------------
(***************************************************************************)
(* Induction over the naturals and recursion along a list, stated with     *)
(* sets and functions in place of operators: a property is the set of the  *)
(* numbers that have it, a step of a recursion is a function.              *)
(***************************************************************************)
EXTENDS Integers, WellFoundedInduction, TLAPS

LEMMA LeastNatural ==
  ASSUME NEW T \in SUBSET Nat, T # {}
  PROVE  \E n \in T : \A m \in T : n <= m
<1> DEFINE R == OpToRel(<, Nat)
<1>1. PICK n \in T : \A m \in T : <<m, n>> \notin R
  <2>1. IsWellFoundedOn(R, Nat)
    BY NatLessThanWellFounded
  <2> HIDE DEF R
  <2> QED  BY <2>1, WFMin
<1>2. ASSUME NEW m \in T PROVE n <= m
  <2>1. m \in Nat /\ n \in Nat
    OBVIOUS
  <2>2. ~(m < n)
    BY <1>1, <2>1 DEF OpToRel
  <2> QED  BY <2>1, <2>2
<1> QED  BY <1>2

\* What holds of 0, and of each number up to N if of the one before it, holds
\* up to N.
LEMMA InductionUpTo ==
  ASSUME NEW N \in Nat, NEW S, 0 \in S, \A n \in 1 .. N : n - 1 \in S => n \in S
  PROVE  \A n \in 0 .. N : n \in S
<1> SUFFICES ASSUME NEW n \in 0 .. N, n \notin S PROVE FALSE
  OBVIOUS
<1> DEFINE T == (0 .. N) \ S
<1>1. T \in SUBSET Nat /\ T # {}
  OBVIOUS
<1>2. PICK m \in T : \A k \in T : m <= k
  BY <1>1, LeastNatural
<1>3. m \in 1 .. N /\ m - 1 \in 0 .. N /\ ~(m <= m - 1)
  OBVIOUS
<1>4. m - 1 \in S
  BY <1>2, <1>3
<1> QED  BY <1>3, <1>4

\* Largest of the numbers up to N.
LEMMA GreatestUpTo ==
  ASSUME NEW N \in Nat, NEW T \in SUBSET (0 .. N), T # {}
  PROVE  \E n \in T : \A m \in T : m <= n
<1> DEFINE U == {k \in Nat : \E m \in T : k = N - m}
<1>1. U \in SUBSET Nat /\ U # {}
  <2>1. PICK m \in T : TRUE
    OBVIOUS
  <2>2. N - m \in U
    BY <2>1
  <2> QED  BY <2>2
<1>2. PICK k \in U : \A l \in U : k <= l
  BY <1>1, LeastNatural
<1>3. PICK n \in T : k = N - n
  OBVIOUS
<1>4. ASSUME NEW m \in T PROVE m <= n
  <2>1. N - m \in U
    OBVIOUS
  <2> HIDE DEF U
  <2>2. k <= N - m
    BY <1>2, <2>1
  <2> QED  BY <1>3, <2>2
<1> QED  BY <1>4

(* The runs of N steps, each the step of its number.                       *)
Iterations(S, start, N, step) ==
  {f \in [0 .. N -> S] : f[0] = start /\ \A n \in 1 .. N : f[n] = step[n][f[n - 1]]}

\* From any start, the steps of a recursion can be taken to the end.
LEMMA Iterates ==
  ASSUME NEW S, NEW start \in S, NEW N \in Nat, NEW step \in [1 .. N -> [S -> S]]
  PROVE  Iterations(S, start, N, step) # {}
<1> DEFINE Runs(k) == {f \in [0 .. k -> S] :
                         f[0] = start /\ \A n \in 1 .. k : f[n] = step[n][f[n - 1]]}
           Long == {k \in Nat : Runs(k) # {}}
<1>1. 0 \in Long
  <2>1. [n \in 0 .. 0 |-> start] \in Runs(0)
    OBVIOUS
  <2> QED  BY <2>1
<1>2. ASSUME NEW k \in 1 .. N, k - 1 \in Long
      PROVE  k \in Long
  <2>1. PICK f \in Runs(k - 1) : TRUE
    BY <1>2
  <2>2. /\ f \in [0 .. k - 1 -> S] /\ f[0] = start
        /\ \A n \in 1 .. k - 1 : f[n] = step[n][f[n - 1]]
    BY <2>1
  <2>3. step[k][f[k - 1]] \in S
    BY <2>2
  <2> DEFINE g == [n \in 0 .. k |-> IF n = k THEN step[k][f[k - 1]] ELSE f[n]]
  <2>4. g \in [0 .. k -> S]
    BY <2>2, <2>3
  <2>5. g[0] = start
    BY <2>2
  <2>6. \A n \in 0 .. k - 1 : g[n] = f[n]
    OBVIOUS
  <2>7. ASSUME NEW n \in 1 .. k PROVE g[n] = step[n][g[n - 1]]
    <3>1. n - 1 \in 0 .. k - 1 /\ g[n - 1] = f[n - 1]
      BY <2>6
    <3>2. CASE n = k
      BY <3>1, <3>2
    <3>3. CASE n # k
      <4>1. n \in 1 .. k - 1 /\ g[n] = f[n]
        BY <3>3
      <4> QED  BY <2>2, <3>1, <4>1
    <3> QED  BY <3>2, <3>3
  <2>8. g \in Runs(k)
    <3> HIDE DEF g
    <3> QED  BY <2>4, <2>5, <2>7
  <2> HIDE DEF g, Runs
  <2> QED  BY <2>8
<1>3. N \in Long
  <2> HIDE DEF Long, Runs
  <2>1. \A k \in 1 .. N : k - 1 \in Long => k \in Long
    BY <1>2
  <2>2. \A k \in 0 .. N : k \in Long
    BY <1>1, <2>1, InductionUpTo
  <2> QED  BY <2>2
<1>4. PICK f \in Runs(N) : TRUE
  <2> HIDE DEF Runs
  <2> QED  BY <1>3
<1> QED  BY <1>4 DEF Iterations

=============================================================================
