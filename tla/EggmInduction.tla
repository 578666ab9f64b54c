--------------------------- MODULE EggmInduction ---------------------------
(***************************************************************************)
(* Induction over the natural numbers, in a form the provers can use.  The *)
(* induction theorems of the library are about an operator P(_), which no  *)
(* prover instantiates; these are about a set.  They rest on the fact that *)
(* the finite sets of numbers are well-founded under strict inclusion,     *)
(* the number n standing for the set of the numbers below it.              *)
(***************************************************************************)
EXTENDS Integers, FiniteSetTheorems, WellFoundedInduction, TLAPS

(***************************************************************************)
(* A set of natural numbers that is not empty has a least member.          *)
(***************************************************************************)
LEMMA LeastNatural ==
  ASSUME NEW T, T \subseteq Nat, T # {}
  PROVE  \E x \in T : \A y \in T : x <= y
<1> DEFINE Below(n) == 0..(n - 1)
           Sets == {Below(n) : n \in T}
<1>1. \A n \in T : Below(n) \in FiniteSubsetsOf(Nat)
  BY FS_Interval DEF FiniteSubsetsOf
<1>2. PICK s \in Sets : \A t \in Sets : ~(<<t, s>> \in StrictSubsetOrdering(Nat))
  <2> HIDE DEF Below
  <2>1. Sets \subseteq FiniteSubsetsOf(Nat) /\ Sets # {}
    BY <1>1
  <2> QED  BY <2>1, WFMin, FS_StrictSubsetOrderingWellFounded
<1>3. PICK m \in T : s = Below(m)
  OBVIOUS
<1>4. ASSUME NEW n \in T, n < m PROVE FALSE
  <2>1. /\ Below(n) \subseteq Nat /\ Below(m) \subseteq Nat
        /\ Below(n) \subseteq Below(m) /\ n \in Below(m) /\ n \notin Below(n)
    BY <1>4
  <2>2. <<Below(n), Below(m)>> \in StrictSubsetOrdering(Nat)
    <3> HIDE DEF Below
    <3> QED  BY <2>1 DEF StrictSubsetOrdering
  <2> QED  BY <2>2, <1>2, <1>3
<1> QED
  <2>1. \A n \in T : ~(n < m)
    BY <1>4
  <2> QED  BY <2>1, <1>3

(***************************************************************************)
(* A set that has 0, and n + 1 with every n, has every natural number: the *)
(* loops of the code over an array are reasoned about with this.           *)
(***************************************************************************)
LEMMA NaturalInduction ==
  ASSUME NEW T \in SUBSET Nat, 0 \in T, \A n \in T : n + 1 \in T
  PROVE  \A n \in Nat : n \in T
<1> SUFFICES ASSUME NEW n \in Nat, n \notin T PROVE FALSE
  OBVIOUS
<1>1. PICK m \in Nat \ T : \A k \in Nat \ T : m <= k
  BY LeastNatural
<1>2. m # 0 /\ m - 1 \in Nat
  OBVIOUS
<1>3. m - 1 \in T
  BY <1>1, <1>2
<1> QED  BY <1>3, (m - 1) + 1 = m

(***************************************************************************)
(* A loop over 1..N computes a value of E by one step after another; f     *)
(* holds the value before the loop and after each step of it.              *)
(***************************************************************************)
Steps(N, E) == [1..N -> [E -> E]]
Runs(N, E) == [0..N -> E]
Loop(f, N, base, step) == f[0] = base /\ \A n \in 1..N : f[n] = step[n][f[n - 1]]

(***************************************************************************)
(* Such an f exists, so that the CHOOSE by which TLA+ defines a recursive  *)
(* function finds it.                                                      *)
(***************************************************************************)
LEMMA Recursion ==
  ASSUME NEW N \in Nat, NEW E, NEW base \in E, NEW step \in Steps(N, E)
  PROVE  \E f \in Runs(N, E) : Loop(f, N, base, step)
<1> USE DEF Steps, Runs
<1> DEFINE T == {m \in Nat : m <= N => \E f \in [0..m -> E] : Loop(f, m, base, step)}
<1>1. 0 \in T
  <2> DEFINE f == [n \in 0..0 |-> base]
  <2>1. f \in [0..0 -> E] /\ Loop(f, 0, base, step)
    BY DEF Loop
  <2> QED  BY <2>1
<1>2. ASSUME NEW m \in T PROVE m + 1 \in T
  <2>1. m \in Nat
    OBVIOUS
  <2> SUFFICES ASSUME m + 1 <= N
               PROVE  \E g \in [0..(m + 1) -> E] : Loop(g, m + 1, base, step)
    BY <2>1
  <2>2. PICK f \in [0..m -> E] : Loop(f, m, base, step)
    BY <2>1
  <2> DEFINE g == [n \in 0..(m + 1) |-> IF n <= m THEN f[n] ELSE step[m + 1][f[m]]]
  <2>3. g \in [0..(m + 1) -> E]
    <3>1. f[m] \in E /\ m + 1 \in 1..N
      BY <2>1
    <3>2. step[m + 1][f[m]] \in E
      BY <3>1
    <3>3. \A n \in 0..(m + 1) : n <= m => f[n] \in E
      BY <2>1
    <3> QED  BY <3>2, <3>3
  <2>4. ASSUME NEW n \in 1..(m + 1) PROVE g[n] = step[n][g[n - 1]]
    <3>1. CASE n <= m
      <4>1. f[n] = step[n][f[n - 1]]
        BY <2>2, <3>1, <2>1 DEF Loop
      <4>2. g[n] = f[n] /\ g[n - 1] = f[n - 1]
        BY <3>1, <2>1
      <4> QED  BY <4>1, <4>2
    <3>2. CASE n = m + 1
      BY <3>2, <2>1
    <3> QED  BY <3>1, <3>2, <2>1
  <2>5. g[0] = base
    BY <2>1, <2>2 DEF Loop
  <2> HIDE DEF g
  <2>6. Loop(g, m + 1, base, step)
    BY <2>4, <2>5 DEF Loop
  <2> QED  BY <2>3, <2>6
<1>3. T \in SUBSET Nat
  OBVIOUS
<1> HIDE DEF T
<1>4. N \in T
  BY <1>1, <1>2, <1>3, NaturalInduction
<1> QED  BY <1>4 DEF T

=============================================================================
