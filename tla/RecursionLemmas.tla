-------------------------- MODULE RecursionLemmas --------------------------
(***************************************************************************)
(* Induction on the natural numbers, stated of sets, and what it gives for *)
(* functions that are defined by recursion on an initial segment of them.  *)
(***************************************************************************)
EXTENDS Naturals, WellFoundedInduction, TLAPS

\* A nonempty set of natural numbers has a least element.
LEMMA LeastElement ==
    ASSUME NEW S \in SUBSET Nat, S # {}
    PROVE  \E n \in S : \A m \in S : n <= m
<1>1. PICK n \in S : \A m \in S : <<m, n>> \notin OpToRel(<, Nat)
  BY NatLessThanWellFounded, WFMin, Zenon
<1>2. \A m \in S : ~(m < n)
  BY <1>1 DEF OpToRel
<1> QED BY <1>2

\* A set that contains 0 and the successor of each of its elements contains
\* all numbers.
LEMMA Induction ==
    ASSUME NEW S, 0 \in S, \A n \in Nat : n \in S => n + 1 \in S
    PROVE  Nat \subseteq S
<1> SUFFICES ASSUME Nat \ S # {}
             PROVE  FALSE
  OBVIOUS
<1>1. PICK n \in Nat \ S : \A m \in Nat \ S : n <= m
  BY LeastElement
<1>2. n # 0
  OBVIOUS
<1>3. n - 1 \in Nat /\ ~(n <= n - 1)
  BY <1>2
<1>4. n - 1 \in S
  BY <1>1, <1>3
<1> QED BY <1>3, <1>4

-----------------------------------------------------------------------------

\* f starts with v and goes on as step says, up to n.
Follows(f, v, step, n) == f[0] = v /\ \A k \in 1..n : f[k] = step[k][f[k - 1]]

\* Recursion on 0..n defines a function.
LEMMA RecursionExists ==
    ASSUME NEW V, NEW v \in V, NEW n \in Nat, NEW step \in [1..n -> [V -> V]]
    PROVE  \E f \in [0..n -> V] : Follows(f, v, step, n)
<1> DEFINE Fcn(m) == \E f \in [0..m -> V] : Follows(f, v, step, m)
           S == {m \in Nat : m <= n => Fcn(m)}
<1>1. Fcn(0)
  <2>1. [k \in 0..0 |-> v] \in [0..0 -> V] /\ Follows([k \in 0..0 |-> v], v, step, 0)
    BY DEF Follows
  <2> QED BY <2>1
<1>2. ASSUME NEW m \in Nat, m + 1 <= n, Fcn(m)
      PROVE  Fcn(m + 1)
  <2>1. PICK f \in [0..m -> V] : Follows(f, v, step, m)
    BY <1>2
  <2> DEFINE g == [k \in 0..(m + 1) |-> IF k <= m THEN f[k] ELSE step[k][f[m]]]
  <2>2. step[m + 1] \in [V -> V] /\ f[m] \in V
    BY <1>2
  <2>3. g \in [0..(m + 1) -> V]
    BY <2>2
  <2>4. g[0] = v
    BY <2>1 DEF Follows
  <2>5. ASSUME NEW k \in 1..(m + 1)
        PROVE  g[k] = step[k][g[k - 1]]
    <3>1. k - 1 \in 0..m /\ g[k - 1] = f[k - 1]
      OBVIOUS
    <3> QED BY <2>1, <3>1 DEF Follows
  <2> QED BY <2>3, <2>4, <2>5 DEF Follows
<1> HIDE DEF Fcn
<1>3. 0 \in S /\ \A m \in Nat : m \in S => m + 1 \in S
  BY <1>1, <1>2
<1>4. Nat \subseteq S
  <2> HIDE DEF S
  <2> QED BY <1>3, Induction
<1>5. Fcn(n)
  BY <1>4
<1> QED BY <1>5 DEF Fcn

\* Two functions that follow the same recursion up to n agree up to n.
LEMMA RecursionUnique ==
    ASSUME NEW n \in Nat, NEW v, NEW f, NEW g, NEW step, NEW other,
           Follows(f, v, step, n), Follows(g, v, other, n),
           \A k \in 1..n : other[k] = step[k]
    PROVE  \A k \in 0..n : f[k] = g[k]
<1> DEFINE S == {k \in Nat : k <= n => f[k] = g[k]}
<1>1. 0 \in S
  BY DEF Follows
<1>2. ASSUME NEW k \in Nat, k \in S
      PROVE  k + 1 \in S
  BY <1>2 DEF Follows
<1> HIDE DEF S
<1>3. Nat \subseteq S
  BY <1>1, <1>2, Induction
<1> QED BY <1>3 DEF S
=============================================================================
