---------------------------- MODULE NaturalsOrder ----------------------------
(***************************************************************************)
(* The order of the natural numbers, as facts about sets and functions:    *)
(* induction and recursion, in the form in which the proofs use them.      *)
(***************************************************************************)
EXTENDS Naturals, WellFoundedInduction, TLAPS

\* A set of natural numbers has a smallest one.
LEMMA Smallest ==
  ASSUME NEW T, T \subseteq Nat, T # {}
  PROVE  \E x \in T : \A y \in T : x <= y
<1> DEFINE less == OpToRel(<, Nat)
<1>1. IsWellFoundedOn(less, Nat)
  BY NatLessThanWellFounded
<1>2. \A x, y \in Nat : x < y => <<x, y>> \in less
  BY DEF OpToRel
<1> HIDE DEF less
<1>3. PICK x \in T : \A y \in T : <<y, x>> \notin less
  BY <1>1, WFMin
<1>4. ASSUME NEW y \in T
      PROVE  x <= y
  <2>1. x \in Nat /\ y \in Nat
    OBVIOUS
  <2>2. ~(y < x)
    BY <1>2, <1>3, <2>1, Zenon
  <2> QED
    BY <2>1, <2>2
<1> QED
  BY <1>4

\* A set that has 0, and with every number the next one, has them all.
LEMMA SetInduction ==
  ASSUME NEW S, 0 \in S, \A n \in Nat : n \in S => n + 1 \in S
  PROVE  Nat \subseteq S
<1> SUFFICES ASSUME Nat \ S # {}
             PROVE  FALSE
  OBVIOUS
<1>1. PICK x \in Nat \ S : \A y \in Nat \ S : x <= y
  BY Smallest
<1>2. x - 1 \in Nat
  BY <1>1
<1>3. x - 1 \in S
  BY <1>1, <1>2
<1> QED
  BY <1>1, <1>2, <1>3

\* There is a function that begins with v and takes a step at every number.
Iterates(n, S, v, step) ==
  \E f \in [0 .. n -> S] :
    /\ f[0] = v
    /\ \A k \in 1 .. n : f[k] = step[k][f[k - 1]]

\* Recursion on a number up to n gives a function, whatever the steps are.
LEMMA Recursion ==
  ASSUME NEW n \in Nat, NEW S, NEW v \in S,
         NEW step \in [1 .. n -> [S -> S]]
  PROVE  Iterates(n, S, v, step)
<1> DEFINE Upto(m, f) == /\ f \in [0 .. m -> S]
                         /\ f[0] = v
                         /\ \A k \in 1 .. m : f[k] = step[k][f[k - 1]]
           Reached == {m \in Nat : m <= n => \E f : Upto(m, f)}
<1>1. 0 \in Reached
  <2>1. Upto(0, [k \in 0 .. 0 |-> v])
    OBVIOUS
  <2> QED
    BY <2>1
<1>2. ASSUME NEW m \in Nat, m \in Reached
      PROVE  m + 1 \in Reached
  <2> SUFFICES ASSUME m + 1 <= n
               PROVE  \E f : Upto(m + 1, f)
    OBVIOUS
  <2>1. PICK f : Upto(m, f)
    BY <1>2
  <2> DEFINE g == [k \in 0 .. m + 1 |-> IF k = m + 1 THEN step[m + 1][f[m]]
                                                     ELSE f[k]]
  <2>2. f[m] \in S /\ step[m + 1] \in [S -> S]
    BY <2>1
  <2>3. g \in [0 .. m + 1 -> S]
    BY <2>1, <2>2
  <2>4. \A k \in 1 .. m + 1 : g[k] = step[k][g[k - 1]]
    <3> TAKE k \in 1 .. m + 1
    <3>1. CASE k = m + 1
      BY <3>1
    <3>2. CASE k # m + 1
      BY <2>1, <3>2
    <3> QED
      BY <3>1, <3>2
  <2>5. g[0] = v
    BY <2>1
  <2> QED
    BY <2>3, <2>4, <2>5
<1>3. n \in Reached
  <2> HIDE DEF Reached
  <2> QED
    BY <1>1, <1>2, SetInduction
<1> QED
  BY <1>3 DEF Iterates

=============================================================================
