------------------------------- MODULE Recursion -------------------------------
(***************************************************************************)
(* Induction for proofs about functions that are defined by recursion on   *)
(* 0 .. k, such as a sum over a list.  The statements have sets where the  *)
(* usual ones have predicates: every nonempty set of numbers has a         *)
(* smallest member, and the rest follows.                                  *)
(***************************************************************************)
EXTENDS Integers, WellFoundedInduction, TLAPS

(* A step for each of 1 .. k, from a value to the next one *)
Steps(k, V) == [1 .. k -> [V -> V]]

(* f is what those steps make of the value a *)
Unfolds(f, k, a, step) ==
    f = [n \in 0 .. k |-> IF n = 0 THEN a ELSE step[n][f[n - 1]]]

(* A relation that is well-founded and contains < has smallest members. *)
LEMMA SmallestBy ==
  ASSUME NEW R, IsWellFoundedOn(R, Nat), \A m, n \in Nat : n < m => <<n, m>> \in R,
         NEW S \in SUBSET Nat, S # {}
  PROVE  \E m \in S : \A n \in S : m <= n
<1>1. PICK m \in S : \A n \in S : <<n, m>> \notin R
  BY WFMin
<1>2. \A n \in S : ~(n < m)
  BY <1>1
<1> QED
  BY <1>2

(* A nonempty set of numbers has a smallest member. *)
LEMMA Smallest ==
  ASSUME NEW S \in SUBSET Nat, S # {}
  PROVE  \E m \in S : \A n \in S : m <= n
<1>1. \A m, n \in Nat : n < m => <<n, m>> \in OpToRel(<, Nat)
  BY DEF OpToRel
<1> QED
  BY <1>1, NatLessThanWellFounded, SmallestBy

(* A set that has 0 and with each number up to k - 1 the next one has all   *)
(* the numbers up to k.                                                     *)
LEMMA FiniteInduction ==
  ASSUME NEW k \in Nat, NEW S, 0 \in S, \A n \in 1 .. k : n - 1 \in S => n \in S
  PROVE  \A n \in 0 .. k : n \in S
<1> SUFFICES ASSUME (0 .. k) \ S # {} PROVE FALSE
  OBVIOUS
<1>1. (0 .. k) \ S \in SUBSET Nat
  OBVIOUS
<1>2. PICK m \in (0 .. k) \ S : \A n \in (0 .. k) \ S : m <= n
  BY <1>1, Smallest
<1> QED
  BY <1>2

(* A set that has each number up to k as soon as it has the smaller ones    *)
(* has all of them.                                                         *)
LEMMA StrongInduction ==
  ASSUME NEW k \in Nat, NEW S,
         \A n \in 0 .. k : (\A m \in 0 .. n - 1 : m \in S) => n \in S
  PROVE  \A n \in 0 .. k : n \in S
<1> SUFFICES ASSUME (0 .. k) \ S # {} PROVE FALSE
  OBVIOUS
<1>1. (0 .. k) \ S \in SUBSET Nat
  OBVIOUS
<1>2. PICK m \in (0 .. k) \ S : \A n \in (0 .. k) \ S : m <= n
  BY <1>1, Smallest
<1>3. \A n \in 0 .. m - 1 : n \in S
  BY <1>2
<1> QED
  BY <1>2, <1>3

(* There is a function that the steps unfold to, whatever they are. *)
LEMMA FiniteRecursion ==
  ASSUME NEW k \in Nat, NEW V, NEW a \in V, NEW step \in Steps(k, V)
  PROVE  \E f \in [0 .. k -> V] : Unfolds(f, k, a, step)
<1> USE DEF Steps
<1> DEFINE Is(f, m) == /\ f \in [0 .. m -> V] /\ f[0] = a
                       /\ \A n \in 1 .. m : f[n] = step[n][f[n - 1]]
           S == {m \in 0 .. k : \E f \in [0 .. m -> V] : Is(f, m)}
<1>1. 0 \in S
  <2> DEFINE f == [n \in 0 .. 0 |-> a]
  <2>1. f \in [0 .. 0 -> V] /\ Is(f, 0)
    OBVIOUS
  <2>2. \E g \in [0 .. 0 -> V] : Is(g, 0)
    BY <2>1
  <2> HIDE DEF f, Is
  <2> QED
    BY <2>2
<1>2. ASSUME NEW m \in 1 .. k, m - 1 \in S PROVE m \in S
  <2>1. PICK f \in [0 .. m - 1 -> V] : Is(f, m - 1)
    BY <1>2
  <2> DEFINE g == [n \in 0 .. m |-> IF n = m THEN step[m][f[m - 1]] ELSE f[n]]
  <2>2. step[m][f[m - 1]] \in V
    OBVIOUS
  <2>3. g \in [0 .. m -> V]
    BY <2>2
  <2>4. g[0] = a
    BY <2>1
  <2>5. ASSUME NEW n \in 1 .. m PROVE g[n] = step[n][g[n - 1]]
    BY <2>1
  <2>6. Is(g, m)
    BY <2>3, <2>4, <2>5
  <2> HIDE DEF g, Is
  <2> QED
    BY <2>3, <2>6
<1> HIDE DEF S
<1>3. k \in S
  <2>1. \A m \in 0 .. k : m \in S
    BY <1>1, <1>2, FiniteInduction
  <2> QED
    BY <2>1
<1> USE DEF S
<1>4. PICK f \in [0 .. k -> V] : Is(f, k)
  BY <1>3
<1>5. f = [n \in 0 .. k |-> IF n = 0 THEN a ELSE step[n][f[n - 1]]]
  BY <1>4
<1> HIDE DEF Is
<1> QED
  BY <1>5 DEF Unfolds
=============================================================================
