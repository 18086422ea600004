------------------------------ MODULE Numbers ------------------------------
(***************************************************************************)
(* Facts about the natural numbers that proofs by induction rest on, stated *)
(* of sets of numbers: a property is the set of the numbers that have it.  *)
(***************************************************************************)
EXTENDS Integers, TLAPS, WellFoundedInduction

(* Every set of natural numbers has a least one. *)
LEMMA LeastNumber ==
  ASSUME NEW T, T \subseteq Nat, T # {}
  PROVE  \E m \in T : \A k \in T : m <= k
<1>1. PICK m \in T : \A k \in T : <<k, m>> \notin OpToRel(<, Nat)
  BY WFMin, NatLessThanWellFounded
<1>2. \A k \in T : ~(k < m)
  BY <1>1, Zenon DEF OpToRel
<1> QED
  BY <1>2

(* A set that has zero, and with a number the next, has all. *)
LEMMA Induction ==
  ASSUME NEW S, 0 \in S, \A n \in Nat : n \in S => n + 1 \in S
  PROVE  Nat \subseteq S
<1> SUFFICES ASSUME Nat \ S # {} PROVE FALSE
  OBVIOUS
<1>1. PICK m \in Nat \ S : \A k \in Nat \ S : m <= k
  BY LeastNumber
<1>2. m # 0 /\ m - 1 \in Nat
  BY <1>1
<1>3. m - 1 \in S
  BY <1>1, <1>2
<1>4. m \in S
  BY <1>2, <1>3
<1> QED
  BY <1>1, <1>4

(* A bounded set of natural numbers has a greatest one. *)
LEMMA GreatestNumber ==
  ASSUME NEW n \in Nat, NEW P, P \subseteq 0 .. n, P # {}
  PROVE  \E x \in P : \A i \in P : x >= i
<1> DEFINE T == {j \in Nat : n - j \in P}
<1>1. PICK p \in P : TRUE
  OBVIOUS
<1>2. n - p \in T
  BY <1>1
<1>3. PICK m \in T : \A k \in T : m <= k
  BY <1>2, LeastNumber
<1>4. \A i \in P : n - i \in T
  OBVIOUS
<1>5. \A i \in P : m <= n - i
  BY <1>3, <1>4
<1>6. n - m \in P /\ \A i \in P : n - m >= i
  BY <1>3, <1>5
<1> QED
  BY <1>6

(* g starts with a and goes on with what F makes of the value before. *)
Iterates(g, n, T, a, F) ==
  /\ g \in [0 .. n -> T]
  /\ g[0] = a
  /\ \A i \in 1 .. n : g[i] = F[i][g[i - 1]]

(* Recursion from the left to the right defines a function. *)
LEMMA Recursion ==
  ASSUME NEW n \in Nat, NEW T, NEW a \in T, NEW F \in [1 .. n -> [T -> T]]
  PROVE  \E g : Iterates(g, n, T, a, F)
<1> DEFINE Good(m, g) == /\ g \in [0 .. m -> T]
                         /\ g[0] = a
                         /\ \A i \in 1 .. m : g[i] = F[i][g[i - 1]]
           S == {m \in Nat : m <= n => \E g : Good(m, g)}
<1>1. 0 \in S
  <2>1. Good(0, [i \in 0 .. 0 |-> a])
    OBVIOUS
  <2> QED
    BY <2>1
<1>2. ASSUME NEW m \in Nat, m \in S PROVE m + 1 \in S
  <2> SUFFICES ASSUME m + 1 <= n PROVE \E g : Good(m + 1, g)
    OBVIOUS
  <2>1. PICK g : Good(m, g)
    BY <1>2
  <2> DEFINE f == [i \in 0 .. m + 1 |-> IF i = m + 1 THEN F[m + 1][g[m]] ELSE g[i]]
  <2>2. g[m] \in T /\ F[m + 1] \in [T -> T]
    BY <2>1
  <2>3. f \in [0 .. m + 1 -> T]
    BY <2>1, <2>2
  <2>4. f[0] = a
    BY <2>1
  <2>5. ASSUME NEW i \in 1 .. m + 1 PROVE f[i] = F[i][f[i - 1]]
    <3>1. CASE i = m + 1
      BY <3>1
    <3>2. CASE i # m + 1
      BY <2>1, <3>2
    <3> QED
      BY <3>1, <3>2
  <2> QED
    BY <2>3, <2>4, <2>5
<1> HIDE DEF S
<1>3. Nat \subseteq S
  BY <1>1, <1>2, Induction
<1>4. PICK g : Good(n, g)
  BY <1>3 DEF S
<1> QED
  BY <1>4 DEF Iterates
=============================================================================
