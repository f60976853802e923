----------------------------- MODULE Induction -----------------------------
(***************************************************************************)
(* Induction over the natural numbers and recursion on an interval, stated *)
(* for a set and for a function: facts that the provers can instantiate,   *)
(* unlike those for an operator.  They rest on the library's theorem that  *)
(* a well-founded relation has minimal elements.                           *)
(***************************************************************************)
EXTENDS Naturals, WellFoundedInduction, TLAPS

(* Every set of natural numbers that is not empty has a least element. *)
LEMMA LeastNatural ==
  ASSUME NEW T \in SUBSET Nat, T # {}
  PROVE  \E n \in T : \A m \in T : n <= m
<1> DEFINE R == OpToRel(<, Nat)
<1>1. IsWellFoundedOn(R, Nat)
  BY NatLessThanWellFounded
<1>2. R = {ss \in Nat \X Nat : ss[1] < ss[2]}
  BY DEF OpToRel
<1> HIDE DEF R
<1>3. PICK n \in T : \A m \in T : <<m, n>> \notin R
  BY <1>1, WFMin
<1>4. ASSUME NEW m \in T PROVE n <= m
  <2>1. m \in Nat /\ n \in Nat /\ <<m, n>> \notin R
    BY <1>3
  <2>2. m < n => <<m, n>> \in R
    BY <2>1, <1>2
  <2> QED BY <2>1, <2>2
<1> QED BY <1>4

(* A set that has 0, and with every number the next one, has all of them. *)
LEMMA NaturalInduction ==
  ASSUME NEW S, 0 \in S, \A n \in Nat : n \in S => n + 1 \in S
  PROVE  Nat \subseteq S
<1> DEFINE T == Nat \ S
<1>1. SUFFICES ASSUME T # {} PROVE FALSE
  OBVIOUS
<1>2. T \in SUBSET Nat
  OBVIOUS
<1>3. PICK n \in T : \A m \in T : n <= m
  <2> HIDE DEF T
  <2> QED BY <1>1, <1>2, LeastNatural
<1>4. n \in Nat /\ n # 0
  OBVIOUS
<1>5. n - 1 \in Nat /\ n - 1 \notin T
  BY <1>3, <1>4
<1> QED BY <1>4, <1>5

LEMMA Inductive ==
  \A S : 0 \in S /\ (\A k \in Nat : k \in S => k + 1 \in S) => Nat \subseteq S
BY NaturalInduction

(* The same up to a bound. *)
LEMMA BoundedInduction ==
  ASSUME NEW n \in Nat, NEW S, 0 \in S,
         \A i \in 1 .. n : i - 1 \in S => i \in S
  PROVE  0 .. n \subseteq S
<1> DEFINE T == {i \in Nat : i <= n => i \in S}
<1>1. 0 \in T
  OBVIOUS
<1>2. ASSUME NEW i \in Nat, i \in T PROVE i + 1 \in T
  <2>1. i + 1 <= n => i + 1 \in 1 .. n /\ i <= n /\ (i + 1) - 1 = i
    OBVIOUS
  <2> QED BY <1>2, <2>1
<1>3. Nat \subseteq T
  <2> HIDE DEF T
  <2> QED BY <1>1, <1>2, NaturalInduction
<1> QED BY <1>3

(* g starts at a and goes on by the steps F[<<1, _>>], F[<<2, _>>], ...,    *)
(* within S.                                                               *)
Iterates(g, n, S, a, F) ==
    /\ g \in [0 .. n -> S]
    /\ g[0] = a
    /\ \A i \in 1 .. n : g[i] = F[<<i, g[i - 1]>>]

(* There is such a function: a recursion equation has a solution.          *)
THEOREM Recursion ==
  ASSUME NEW n \in Nat, NEW S, NEW a \in S, NEW F \in [(1 .. n) \X S -> S]
  PROVE  \E g : Iterates(g, n, S, a, F)
<1> DEFINE Solves(g, k) ==
             /\ g[0] = a
             /\ \A i \in 1 .. k : g[i] = F[<<i, g[i - 1]>>]
           T == {k \in Nat : k <= n => \E g \in [0 .. k -> S] : Solves(g, k)}
<1>1. 0 \in T
  <2>1. [i \in 0 .. 0 |-> a] \in [0 .. 0 -> S] /\ Solves([i \in 0 .. 0 |-> a], 0)
    OBVIOUS
  <2> QED BY <2>1
<1>2. ASSUME NEW k \in Nat, k \in T PROVE k + 1 \in T
  <2>1. SUFFICES ASSUME k + 1 <= n
                 PROVE  \E g \in [0 .. k + 1 -> S] : Solves(g, k + 1)
    OBVIOUS
  <2>2. k <= n /\ k + 1 \in 1 .. n
    BY <2>1
  <2>3. PICK f \in [0 .. k -> S] : Solves(f, k)
    BY <1>2, <2>2
  <2> DEFINE x == F[<<k + 1, f[k]>>]
             g == [i \in 0 .. k + 1 |-> IF i = k + 1 THEN x ELSE f[i]]
  <2>4. x \in S
    <3>1. f[k] \in S
      OBVIOUS
    <3> QED BY <2>2, <3>1
  <2> HIDE DEF x
  <2>5. g \in [0 .. k + 1 -> S]
    BY <2>4
  <2>6. \A i \in 0 .. k : g[i] = f[i]
    OBVIOUS
  <2>7. g[k + 1] = x
    OBVIOUS
  <2> HIDE DEF g
  <2>8. g[0] = a
    BY <2>3, <2>6
  <2>9. ASSUME NEW i \in 1 .. k + 1 PROVE g[i] = F[<<i, g[i - 1]>>]
    <3>1. CASE i = k + 1
      BY <3>1, <2>6, <2>7 DEF x
    <3>2. CASE i # k + 1
      <4>1. i \in 1 .. k /\ i \in 0 .. k /\ i - 1 \in 0 .. k
        BY <3>2
      <4> QED BY <4>1, <2>3, <2>6
    <3> QED BY <3>1, <3>2
  <2> QED BY <2>5, <2>8, <2>9
<1>3. Nat \subseteq T
  <2> HIDE DEF T
  <2> QED BY <1>1, <1>2, NaturalInduction
<1>4. PICK g \in [0 .. n -> S] : Solves(g, n)
  BY <1>3
<1> QED BY <1>4 DEF Iterates

=============================================================================
