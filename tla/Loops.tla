------------------------------- MODULE Loops --------------------------------
(***************************************************************************)
(* A loop over a sequence, as the models write it with FoldLeft, keeps     *)
(* what every one of its steps keeps.  A proof takes this module with the  *)
(* step of its loop for Step and its invariant for Holds: no prover can    *)
(* apply a theorem to an operator, but INSTANCE can.  Induction is a       *)
(* hypothesis, which Induction.tla proves, so that an instance brings only *)
(* what is here.                                                           *)
(***************************************************************************)
EXTENDS Naturals

CONSTANTS Step(_, _, _),     \* of a loop in a context: what comes of r and an element
          Holds(_, _, _)     \* of r after a number of steps

(* FoldLeft of SequencesExt, with its choice of the next element *)
Greatest(S) == CHOOSE x \in S : \A y \in S : x >= y
Loop(c, base, seq) ==
    LET iter[s \in SUBSET DOMAIN seq] ==
          IF s = {} THEN base ELSE LET x == Greatest(s) IN Step(c, iter[s \ {x}], seq[x])
    IN  iter[DOMAIN seq]

LEMMA GreatestOf ==
  ASSUME NEW k \in Nat, NEW s \in SUBSET (1 .. k), k \in s
  PROVE  Greatest(s) = k
<1>1. \A y \in s : k >= y
  OBVIOUS
<1>2. \E x \in s : \A y \in s : x >= y
  BY <1>1
<1>3. Greatest(s) \in s /\ \A y \in s : Greatest(s) >= y
  BY <1>2 DEF Greatest
<1>4. Greatest(s) \in 1 .. k /\ Greatest(s) >= k
  BY <1>3
<1> QED BY <1>4

(* The states that a loop goes through *)
Runs(c, base, seq, n, run) ==
    /\ run[0] = base
    /\ \A i \in 1 .. n : run[i] = Step(c, run[i - 1], seq[i])
    /\ Loop(c, base, seq) = run[n]

LEMMA LoopSteps ==
  ASSUME \A S : 0 \in S /\ (\A k \in Nat : k \in S => k + 1 \in S) => Nat \subseteq S,
         NEW c, NEW base, NEW seq, NEW n \in Nat, DOMAIN seq = 1 .. n
  PROVE  \E run : Runs(c, base, seq, n, run)
<1> DEFINE Iter(g, k) ==
             g = [s \in SUBSET (1 .. k) |->
                    IF s = {} THEN base ELSE Step(c, g[s \ {Greatest(s)}], seq[Greatest(s)])]
           S == {k \in Nat : \E g : Iter(g, k)}
<1>1. 0 \in S
  <2> DEFINE g == [s \in SUBSET (1 .. 0) |-> base]
  <2>1. SUBSET (1 .. 0) = {{}}
    OBVIOUS
  <2>2. Iter(g, 0)
    BY <2>1
  <2> QED BY <2>2
<1>2. ASSUME NEW k \in Nat, k \in S PROVE k + 1 \in S
  <2>1. PICK g : Iter(g, k)
    BY <1>2
  <2> DEFINE h == [s \in SUBSET (1 .. k + 1) |->
                     IF k + 1 \in s THEN Step(c, g[s \ {k + 1}], seq[k + 1]) ELSE g[s]]
  <2>2. ASSUME NEW s \in SUBSET (1 .. k + 1)
        PROVE  h[s] = IF s = {} THEN base ELSE Step(c, h[s \ {Greatest(s)}], seq[Greatest(s)])
    <3>1. CASE k + 1 \in s
      <4>1. Greatest(s) = k + 1
        BY <3>1, GreatestOf
      <4>2. s \ {k + 1} \in SUBSET (1 .. k + 1) /\ k + 1 \notin s \ {k + 1}
        OBVIOUS
      <4>3. h[s \ {k + 1}] = g[s \ {k + 1}]
        BY <4>2
      <4> QED BY <3>1, <4>1, <4>3
    <3>2. CASE k + 1 \notin s
      <4>1. s \in SUBSET (1 .. k)
        BY <3>2
      <4>2. h[s] = IF s = {} THEN base ELSE Step(c, g[s \ {Greatest(s)}], seq[Greatest(s)])
        BY <2>1, <3>2, <4>1
      <4>3. s \ {Greatest(s)} \in SUBSET (1 .. k + 1) /\ k + 1 \notin s \ {Greatest(s)}
        BY <3>2
      <4>4. h[s \ {Greatest(s)}] = g[s \ {Greatest(s)}]
        BY <4>3
      <4> QED BY <4>2, <4>4
    <3> QED BY <3>1, <3>2
  <2>3. Iter(h, k + 1)
    BY <2>2
  <2> HIDE DEF h
  <2>4. \E f : Iter(f, k + 1)
    BY <2>3
  <2> HIDE DEF Iter
  <2> QED BY <2>4
<1>3. n \in S
  <2> HIDE DEF S
  <2> QED BY <1>1, <1>2
<1> DEFINE G == CHOOSE g : Iter(g, n)
<1>4. Iter(G, n)
  BY <1>3
<1>5. Loop(c, base, seq) = G[1 .. n]
  BY DEF Loop
<1> HIDE DEF G
<1> DEFINE run == [i \in 0 .. n |-> G[1 .. i]]
<1>6. run[0] = base
  <2>1. 1 .. 0 = {} /\ {} \in SUBSET (1 .. n)
    OBVIOUS
  <2> QED BY <2>1, <1>4
<1>7. ASSUME NEW i \in 1 .. n PROVE run[i] = Step(c, run[i - 1], seq[i])
  <2>1. 1 .. i \in SUBSET (1 .. n) /\ 1 .. i # {} /\ (1 .. i) \ {i} = 1 .. (i - 1)
    <3>1. i \in Nat /\ i \in 1 .. i /\ \A x \in 1 .. i : x \in 1 .. n
      OBVIOUS
    <3>2. (1 .. i) \ {i} = 1 .. (i - 1)
      OBVIOUS
    <3> QED BY <3>1, <3>2
  <2>2. Greatest(1 .. i) = i
    BY GreatestOf
  <2>3. i \in 0 .. n /\ i - 1 \in 0 .. n
    OBVIOUS
  <2>4. run[i] = G[1 .. i] /\ run[i - 1] = G[1 .. (i - 1)]
    BY <2>3
  <2>5. G[1 .. i] = Step(c, G[(1 .. i) \ {i}], seq[i])
    BY <2>1, <2>2, <1>4
  <2> QED BY <2>1, <2>4, <2>5
<1>8. run[n] = G[1 .. n]
  OBVIOUS
<1> HIDE DEF run
<1> QED BY <1>5, <1>6, <1>7, <1>8 DEF Runs

(* What holds at first, and of what a step makes of what it holds of, holds *)
(* of what the loop comes to.                                               *)
THEOREM LoopKeeps ==
  ASSUME \A S : 0 \in S /\ (\A k \in Nat : k \in S => k + 1 \in S) => Nat \subseteq S,
         NEW c, NEW base, NEW seq, NEW n \in Nat, DOMAIN seq = 1 .. n,
         Holds(c, 0, base),
         \A i \in 1 .. n : \A r : Holds(c, i - 1, r) => Holds(c, i, Step(c, r, seq[i]))
  PROVE  Holds(c, n, Loop(c, base, seq))
<1>0. PICK run : Runs(c, base, seq, n, run)
  BY LoopSteps
<1>1. /\ run[0] = base
      /\ \A i \in 1 .. n : run[i] = Step(c, run[i - 1], seq[i])
      /\ Loop(c, base, seq) = run[n]
  BY <1>0 DEF Runs
<1> DEFINE T == {i \in Nat : i <= n => Holds(c, i, run[i])}
<1>2. 0 \in T
  BY <1>1
<1>3. ASSUME NEW k \in Nat, k \in T PROVE k + 1 \in T
  <2>1. CASE k + 1 <= n
    <3>1. Holds(c, k, run[k]) /\ k + 1 \in 1 .. n /\ (k + 1) - 1 = k
      BY <1>3, <2>1
    <3>2. Holds(c, k + 1, Step(c, run[k], seq[k + 1]))
      BY <3>1
    <3>3. run[k + 1] = Step(c, run[k], seq[k + 1])
      BY <1>1, <3>1
    <3> QED BY <3>2, <3>3
  <2> QED BY <2>1
<1>4. n \in T
  <2> HIDE DEF T
  <2> QED BY <1>2, <1>3
<1> QED BY <1>1, <1>4

=============================================================================
