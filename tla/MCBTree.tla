------------------------------- MODULE MCBTree -------------------------------
(* BTree for TLC, with nodes of up to two elements (MaxNodeSize) and of up *)
(* to four (Wide): which of the two is chosen in the initial state.        *)
EXTENDS BTree, TLC

CONSTANTS v1, v2, d0, MaxScore

OneTree == {d0}
MCValues == {v1, v2}
MCSymmetry == Permutations(MCValues)
MCScores == 1 .. MaxScore

(* The scores up to n in ascending order, in descending order, or the odd  *)
(* ones first.                                                             *)
Up(n) == [i \in 1 .. n |-> i]
Down(n) == [i \in 1 .. n |-> n + 1 - i]
Odd(n) == [i \in 1 .. n |-> IF 2 * i - 1 <= n THEN 2 * i - 1 ELSE 2 * (i - (n + 1) \div 2)]
NarrowLoads == {Up(3), Up(7), Up(9), Down(9), Odd(9)}
WideLoads == {Up(17), Down(17), Odd(17)}

VARIABLE wide
Wide == INSTANCE BTree WITH MaxNodeSize <- 4, Loads <- WideLoads

MCInit == wide \in BOOLEAN /\ IF wide THEN Wide!Init ELSE Init
MCNext == UNCHANGED wide /\ IF wide THEN Wide!Next ELSE Next
MCSpec == MCInit /\ [][MCNext]_<<wide, vars>>

(* Balanced, for nodes of either size. *)
BothBalanced == IF wide THEN Wide!Balanced ELSE Balanced

=============================================================================
