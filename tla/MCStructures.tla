---------------------------- MODULE MCStructures ----------------------------
(* Structures for TLC: list nodes of up to three elements, pages of two    *)
(* bytes and skiplist nodes of up to three levels.                         *)
EXTENDS Structures

MCMarks == {0}
MCWrites == {<<>>, <<1>>, <<0, 2>>, <<2, 1, 1>>}
MCOffsets == 0 .. 6
MCStrings == {<<>>, <<0>>, <<1>>, <<1, 1>>, <<1, 1, 1>>, <<1, 0, 2>>, <<2, 1, 1, 0, 0>>}
MCScores == {1, 2}
MCMembers == {<<>>, <<1>>, <<1, 0>>, <<1, 1, 2>>}

(* Positions: at the right end, at the left end, or always second or third. *)
Rightwards(n) == [i \in 1 .. n |-> -1]
Leftwards(n) == [i \in 1 .. n |-> 0]
Inwards(n) == [i \in 1 .. n |-> IF i <= 2 THEN -1 ELSE 1]
InwardsBack(n) == [i \in 1 .. n |-> IF i <= 2 THEN -1 ELSE -3]
Holding(positions, data, entries) ==
    [list |-> positions, bytes |-> data, skip |-> entries]

Ranked(score, value, level) == [score |-> score, value |-> value, level |-> level]
Entries ==
    {<<Ranked(1, <<1, 0>>, 2), Ranked(2, <<1>>, 1), Ranked(1, <<1>>, a), Ranked(2, <<1, 1, 2>>, b)>>
       : a, b \in {1, 3}}

(* Nothing; a list that grew in one of four ways; a string; some entries. *)
MCLoads ==
    {Holding(<<>>, <<>>, <<>>), Holding(<<>>, <<1, 1, 2, 0, 1>>, <<>>)}
    \cup {Holding(p, <<>>, <<>>) : p \in {Rightwards(8), Leftwards(8), Inwards(9), InwardsBack(9)}}
    \cup {Holding(<<>>, <<>>, e) : e \in Entries}

=============================================================================
