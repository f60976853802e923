--------------------------- MODULE MCTransactions ---------------------------
(* Transactions for TLC: clients, keys and values are model values. *)
EXTENDS Transactions, TLC

CONSTANTS c1, c2, k1, k2, v1, v2

OneClient == {c1}
TwoClients == {c1, c2}
OneKey == {k1}
TwoKeys == {k1, k2}
OneDatabase == {0}
TwoDatabases == {0, 1}
TwoValues == {v1, v2}

(* New processes; or c2 is one call of rand() ahead of c1, so that the two *)
(* have some numbers in common and others not.                             *)
SameDraws == [c \in Clients |-> 0]
NearDraws == [c \in Clients |-> IF c = c1 THEN 0 ELSE 1]

(* Every command is one of those on the keys of a database or of those that *)
(* take keys elsewhere, but for DEL, which is both.                        *)
Updates == {"APPEND", "GET", "DEL", "EXPIRE", "PERSIST", "FLUSHDB"}
Moves == {"SET", "DEL", "RENAME", "RENAMENX", "MOVE", "SELECT", "UNWATCH"}

KeySymmetry == Permutations(Values) \cup Permutations(Keys)

=============================================================================
