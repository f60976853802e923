----------------------------- MODULE Dictionary -----------------------------
(***************************************************************************)
(* What a B-tree is for: a map from scores to values that can be created,  *)
(* dropped and changed one score at a time.  BTree.tla implements it.      *)
(***************************************************************************)
CONSTANTS Trees, Scores, Values, None

Empty == [s \in Scores |-> None]

VARIABLES
    dict,     \* the value of each score in each tree, or None
    open      \* the trees there are
vars == <<dict, open>>

(* A database may be found with trees in it. *)
Init ==
    /\ dict \in [Trees -> [Scores -> Values \cup {None}]]
    /\ open \subseteq Trees
    /\ \A t \in Trees \ open : dict[t] = Empty

Create(t) ==
    /\ t \notin open
    /\ open' = open \cup {t}
    /\ UNCHANGED dict

Add(t, s, v) ==
    /\ t \in open /\ dict[t][s] = None
    /\ dict' = [dict EXCEPT ![t][s] = v]
    /\ UNCHANGED open

Update(t, s, v) ==
    /\ dict[t][s] # None
    /\ dict' = [dict EXCEPT ![t][s] = v]
    /\ UNCHANGED open

(* A tree goes away with its last score. *)
Remove(t, s) ==
    /\ dict[t][s] # None
    /\ dict' = [dict EXCEPT ![t][s] = None]
    /\ open' = IF dict'[t] = Empty THEN open \ {t} ELSE open

Clear(t) ==
    /\ t \in open
    /\ dict' = [dict EXCEPT ![t] = Empty]
    /\ open' = open \ {t}

Next ==
    \E t \in Trees :
       \/ Create(t)
       \/ \E s \in Scores, v \in Values : Add(t, s, v) \/ Update(t, s, v)
       \/ \E s \in Scores : Remove(t, s)
       \/ Clear(t)

Spec == Init /\ [][Next]_vars

=============================================================================
