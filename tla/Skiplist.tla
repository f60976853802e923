------------------------------ MODULE Skiplist ------------------------------
(***************************************************************************)
(* page_skiplist.c: the elements of a sorted set in the order of their     *)
(* scores and, for equal scores, of their values, which are strings.  Each *)
(* element is a node in a page of its own.  A node has one or more levels, *)
(* each with the next node that has that level and the number of elements  *)
(* up to it (span); the first node holds no element.  Levels count from 1. *)
(***************************************************************************)
EXTENDS MultiString

CONSTANT MaxLevel         \* RL_SKIPLIST_MAXLEVEL
ASSUME MaxLevelAssumption == MaxLevel \in Nat \ {0}

(* No value is given: value is NULL. *)
AnyValue == <<-1>>

Level(right, span) == [right |-> right, span |-> span]
SkipNode(score, value, left, levels) ==
    [score |-> score, value |-> value, left |-> left, levels |-> levels]
Right(d, q, i) == Obj(d, q).levels[i].right
Span(d, q, i) == Obj(d, q).levels[i].span
SetLevel(d, q, i, level) ==
    Save(d, q, [Obj(d, q) EXCEPT !.levels = InsertAt(RemoveAt(@, i), i, level)])

(* rl_skiplist_create, and its page, which the caller writes *)
SkipPage(d) == Save(d, d.next, 0).next
SkipCreate(d) ==
    LET e == Save(d, d.next, SkipNode(0, 0, 0, [i \in 1 .. MaxLevel |-> Level(0, 0)]))
    IN Save(e, e.next, [left |-> d.next, right |-> 0, size |-> 0, level |-> 1])

-----------------------------------------------------------------------------
(* rl_skiplist_get_update: for every level the last node before the place  *)
(* of an element, and its rank.  exclude puts the place before elements    *)
(* that equal the one that is sought.                                      *)
(* Mutant: a value that equals the one that is sought is always passed.    *)
PassesEqual(d, q, score, value, exclude) ==
    LET n == Obj(d, q)
        cmp == CompareString(d, n.value, value)
    IN n.score < score \/ (n.score = score /\ (value = AnyValue \/ cmp <= 0))
Passes(d, q, score, value, exclude) ==
    LET n == Obj(d, q)
        cmp == CompareString(d, n.value, value)
    IN \/ n.score < score
       \/ /\ n.score = score
          /\ IF value = AnyValue THEN ~exclude ELSE cmp < IF exclude THEN 0 ELSE 1

GetUpdate(d, p, score, value, exclude) ==
    LET skip == Obj(d, p)
        (* along level i, from the node q, the rank-th *)
        walk[i \in 1 .. MaxLevel, q \in Page, rank \in Nat] ==
          LET level == Obj(d, q).levels[i]
          IN IF level.right # 0 /\ Passes(d, level.right, score, value, exclude)
               THEN walk[i, level.right, rank + level.span]
               ELSE [page |-> q, rank |-> rank]
        down[i \in 1 .. skip.level] ==
          LET from == IF i = skip.level THEN [page |-> skip.left, rank |-> 0] ELSE down[i + 1]
          IN walk[i, from.page, from.rank]
    IN down

(* Mutant: the levels above the new node do not count it. *)
SpannedLow(d, update, level, height, q) ==
    LET count(e, i) ==
          LET u == update[i].page
          IN SetLevel(e, u, i, IF i <= level THEN Level(q, update[1].rank - update[i].rank + 1)
                                          ELSE Obj(e, u).levels[i])
    IN FoldLeft(count, d, [i \in 1 .. height |-> i])
(* The node q takes its place on its levels; the others only count it. *)
Spanned(d, update, level, height, q) ==
    LET count(e, i) ==
          LET u == update[i].page
          IN SetLevel(e, u, i, IF i <= level THEN Level(q, update[1].rank - update[i].rank + 1)
                                          ELSE Level(Right(e, u, i), Span(e, u, i) + 1))
    IN FoldLeft(count, d, [i \in 1 .. height |-> i])

(* A node with a value that has been set takes its place.  On levels that  *)
(* are new the first node is the one before.                               *)
LinkNode(d, p, found, score, value, level) ==
    LET skip == Obj(d, p)
        height == Greatest(level, skip.level)
        update == [i \in 1 .. height |-> IF i <= skip.level THEN found[i]
                                         ELSE [page |-> skip.left, rank |-> 0]]
        before(i) == IF i <= skip.level THEN Obj(d, update[i].page).levels[i]
                                        ELSE Level(0, skip.size)
        q == d.next
        left == IF update[1].page = skip.left THEN 0 ELSE update[1].page
        new == SkipNode(score, value, left,
                        [i \in 1 .. level |->
                           Level(before(i).right,
                                 before(i).span - (update[1].rank - update[i].rank))])
        b == Spanned(Save(d, q, new), update, level, height, q)
        next == before(1).right
        c == IF next = 0 THEN b ELSE Save(b, next, [Obj(b, next) EXCEPT !.left = q])
    IN Save(c, p, [skip EXCEPT !.level = height, !.size = @ + 1,
                               !.right = IF next = 0 THEN q ELSE @])

(* rl_skiplist_add: the value first; level is what rl_skiplist_random_level *)
(* returned.                                                               *)
SkipAdd(d, p, score, value, level) ==
    LET add(e) == LinkNode(e, p, GetUpdate(e, p, score, value, FALSE), score, ListPage(d), level)
    IN add(SetString(d, value))

-----------------------------------------------------------------------------
(* rl_skiplist_first_node: the rank of the node, counted from 0, or None   *)
(* for RL_NOT_FOUND.  "before" is the last element before a score and      *)
(* value, "include" and "exclude" the first one of a range that starts     *)
(* there; the rank is one more where what is found is not returned itself. *)
Matches(d, q, score, value) ==
    LET n == Obj(d, q)
    IN n.score = score /\ (value = AnyValue \/ CompareString(d, n.value, value) = 0)

NodeFrom(d, at, score, mode, value) ==
    LET next == Right(d, at.page, 1)
        itself == \/ mode = "before"
                  \/ mode = "upto" /\ ~(next # 0 /\ Matches(d, next, score, value))
                  \/ /\ mode = "include" /\ Obj(d, at.page).value # 0
                     /\ Matches(d, at.page, score, value)
        found(one) == [found |-> one \/ next # 0,
                       rank |-> IF one THEN at.rank - 1 ELSE at.rank,
                       page |-> IF one THEN at.page ELSE next]
    IN found(itself)
FirstNode(d, p, score, mode, value) ==
    NodeFrom(d, GetUpdate(d, p, score, value, mode \in {"before", "upto"})[1], score, mode, value)

(* rl_skiplist_node_by_rank *)
NodeByRank(d, p, rank) ==
    LET skip == Obj(d, p)
        walk[i \in 0 .. MaxLevel, q \in Page, pos \in Nat] ==
          IF i = 0 \/ pos = rank + 1 THEN [page |-> q, found |-> pos = rank + 1]
          ELSE LET level == Obj(d, q).levels[i]
               IN IF level.right = 0 \/ pos + level.span > rank + 1
                    THEN walk[i - 1, q, pos]
                    ELSE walk[i, level.right, pos + level.span]
    IN walk[skip.level, skip.left, 0]

(* What rl_skiplist_iterator_create and rl_skiplist_iterator_next yield:   *)
(* size nodes from a page on, to the right or to the left.                 *)
Iterate(d, page, direction, size) ==
    LET run[k \in 0 .. size, q \in Page] ==
          IF k = 0 \/ q = 0 THEN <<>>
          ELSE <<q>> \o run[k - 1, IF direction = 1 THEN Right(d, q, 1) ELSE Obj(d, q).left]
    IN run[size, page]
SkipNodes(d, p) == Iterate(d, Right(d, Obj(d, p).left, 1), 1, Obj(d, p).size)
SkipNodesBack(d, p) == Iterate(d, Obj(d, p).right, -1, Obj(d, p).size)

-----------------------------------------------------------------------------
(* rl_skiplist_delete *)

Bypassed(d, update, height, q) ==
    LET n == Obj(d, q)
        past(e, i) ==
          LET u == update[i].page
          IN SetLevel(e, u, i, IF Right(e, u, i) = q
                                 THEN Level(n.levels[i].right,
                                            Span(e, u, i) + n.levels[i].span - 1)
                                 ELSE Level(Right(e, u, i), Span(e, u, i) - 1))
    IN FoldLeft(past, d, [i \in 1 .. height |-> i])

(* The node q goes, with its value; the list too if it was the last one.   *)
UnlinkNode(d, p, update, q) ==
    LET skip == Obj(d, p)
        n == Obj(d, q)
        next == n.levels[1].right
        relink(e) == IF next = 0 THEN e ELSE Save(e, next, [Obj(e, next) EXCEPT !.left = n.left])
        used(e) == {i \in 1 .. skip.level : Right(e, skip.left, i) # 0}
        shrink(e) == IF skip.size = 1 THEN Drop(Drop(e, skip.left), p)
                     ELSE Save(e, p, [skip EXCEPT !.size = @ - 1, !.level = Max(used(e)),
                                                  !.right = IF next = 0 THEN n.left ELSE @])
    IN shrink(Drop(DeleteString(relink(Bypassed(d, update, skip.level, q)), n.value), q))

SkipDelete(d, p, score, value) ==
    LET delete(update) ==
          LET q == Right(d, update[1].page, 1)
          IN IF Matches(d, q, score, value) THEN UnlinkNode(d, p, update, q) ELSE d
    IN delete(GetUpdate(d, p, score, value, TRUE))

(* rl_skiplist_delete_all, and the list's page, which its callers free: the *)
(* first node has no value.                                                 *)
SkipDeleteAll(d, p) ==
    LET one(e, q) == Drop(DeleteString(e, Obj(e, q).value), q)
    IN Drop(FoldLeft(one, Drop(d, Obj(d, p).left), SkipNodes(d, p)), p)

-----------------------------------------------------------------------------
(* rl_skiplist_pages, with the pages of the values and the list's own page *)
SkipPages(d, p) ==
    LET nodes == SkipNodes(d, p)
    IN <<p, Obj(d, p).left>> \o nodes
       \o FlattenSeq([i \in DOMAIN nodes |-> PagesOfString(d, Obj(d, nodes[i]).value)])

(* rl_skiplist_is_balanced, for every level and every node: spans count    *)
(* elements, up to the end on the last node of a level; the links to the   *)
(* left are those to the right reversed; the highest level is used.        *)
SkipBalanced(d, p) ==
    LET skip == Obj(d, p)
        nodes == SkipNodes(d, p)
        all == <<skip.left>> \o nodes
        has(k, i) == i <= Len(Obj(d, all[k]).levels)
    IN /\ skip.size = Len(nodes)
       /\ SkipNodesBack(d, p) = Reverse(nodes)
       /\ \A i \in 1 .. skip.level : \A k \in {k \in DOMAIN all : has(k, i)} :
             LET level == Obj(d, all[k]).levels[i]
                 after == {j \in k + 1 .. Len(all) : has(j, i)}
             IN IF after = {} THEN level.right = 0 /\ level.span = Len(all) - k
                ELSE LET j == Min(after) IN level = Level(all[j], j - k)
       /\ skip.size # 0 => Right(d, skip.left, skip.level) # 0

=============================================================================
