----------------------------- MODULE SortedSets -----------------------------
(* type_zset.c and its commands in hirlite.c: a value has the tree of the  *)
(* scores of its members and the skiplist of the scores and the members'   *)
(* strings, as Skiplist.tla keeps it.  Scores are integers: infinities and *)
(* what is not a number are left out.                                      *)
EXTENDS Sets

(* No member is given: value is NULL. *)
AnyMember == <<-1>>

(* rl_zset_get_objects *)
ZsetObjects(d, key, update, create) ==
    Objects(d, key, "zset", update, create, ExpiresOf(d, key, create))
Scores(d, key) == Value(d, key).scores
Ranks(d, key) == Value(d, key).ranks

(* memcmp, and the lengths: rl_multi_string_cmp_str *)
Before(s, t) ==
    LET differ == {i \in 1 .. Min({Len(s), Len(t)}) : s[i] # t[i]}
    IN IF differ = {} THEN Len(s) < Len(t) ELSE s[Min(differ)] < t[Min(differ)]

(* rl_skiplist_get_update: how many elements come before a place *)
Place(d, ranks, score, member, exclude) ==
    LET passes(n) ==
          \/ n.score < score
          \/ /\ n.score = score
             /\ IF member = AnyMember THEN ~exclude
                ELSE Before(d.heap[n.value], member) \/ (d.heap[n.value] = member /\ ~exclude)
    IN Cardinality({i \in DOMAIN ranks : passes(ranks[i])})

(* Mutant: RL_SKIPLIST_UPTO_SCORE leaves out the score itself. *)
FirstNodeBefore(d, ranks, score, mode, member) ==
    LET at == Place(d, ranks, score, member, mode \in {"before", "upto"})
        itself == mode \in {"before", "upto"}
    IN [found |-> itself \/ at < Len(ranks), rank |-> IF itself THEN at - 1 ELSE at]
(* rl_skiplist_first_node: the rank of the node, counted from 0.  The rank *)
(* that "upto" and "before" give can be that of the first node, -1.        *)
FirstNode(d, ranks, score, mode, member) ==
    LET at == Place(d, ranks, score, member, mode \in {"before", "upto"})
        matches(i) == /\ i \in DOMAIN ranks /\ ranks[i].score = score
                      /\ member = AnyMember \/ d.heap[ranks[i].value] = member
        itself == \/ mode = "before"
                  \/ mode = "upto" /\ ~matches(at + 1)
                  \/ mode = "include" /\ matches(at)
    IN [found |-> itself \/ at < Len(ranks), rank |-> IF itself THEN at - 1 ELSE at]

(* add_member: RL_FOUND leaves what there is. *)
AddMember(d, key, score, m) ==
    LET at == Place(d, Ranks(d, key), score, m, FALSE)
        new == [score |-> score, value |-> StringPage(d)]
    IN IF m \in DOMAIN Scores(d, key) THEN Fail(d, "found")
       ELSE Ret(SetValue(SetString(d, m), key,
                         [scores |-> Put(Scores(d, key), m, score),
                          ranks |-> InsertAt(Ranks(d, key), at + 1, new)]), <<>>)

(* remove_member_score_sha1: the tree by the member, the skiplist by its   *)
(* score too; the key goes with its last member.                           *)
RemoveMember(d, key, m) ==
    LET score == Scores(d, key)[m]
        at == Place(d, Ranks(d, key), score, m, FALSE)
        e == DeleteStrings(d, {Ranks(d, key)[at].value})
        left == [scores |-> Restrict(Scores(d, key), DOMAIN Scores(d, key) \ {m}),
                 ranks |-> RemoveAt(Ranks(d, key), at)]
    IN IF left.ranks = <<>> THEN KeyDelete(e, key) ELSE SetValue(e, key, left)

(* Mutant: only the tree gets the new score of a member. *)
PutMemberTree(d, key, score, m, update) ==
    IF m \in DOMAIN Scores(d, key)
      THEN Ret(SetValue(d, key, [scores |-> Put(Scores(d, key), m, score), ranks |-> Ranks(d, key)]), <<>>)
      ELSE AddMember(d, key, score, m)
(* What rl_zadd and incrby do once they have the value: the member is taken *)
(* out, which may delete the key, and put in.                               *)
PutMember(d, key, score, m, update) ==
    LET e == IF m \in DOMAIN Scores(d, key) THEN RemoveMember(d, key, m) ELSE d
        f == IF key \in DOMAIN e.keys THEN e ELSE ZsetObjects(e, key, update, TRUE).db
    IN AddMember(f, key, score, m)

(* zaddGenericCommand with rl_zadd: how many members are new *)
Zadd(d, key, pairs) ==
    LET one(r, p) ==
          LET o == ZsetObjects(r.db, key, TRUE, TRUE)
              new == IF p[2] \in DOMAIN Scores(o.db, key) THEN 0 ELSE 1
          IN IF r.ret # "ok" THEN r
             ELSE Then(o, LAMBDA e : Ret(PutMember(e, key, p[1], p[2], TRUE).db, <<r.out[1] + new>>))
    IN FoldLeft(one, Ret(Argument(d), <<0>>), pairs)

(* incrby, and zaddGenericCommand's reply, which is the increment *)
Incrby(d, key, n, m) ==
    LET add(e) == LET old == IF m \in DOMAIN Scores(e, key) THEN Scores(e, key)[m] ELSE 0
                  IN PutMember(e, key, old + n, m, FALSE)
    IN Then(ZsetObjects(d, key, TRUE, TRUE), add)
Zincrby(d, key, n, m) == Then(Incrby(Argument(d), key, n, m), LAMBDA e : Ret(e, <<n>>))

(* rl_zrem: a key that is not there is created. *)
Zrem(d, key, members) ==
    LET remove(e, m) ==
          IF key \in DOMAIN e.keys /\ m \in DOMAIN Scores(e, key)
            THEN RemoveMember(e, key, m) ELSE e
    IN Then(ZsetObjects(d, key, TRUE, TRUE),
            LAMBDA e : Ret(FoldLeft(remove, e, members),
                           <<Cardinality(Range(members) \cap DOMAIN Scores(e, key))>>))

-----------------------------------------------------------------------------
(* Ranges, as the ranks that they have: <<from, to>>, or <<>> for RL_NOT_FOUND *)

(* _rl_zrange *)
RankRange(ranks, start, end) ==
    LET card == Len(ranks)
        from == IF start < 0 THEN Max({start + card, 0}) ELSE start
        to == IF end < 0 THEN end + card ELSE end
    IN IF from > to \/ from >= card THEN <<>> ELSE <<from, Min({to, card - 1})>>

(* _rl_zrangebyscore: range is what zslParseRange reads. *)
ScoreRange(d, ranks, range) ==
    LET min == FirstNode(d, ranks, range.min, IF range.minex THEN "exclude" ELSE "include", AnyMember)
        max == FirstNode(d, ranks, range.max, IF range.maxex THEN "before" ELSE "upto", AnyMember)
        first == Head(ranks).score
    IN IF \/ ~min.found \/ max.rank < min.rank
          \/ max.rank = 0 /\ (first > range.max \/ (range.maxex /\ first = range.max))
         THEN <<>> ELSE <<min.rank, max.rank>>

(* lex_get_range: among the members with the first one's score.  A bound   *)
(* is [member, ex], with no member for - and +.                            *)
LexRange(d, ranks, min, max) ==
    LET score == Head(ranks).score
        from == FirstNode(d, ranks, score, IF min.ex THEN "exclude" ELSE "include", min.member)
        to == FirstNode(d, ranks, score, IF max.ex THEN "before" ELSE "upto", max.member)
        start == IF min.member = AnyMember THEN 0 ELSE from.rank
    IN IF \/ ranks = <<>> \/ (min.member # AnyMember /\ ~from.found)
          \/ max.member # AnyMember /\ (~to.found \/ to.rank < 0)
         THEN <<>>
       ELSE <<start, IF max.member = AnyMember THEN -1 ELSE to.rank>>

(* Which of the three a command takes *)
RangeOf(d, ranks, kind, range) ==
    CASE kind = "rank" -> range
      [] kind = "score" -> ScoreRange(d, ranks, range)
      [] kind = "lex" -> LexRange(d, ranks, range[1], range[2])

(* _zremiterator: the members with these ranks *)
RemoveRanks(d, key, range) ==
    LET at(i) == d.heap[Ranks(d, key)[i + 1].value]
        members == [i \in 1 .. range[2] - range[1] + 1 |-> at(range[1] + i - 1)]
        remove(e, m) == RemoveMember(e, key, m)
    IN Ret(FoldLeft(remove, d, members), <<Len(members)>>)

(* rl_zremrangebyrank, rl_zremrangebyscore and rl_zremrangebylex; a key     *)
(* that is not there is created.                                            *)
Zremrange(d, key, kind, range) ==
    LET take(e, ranks) ==
          IF ranks = <<>> THEN Fail(e, "not found") ELSE RemoveRanks(e, key, ranks)
        within(e, found) ==
          IF found # <<>> THEN take(e, RankRange(Ranks(e, key), found[1], found[2]))
          ELSE IF kind = "lex" THEN Ret(e, <<0>>) ELSE Fail(e, "not found")
        remove(e) == within(e, RangeOf(e, Ranks(e, key), kind, range))
    IN Then(ZsetObjects(IF kind = "rank" THEN Argument(d) ELSE d, key, TRUE, TRUE), remove)

-----------------------------------------------------------------------------
(* rl_zcount *)
Zcount(d, key, range) ==
    LET count(e) ==
          LET ranks == Ranks(e, key)
              max == FirstNode(e, ranks, range.max, IF range.maxex THEN "before" ELSE "upto", AnyMember)
              min == FirstNode(e, ranks, range.min, IF range.minex THEN "exclude" ELSE "include", AnyMember)
          IN Ret(e, <<IF min.found THEN max.rank - min.rank + 1 ELSE 0>>)
    IN IF range.max < range.min THEN Ret(d, <<0>>)
       ELSE Then(ZsetObjects(d, key, FALSE, FALSE), count)

(* rl_zlexcount *)
Zlexcount(d, key, min, max) ==
    LET to(e, range) == IF range[2] < 0 THEN range[2] + Len(Ranks(e, key)) ELSE range[2]
        count(e, range) == IF range = <<>> THEN Fail(e, "not found")
                           ELSE Ret(e, <<Max({0, to(e, range) - range[1] + 1})>>)
    IN Then(ZsetObjects(d, key, FALSE, FALSE),
            LAMBDA e : count(e, LexRange(e, Ranks(e, key), min, max)))

(* rl_zrange, rl_zrangebyscore, rl_zrangebylex and the same in reverse: the *)
(* members from an offset on, and how many of them, as LIMIT has it.        *)
(* rl_zrevrange, the only one that takes ranks in reverse, counts them from *)
(* the other end.                                                           *)
Zrange(d, key, kind, range, direction, offset, count) ==
    LET counted == IF kind = "rank" /\ direction < 0 THEN <<-range[2] - 1, -range[1] - 1>>
                   ELSE range
        limited(nodes) ==
          SubSeq(nodes, 1, IF count < 0 THEN Len(nodes) ELSE Min({count, Len(nodes)}))
        listed(e, ranks) ==
          LET part == SubSeq(Ranks(e, key), ranks[1] + 1, ranks[2] + 1)
              nodes == limited(IF direction > 0 THEN part ELSE Reverse(part))
          IN IF ranks = <<>> THEN <<>> ELSE [i \in DOMAIN nodes |-> e.heap[nodes[i].value]]
        within(e, found) ==
          IF found = <<>> THEN <<>>
          ELSE RankRange(Ranks(e, key), found[1] + (IF direction > 0 THEN offset ELSE 0),
                         found[2] - (IF direction > 0 THEN 0 ELSE offset))
        read(e) ==
          Ret(e, <<listed(e, within(e, RangeOf(e, Ranks(e, key), kind, counted)))>>)
    IN Then(ZsetObjects(d, key, FALSE, FALSE), read)

(* rl_zscore: from the tree *)
Zscore(d, key, m) ==
    Then(ZsetObjects(d, key, FALSE, FALSE),
         LAMBDA e : IF m \in DOMAIN Scores(e, key) THEN Ret(e, <<Scores(e, key)[m]>>)
                    ELSE Fail(e, "not found"))

(* rl_zrank and rl_zrevrank *)
Zrank(d, key, m, direction) ==
    LET rank(e) ==
          LET at == FirstNode(e, Ranks(e, key), Scores(e, key)[m], "include", m).rank
          IN IF m \notin DOMAIN Scores(e, key) THEN Fail(e, "not found")
             ELSE Ret(e, <<IF direction > 0 THEN at ELSE Len(Ranks(e, key)) - at - 1>>)
    IN Then(ZsetObjects(d, key, FALSE, FALSE), rank)

-----------------------------------------------------------------------------
(* rl_zinterstore.  A source is a sorted set or a set; the first of the    *)
(* smallest is the one whose members are looked up in the others.  What    *)
(* the others have for a member is taken for its score if that one is a    *)
(* sorted set, and for 1 if not: a set has the number of a page there,     *)
(* which is next to 0 as a score.                                          *)
Aggregate(how, a, b) ==
    CASE how = "sum" -> a + b [] how = "min" -> Min({a, b}) [] how = "max" -> Max({a, b})

InterSources(d, keys) ==
    LET source(type, members) == [type |-> type, members |-> members]
        add(z, out, key) ==
          IF z.ret = "wrong type"
            THEN Then(SetObjects(z.db, key, FALSE, FALSE),
                      LAMBDA e : Ret(e, Append(out, source("set", Members(e, key)))))
            ELSE Then(z, LAMBDA e : Ret(e, Append(out, source("zset", DOMAIN Scores(e, key)))))
        read(r, key) ==
          IF r.ret # "ok" THEN r ELSE add(ZsetObjects(r.db, key, FALSE, FALSE), r.out, key)
    IN FoldLeft(read, Ret(d, <<>>), keys)

(* The score that a member gets from the pivot, and then the others *)
InterScore(d, keys, weights, how, sources, pivot, m) ==
    LET isZset(i) == sources[i].type = "zset"
        score(i) == IF ~isZset(pivot) THEN 1
                    ELSE IF isZset(i) THEN Scores(d, keys[i])[m] ELSE 0
        add(sum, i) == IF i = pivot THEN sum ELSE Aggregate(how, sum, score(i) * weights[i])
    IN FoldLeft(add, score(pivot) * weights[pivot], [i \in DOMAIN keys |-> i])

Zinterstore(d, target, keys, weights, how) ==
    LET add(e, out, pivot, m) ==
          AddMember(e, target, InterScore(e, keys, weights, how, out, pivot, m), m).db
        size(out, i) == Cardinality(out[i].members)
        smallest(out) ==
          Min({i \in DOMAIN keys : \A j \in DOMAIN keys : size(out, i) <= size(out, j)})
        store(r, pivot) ==
          LET common == {m \in r.out[pivot].members : \A i \in DOMAIN keys : m \in r.out[i].members}
          IN Then(ZsetObjects(r.db, target, TRUE, TRUE),
                  LAMBDA e : Ret(FoldLeft(LAMBDA f, m : add(f, r.out, pivot, m), e, SetToSeq(common)),
                                 <<Cardinality(common)>>))
        inter(r) == IF r.ret # "ok" THEN Fail(r.db, r.ret) ELSE store(r, smallest(r.out))
    IN inter(InterSources(DeleteWithValue(Argument(d), target).db, keys))

-----------------------------------------------------------------------------
(* rl_zunionstore.  zunionstore_sum adds to the target source by source;   *)
(* one that is of the wrong type ends it with the target half done.  A     *)
(* target that is one of its later sources is not modelled: it changes     *)
(* while it is read.                                                       *)
Nodes(d, key) ==
    LET node(n) == [score |-> n.score, member |-> d.heap[n.value]]
    IN [k \in DOMAIN Ranks(d, key) |-> node(Ranks(d, key)[k])]
UnionSum(d, target, keys, weights) ==
    LET add(i, e, n) == Incrby(e, target, n.score * weights[i], n.member).db
        sum(o, i) ==
          IF o.ret = "not found" THEN Ret(o.db, <<>>)
          ELSE Then(o, LAMBDA e : Ret(FoldLeft(LAMBDA f, n : add(i, f, n), e, Nodes(e, keys[i])),
                                      <<>>))
        read(r, i) ==
          IF r.ret # "ok" THEN r ELSE sum(ZsetObjects(r.db, keys[i], FALSE, FALSE), i)
    IN FoldLeft(read, Ret(d, <<>>), [i \in DOMAIN keys |-> i])

(* zunionstore_minmax merges the sources, from the end that counts, and    *)
(* keeps the first score of a member.  The score that is to be taken has   *)
(* its weight when it is compared, those that it is compared with do not.  *)
MergeSources(d, keys, how) ==
    LET ordered(nodes) == IF how = "max" THEN Reverse(nodes) ELSE nodes
        add(o, out, key) ==
          IF o.ret = "not found" THEN Ret(o.db, Append(out, <<>>))
          ELSE Then(o, LAMBDA e : Ret(e, Append(out, ordered(Nodes(e, key)))))
        read(r, key) ==
          IF r.ret # "ok" THEN r ELSE add(ZsetObjects(r.db, key, FALSE, FALSE), r.out, key)
    IN FoldLeft(read, Ret(d, <<>>), keys)
Merged(d, target, lists, weights, how) ==
    LET total == FoldLeft(LAMBDA n, nodes : n + Len(nodes), 0, lists)
        weighted(left, i) == weights[i] * Head(left[i]).score
        better(left, i, p) == IF how = "max" THEN Head(left[i]).score > weighted(left, p)
                              ELSE Head(left[i]).score < weighted(left, p)
        pick(left, p, i) ==
          IF left[i] = <<>> THEN p ELSE IF p = 0 \/ better(left, i, p) THEN i ELSE p
        take(st, p) ==
          [db |-> AddMember(st.db, target, weighted(st.left, p), Head(st.left[p]).member).db,
           left |-> [i \in DOMAIN lists |-> IF i = p THEN Tail(st.left[i]) ELSE st.left[i]]]
        next(st, p) == IF p = 0 THEN st ELSE take(st, p)
        step(st, k) ==
          next(st, FoldLeft(LAMBDA q, i : pick(st.left, q, i), 0, [i \in DOMAIN lists |-> i]))
    IN FoldLeft(step, [db |-> d, left |-> lists], [k \in 1 .. total |-> k]).db
UnionMinMax(d, target, keys, weights, how) ==
    LET end(e) == Ret(IF Ranks(e, target) = <<>> THEN DeleteWithValue(e, target).db ELSE e, <<>>)
        merge(r) == IF r.ret # "ok" THEN r ELSE end(Merged(r.db, target, r.out, weights, how))
    IN merge(MergeSources(ZsetObjects(d, target, TRUE, TRUE).db, keys, how))

(* zunionInterGenericCommand: the reply is zcardCommand's. *)
Zcard(d, key) ==
    Then(ZsetObjects(d, key, FALSE, FALSE), LAMBDA e : Ret(e, <<Len(Ranks(e, key))>>))
Zunionstore(d, target, keys, weights, how) ==
    LET union(e) == IF how = "sum" THEN UnionSum(e, target, keys, weights)
                    ELSE UnionMinMax(e, target, keys, weights, how)
    IN Then(union(DeleteWithValue(Argument(d), target).db), LAMBDA f : Zcard(f, target))

=============================================================================
