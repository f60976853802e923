---------------------------- MODULE MCDataTypes ----------------------------
(* Two keys and a target, two members, and strings that are numbers or not. *)
EXTENDS DataTypes

a == <<1>>
b == <<2>>
c == <<3>>
x == <<7>>
y == <<8>>
Nine == <<57>>
Long == <<49, 50, 56>>       \* 128, one more than MaxLong
MCKeys == {a, b}
MCTexts == {x, Nine}
MCMembers == {x, y}
MCSeveral == {<<y>>, <<x, y>>, <<x, x>>}
MCPairings == {<<<<a, x>>, <<b, Nine>>>>, <<<<a, x>>, <<a, y>>>>}
MCMerges == {<<c, <<a, b>>>>, <<b, <<a, c>>>>, <<a, <<b, a>>>>}

Times(d, key, at) == KeyExpires(d, key, at).db
MCLoads ==
    LET strings == Set(Set(EmptyDb, a, Nine, FALSE, 0).db, b, Long, FALSE, 2).db
        lists == Push(Push(EmptyDb, a, TRUE, FALSE, <<x, y, x>>).db, b, TRUE, FALSE, <<y>>).db
        sets == Sadd(Sadd(EmptyDb, a, <<x, y>>).db, b, <<y>>).db
        hashes == Hmset(Hmset(EmptyDb, a, <<<<x, Nine>>, <<y, x>>>>).db, b, <<<<x, Long>>>>).db
        scores == Zadd(Zadd(EmptyDb, a, <<<<1, x>>, <<2, y>>>>).db, b, <<<<2, x>>>>).db
        equal == Zadd(Zadd(EmptyDb, a, <<<<1, y>>, <<1, x>>>>).db, b, <<<<1, y>>>>).db
    IN <<EmptyDb, strings, Times(lists, b, 2), Times(sets, a, 2), Times(hashes, a, 2),
        Times(scores, b, 2), equal, Sadd(Hset(EmptyDb, a, x, Nine, TRUE).db, b, <<x>>).db>>

(* States that differ in the last call only do not differ in what follows  *)
(* or in any invariant.                                                    *)
MCView == <<db, strayed, ops>>

=============================================================================
