-------------------------------- MODULE Sets --------------------------------
(* type_set.c and its commands in hirlite.c: a value has for each member   *)
(* the page of its string.                                                 *)
EXTENDS Keyspace

(* rl_set_get_objects: whatever changes a set, it no longer expires. *)
SetObjects(d, key, update, create) == Objects(d, key, "set", update, create, 0)
Members(d, key) == DOMAIN Value(d, key)

(* rl_btree_add_element and rl_btree_remove_element, with the string; the *)
(* key goes with its last member.                                         *)
SetPut(d, key, m) ==
    IF m \in Members(d, key) THEN d
    ELSE SetValue(SetString(d, m), key, Put(Value(d, key), m, StringPage(d)))
SetTake(d, key, m) ==
    LET e == DeleteStrings(d, {Value(d, key)[m]})
        left == Members(d, key) \ {m}
    IN IF left = {} THEN KeyDelete(e, key) ELSE SetValue(e, key, Restrict(Value(d, key), left))

(* rl_sadd *)
Sadd(d, key, members) ==
    LET put(e, m) == SetPut(e, key, m)
    IN Then(SetObjects(d, key, TRUE, TRUE),
            LAMBDA e : Ret(FoldLeft(put, e, members),
                           <<Cardinality(Range(members) \ Members(e, key))>>))

(* rl_srem *)
Srem(d, key, members) ==
    LET take(e, m) ==
          IF key \in DOMAIN e.keys /\ m \in Members(e, key) THEN SetTake(e, key, m) ELSE e
    IN Then(SetObjects(d, key, TRUE, FALSE),
            LAMBDA e : Ret(FoldLeft(take, e, members),
                           <<Cardinality(Range(members) \cap Members(e, key))>>))

(* rl_smove.  Its digest is freed twice where the destination has the      *)
(* member: the process ends, and what it did is not committed.             *)
Smove(d, source, destination, m) ==
    LET put(e) == IF m \in Members(e, destination) THEN Fail(d, "aborted")
                  ELSE Ret(SetPut(e, destination, m), <<1>>)
        move(e) == IF m \notin Members(e, source) THEN Fail(e, "not found")
                   ELSE Then(SetObjects(SetTake(e, source, m), destination, TRUE, TRUE), put)
        start(r) == IF r.ret = "wrong type" THEN r
                    ELSE Then(SetObjects(r.db, source, TRUE, FALSE), move)
    IN start(SetObjects(d, destination, FALSE, FALSE))

(* rl_spop: any member *)
Spop(d, key) ==
    LET r == SetObjects(d, key, TRUE, FALSE)
    IN IF r.ret # "ok" THEN {r}
       ELSE {Ret(SetTake(r.db, key, m), <<m>>) : m \in Members(r.db, key)}

(* rl_sismember, rl_scard and rl_smembers *)
Sismember(d, key, m) ==
    OrElse(Then(SetObjects(d, key, FALSE, FALSE),
                LAMBDA e : Ret(e, <<IF m \in Members(e, key) THEN 1 ELSE 0>>)), 0)
Scard(d, key) ==
    OrElse(Then(SetObjects(d, key, FALSE, FALSE),
                LAMBDA e : Ret(e, <<Cardinality(Members(e, key))>>)), 0)
Smembers(d, key) ==
    Then(SetObjects(d, key, FALSE, FALSE),
         LAMBDA e : Ret(e, <<{e.heap[page] : page \in Range(Value(e, key))}>>))

(* rl_srandmembers: all there is to draw, as it draws again what it had *)
Srandmember(d, key, repeat, count) ==
    LET size == Cardinality(Members(d, key))
        draws(n) == {s \in [1 .. n -> Members(d, key)] : repeat \/ IsInjective(s)}
    IN IF Scard(d, key).ret # "ok" \/ key \notin DOMAIN d.keys THEN {}
       ELSE draws(IF repeat THEN count ELSE Min({count, size}))

-----------------------------------------------------------------------------
(* The sets of several keys, in out; without those of keys that are not *)
(* found if that is no error.                                           *)
Sources(d, keys, required) ==
    LET add(o, out, key) ==
          CASE o.ret = "ok" -> Ret(o.db, Append(out, Members(o.db, key)))
            [] o.ret = "not found" /\ ~required -> Ret(o.db, out)
            [] OTHER -> o
        read(r, key) ==
          IF r.ret # "ok" THEN r ELSE add(SetObjects(r.db, key, FALSE, FALSE), r.out, key)
    IN FoldLeft(read, Ret(d, <<>>), keys)

(* rl_sdiff, rl_sinter and rl_sunion.  rl_sinter shrinks its memory to the *)
(* members it found; glibc frees it where that is none, and so does        *)
(* rl_sinter then: the process ends.                                       *)
Sdiff(d, keys) ==
    LET found(e, diff) == IF diff = {} THEN Fail(e, "not found") ELSE Ret(e, <<diff>>)
        without(r, rest) == IF rest.ret # "ok" THEN rest
                            ELSE found(rest.db, r.out[1] \ UNION Range(rest.out))
        diff(r) == IF r.ret # "ok" THEN r ELSE without(r, Sources(r.db, Tail(keys), FALSE))
    IN diff(Sources(d, <<Head(keys)>>, TRUE))
Sinter(d, keys) ==
    LET inter(r) ==
          LET all == {m \in r.out[1] : \A i \in DOMAIN r.out : m \in r.out[i]}
          IN IF r.ret # "ok" THEN r
             ELSE IF {} \in Range(r.out) THEN Fail(r.db, "not found")
             ELSE IF all = {} THEN Fail(d, "aborted") ELSE Ret(r.db, <<all>>)
    IN inter(Sources(d, keys, TRUE))
Sunion(d, keys) ==
    LET union(r) ==
          IF r.ret # "ok" THEN r
          ELSE IF UNION Range(r.out) = {} THEN Fail(r.db, "not found")
          ELSE Ret(r.db, <<UNION Range(r.out)>>)
    IN union(Sources(d, keys, FALSE))

(* rl_sdiffstore and rl_sinterstore: the target is deleted first. *)
Stored(r, target) ==
    IF r.ret # "ok" THEN Fail(r.db, r.ret) ELSE Sadd(r.db, target, SetToSeq(r.out[1]))
Sdiffstore(d, target, keys) == Stored(Sdiff(DeleteWithValue(d, target).db, keys), target)
Sinterstore(d, target, keys) ==
    LET end(r) == IF r.ret = "aborted" THEN Fail(d, "aborted") ELSE r
    IN end(Stored(Sinter(DeleteWithValue(d, target).db, keys), target))

(* rl_sunionstore: the target is there, empty, while the sources are read. *)
Sunionstore(d, target, keys) ==
    LET put(e, m) == SetPut(e, target, m)
        union(o, key) ==
          CASE o.ret = "not found" -> Ret(o.db, <<>>)
            [] o.ret = "ok" /\ Members(o.db, key) = {} -> Fail(o.db, "not found")
            [] OTHER -> Then(o, LAMBDA e : Ret(FoldLeft(put, e, SetToSeq(Members(e, key))), <<>>))
        add(r, key) ==
          IF r.ret # "ok" THEN r ELSE union(SetObjects(r.db, key, FALSE, FALSE), key)
        made == SetObjects(DeleteWithValue(d, target).db, target, FALSE, TRUE)
        end(e) == LET count == Cardinality(Members(e, target))
                  IN Ret(IF count = 0 THEN DeleteWithValue(e, target).db ELSE e, <<count>>)
    IN Then(FoldLeft(add, made, keys), end)

=============================================================================
