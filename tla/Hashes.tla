------------------------------- MODULE Hashes -------------------------------
(* type_hash.c and its commands in hirlite.c: a value has for each field   *)
(* the pages of the field's string and of its value's.                     *)
EXTENDS Strings

(* rl_hash_get_objects *)
HashObjects(d, key, update, create) ==
    Objects(d, key, "hash", update, create, ExpiresOf(d, key, create))
Fields(d, key) == DOMAIN Value(d, key)
FieldValue(d, key, f) == d.heap[Value(d, key)[f].value]

(* Two new strings for a field; a new string for its value only *)
FieldSet(d, key, f, s) ==
    LET e == SetString(d, f)
        entry == [string |-> StringPage(d), value |-> StringPage(e)]
    IN SetValue(SetString(e, s), key, Put(Value(d, key), f, entry))
(* Mutant: the string that the value had is left where it is. *)
FieldUpdateKeeps(d, key, f, s) ==
    LET entry == [Value(d, key)[f] EXCEPT !.value = StringPage(d)]
    IN SetValue(SetString(d, s), key, Put(Value(d, key), f, entry))
FieldUpdate(d, key, f, s) ==
    LET entry == Value(d, key)[f]
        e == DeleteStrings(d, {entry.value})
    IN SetValue(SetString(e, s), key, Put(Value(e, key), f, [entry EXCEPT !.value = StringPage(e)]))
FieldDelete(d, key, f) ==
    LET e == DeleteStrings(d, {Value(d, key)[f].string, Value(d, key)[f].value})
        left == Fields(d, key) \ {f}
    IN IF left = {} THEN KeyDelete(e, key) ELSE SetValue(e, key, Restrict(Value(d, key), left))

(* rl_hset, for HSET and, without update, HSETNX *)
Hset(d, key, f, s, update) ==
    LET set(e) ==
          LET old == Value(e, key)[f]
          IN IF f \notin Fields(e, key) THEN Ret(FieldSet(e, key, f, s), <<1>>)
             ELSE IF ~update THEN Fail(e, "found")
             ELSE Ret(FieldSet(DeleteStrings(e, {old.string, old.value}), key, f, s), <<0>>)
    IN Then(HashObjects(d, key, TRUE, TRUE), set)

(* rl_hmset *)
Hmset(d, key, pairs) ==
    LET set(e, p) == IF p[1] \in Fields(e, key) THEN FieldUpdate(e, key, p[1], p[2])
                     ELSE FieldSet(e, key, p[1], p[2])
    IN Then(HashObjects(d, key, TRUE, TRUE), LAMBDA e : Ret(FoldLeft(set, e, pairs), <<>>))

(* rl_hdel *)
Hdel(d, key, fields) ==
    LET delete(e, f) ==
          IF key \in DOMAIN e.keys /\ f \in Fields(e, key) THEN FieldDelete(e, key, f) ELSE e
    IN Then(HashObjects(d, key, TRUE, FALSE),
            LAMBDA e : Ret(FoldLeft(delete, e, fields),
                           <<Cardinality(Range(fields) \cap Fields(e, key))>>))

(* rl_hincrby *)
Hincrby(d, key, f, n) ==
    LET add(e) ==
          LET i == Incremented(e, FieldValue(e, key, f), n)
          IN IF f \notin Fields(e, key) THEN Ret(FieldSet(e, key, f, Format(n)), <<n>>)
             ELSE Then(i, LAMBDA g : Ret(FieldUpdate(g, key, f, Format(i.out[1])), i.out))
    IN Then(HashObjects(Argument(d), key, TRUE, TRUE), add)

(* rl_hget, which is HEXISTS too, rl_hgetall and rl_hlen *)
Hget(d, key, f) ==
    Then(HashObjects(d, key, FALSE, FALSE),
         LAMBDA e : IF f \in Fields(e, key) THEN Ret(e, <<FieldValue(e, key, f)>>)
                    ELSE Fail(e, "not found"))
Hgetall(d, key) ==
    Then(HashObjects(d, key, FALSE, FALSE),
         LAMBDA e : Ret(e, <<[f \in Fields(e, key) |-> FieldValue(e, key, f)]>>))
Hlen(d, key) ==
    OrElse(Then(HashObjects(d, key, FALSE, FALSE),
                LAMBDA e : Ret(e, <<Cardinality(Fields(e, key))>>)), 0)

(* rl_hmget, with nothing for a field that is missing *)
Hmget(d, key, fields) ==
    LET read(e, f) == IF f \in Fields(e, key) THEN <<FieldValue(e, key, f)>> ELSE <<>>
    IN Then(HashObjects(d, key, FALSE, FALSE),
            LAMBDA e : Ret(e, <<[i \in DOMAIN fields |-> read(e, fields[i])]>>))

=============================================================================
