------------------------------ MODULE Keyspace ------------------------------
(***************************************************************************)
(* page_key.c: the keys of one database and the strings that keys and      *)
(* values are made of.  A database is a record d:                          *)
(*   keys    the tree of keys: for each key that is set its rl_key         *)
(*   heap    the strings of page_multi_string.c by their page              *)
(*   now     the clock, as rl_mstime reads it                              *)
(*   given   the highest version that was ever given to a key              *)
(*   erange  errno is ERANGE: it is kept from one command to the next      *)
(* The tree, or trees, and the lists that hold a value are what they hold  *)
(* (BTree.tla, PageList.tla, Skiplist.tla); a string is found by its page. *)
(* An element of a tree is found by the SHA-1 of a string, which is taken  *)
(* to be the string.                                                       *)
(***************************************************************************)
EXTENDS Integers, SequencesExt

EmptyDb == [keys |-> <<>>, heap |-> <<>>, now |-> 1, given |-> 0, erange |-> FALSE]

(* What a function leaves, returns and yields: out holds at most one value. *)
Ret(d, out) == [db |-> d, ret |-> "ok", out |-> out]
Fail(d, ret) == [db |-> d, ret |-> ret, out |-> <<>>]
Then(r, Continue(_)) == IF r.ret = "ok" THEN Continue(r.db) ELSE Fail(r.db, r.ret)
OrElse(r, out) == IF r.ret = "not found" THEN Ret(r.db, <<out>>) ELSE r

(* A function with y for x, which may be new to it *)
Put(f, x, y) == [z \in DOMAIN f \cup {x} |-> IF z = x THEN y ELSE f[z]]

-----------------------------------------------------------------------------
(* rl_multi_string_set, with the page that it takes, and _delete *)
StringPage(d) == Min((1 .. Cardinality(DOMAIN d.heap) + 1) \ DOMAIN d.heap)
SetString(d, s) == [d EXCEPT !.heap = Put(@, StringPage(d), s)]
DeleteStrings(d, pages) == [d EXCEPT !.heap = Restrict(@, DOMAIN @ \ pages)]

(* The strings that a value holds, as each type's delete finds them: a     *)
(* sorted set's are those of its skiplist, its tree has no strings.        *)
ListStrings(list) == Range(list)
SetStrings(set) == Range(set)
HashStrings(hash) == UNION {{hash[f].string, hash[f].value} : f \in DOMAIN hash}
ZsetStrings(zset) == {zset.ranks[i].value : i \in DOMAIN zset.ranks}
StringsOf(type, value) ==
    CASE type = "string" -> {value}
      [] type = "list" -> ListStrings(value)
      [] type = "set" -> SetStrings(value)
      [] type = "hash" -> HashStrings(value)
      [] type = "zset" -> ZsetStrings(value)
HeldBy(entry) == {entry.string} \cup StringsOf(entry.type, entry.value)

(* rl_key_delete: the key and its name, not its value *)
KeyDelete(d, key) ==
    IF key \in DOMAIN d.keys
      THEN [DeleteStrings(d, {d.keys[key].string}) EXCEPT
              !.keys = Restrict(@, DOMAIN @ \ {key})]
      ELSE d

(* rl_key_set: the key is deleted and added, its name too *)
KeySet(d, key, type, value, expires, version) ==
    LET given == IF version = 0 THEN 1 ELSE version
        new(e) == [type |-> type, string |-> StringPage(e), value |-> value,
                   expires |-> expires, version |-> given]
        add(e) == [SetString(e, key) EXCEPT !.keys = Put(@, key, new(e)),
                                            !.given = Max({@, given})]
    IN add(KeyDelete(d, key))

(* rand(), for the version of a new key: no version that was given before *)
Rand(d) == d.given + 1

(* Mutant: a key still lives at the time at which it expires. *)
ExpiredLate(d, key) == d.keys[key].expires # 0 /\ d.keys[key].expires < d.now
(* rl_key_delete_with_value, which tells whether the key had expired *)
Expired(d, key) == d.keys[key].expires # 0 /\ d.keys[key].expires <= d.now
DeleteWithValue(d, key) ==
    LET entry == d.keys[key]
    IN IF key \notin DOMAIN d.keys THEN Fail(d, "not found")
       ELSE [db |-> KeyDelete(DeleteStrings(d, StringsOf(entry.type, entry.value)), key),
             ret |-> IF Expired(d, key) THEN "not found" ELSE "ok", out |-> <<>>]

(* rl_key_get: a key that has expired is deleted when it is looked up *)
KeyGet(d, key) ==
    IF key \notin DOMAIN d.keys THEN Fail(d, "not found")
    ELSE IF Expired(d, key) THEN Fail(DeleteWithValue(d, key).db, "not found")
    ELSE Ret(d, <<d.keys[key].value>>)

Value(d, key) == d.keys[key].value
SetValue(d, key, value) == [d EXCEPT !.keys[key].value = value]

(* What rl_list_create and the like write for a new key *)
EmptyValue(type) == IF type = "zset" THEN [scores |-> <<>>, ranks |-> <<>>] ELSE <<>>

(* rl_key_get_or_create *)
GetOrCreate(d, key, type) ==
    LET create(r) ==
          IF r.ret = "not found"
            THEN Ret(KeySet(r.db, key, type, EmptyValue(type), 0, Rand(r.db)), <<>>)
          ELSE IF d.keys[key].type # type THEN Fail(d, "wrong type")
          ELSE r
    IN create(KeyGet(d, key))

(* Mutant: an update keeps the version. *)
ObjectsUnversioned(d, key, type, update, create, expires) ==
    LET objects(e) ==
          LET entry == e.keys[key]
          IN IF entry.type # type THEN Fail(e, "wrong type")
             ELSE IF ~update THEN Ret(e, <<>>)
             ELSE Ret(KeySet(e, key, type, entry.value, expires, entry.version), <<>>)
    IN Then(IF create THEN GetOrCreate(d, key, type) ELSE KeyGet(d, key), objects)
(* What rl_*_get_objects of the four aggregates have in common.  expires is *)
(* what they set the key's expiry to when they update its version.          *)
Objects(d, key, type, update, create, expires) ==
    LET created == key \notin DOMAIN d.keys \/ Expired(d, key)
        objects(e) ==
          LET entry == e.keys[key]
          IN IF entry.type # type THEN Fail(e, "wrong type")
             ELSE IF ~update \/ created THEN Ret(e, <<>>)
             ELSE Ret(KeySet(e, key, type, entry.value, expires, entry.version + 1), <<>>)
    IN Then(IF create THEN GetOrCreate(d, key, type) ELSE KeyGet(d, key), objects)

(* The expiry that a function has that read the entry with rl_key_get,     *)
(* which rl_key_get_or_create does not return                              *)
ExpiresOf(d, key, create) ==
    IF create \/ key \notin DOMAIN d.keys THEN 0 ELSE d.keys[key].expires

(* getLongLongFromObject, getDoubleFromObject: a command that has a number *)
(* among its arguments clears errno.                                       *)
Argument(d) == [d EXCEPT !.erange = FALSE]

-----------------------------------------------------------------------------
(* rl_key_expires and persistCommand *)
KeyExpires(d, key, expires) ==
    Then(KeyGet(d, key),
         LAMBDA e : LET entry == e.keys[key]
                    IN Ret(KeySet(e, key, entry.type, entry.value, expires, entry.version + 1),
                           <<1>>))
Persist(d, key) ==
    Then(KeyGet(d, key),
         LAMBDA e : IF e.keys[key].expires = 0 THEN Ret(e, <<0>>) ELSE KeyExpires(e, key, 0))

(* delCommand *)
Del(d, keys) ==
    LET delete(r, key) ==
          LET one == DeleteWithValue(r.db, key)
          IN Ret(one.db, IF one.ret = "ok" THEN <<r.out[1] + 1>> ELSE r.out)
    IN FoldLeft(delete, Ret(d, <<0>>), keys)

(* ttlGenericCommand and typeCommand *)
Ttl(d, key) ==
    OrElse(Then(KeyGet(d, key),
                LAMBDA e : LET at == e.keys[key].expires
                           IN Ret(e, <<IF at = 0 THEN -1 ELSE at - e.now>>)), -2)
TypeOf(d, key) == OrElse(Then(KeyGet(d, key), LAMBDA e : Ret(e, <<e.keys[key].type>>)), "none")

(* rl_keys for KEYS * and rl_dbsize look at no key's expiry.  A random key *)
(* is any of them; matching a pattern is left out.                         *)
AllKeys(d) == {d.heap[d.keys[key].string] : key \in DOMAIN d.keys}
Dbsize(d) == Cardinality(DOMAIN d.keys)

=============================================================================
