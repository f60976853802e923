------------------------------- MODULE Values -------------------------------
(***************************************************************************)
(* What the commands on values promise a client, without pages, strings or *)
(* versions: a database maps keys to values, a command changes the values  *)
(* of the keys it names and replies, and a value that is left without      *)
(* elements is gone.  strayed says that a command did something else, as   *)
(* DataTypes.tla lists it; nothing is promised of that step.               *)
(***************************************************************************)
EXTENDS Integers, SequencesExt

CONSTANTS MaxLong, MaxBytes,       \* as in Strings.tla
          AnyMember,               \* no bound, in SortedSets.tla
          Number(_), Format(_)     \* what a string is as an integer, and back
VARIABLES values,    \* for each key that is set [type, value, expires]
          now, call, strayed

(* The values: sequences, sets, and functions from fields and members *)
Has(key) == key \in DOMAIN values
Is(key, type) == Has(key) => values[key].type = type
Empty(type) == IF type = "set" THEN {} ELSE <<>>
Old(key, type) ==
    IF Has(key) /\ values[key].type = type THEN values[key].value ELSE Empty(type)
IsEmpty(type, v) == IF type = "set" THEN v = {} ELSE DOMAIN v = {}
Without(keys) == Restrict(values, DOMAIN values \ keys)

Num(n) == <<"int", n>>
Bulk(s) == <<"bulk", s>>
Nil == <<"nil">>
OK == <<"ok">>
Error == <<"error">>
Replies(reply) == call'.reply = reply
Nothing(reply) == values' = values /\ Replies(reply)

(* A key gets a value, and one of some times to expire. *)
Entry(type, v, expires) == [type |-> type, value |-> v, expires |-> expires]
Puts(key, type, v, times) ==
    IF type # "string" /\ IsEmpty(type, v) THEN values' = Without({key})
    ELSE values' \in {(key :> Entry(type, v, t)) @@ values : t \in times}
(* A change of the value keeps the time it expires or makes it last. *)
Kept(key) == {0} \cup {values[k].expires : k \in {key} \cap DOMAIN values}

(* A command on the value of one key, which is of one type.  missing is    *)
(* the reply where there is no key, or <<>> if that is an empty value.     *)
Updates(key, type, missing, v, reply) ==
    IF ~Is(key, type) THEN Nothing(Error)
    ELSE IF ~Has(key) /\ missing # <<>> THEN Nothing(missing)
    ELSE Puts(key, type, v, Kept(key)) /\ Replies(reply)

-----------------------------------------------------------------------------
(* Strings *)
Overwrite(s, offset, t) ==
    [i \in 1 .. Max({Len(s), offset + Len(t)}) |->
       IF i - offset \in DOMAIN t THEN t[i - offset] ELSE IF i \in DOMAIN s THEN s[i] ELSE 0]
Bit(s, n) == IF n \div 8 < Len(s) THEN (s[n \div 8 + 1] \div 2 ^ (7 - (n % 8))) % 2 ELSE 0
SetBit(s, n, on) ==
    LET bit(i) == IF i = n THEN on ELSE Bit(s, i)
        byte(k) == MapThenSumSet(LAMBDA j : bit(8 * k + j) * 2 ^ (7 - j), 0 .. 7)
    IN [k \in 1 .. Max({Len(s), n \div 8 + 1}) |-> byte(k - 1)]
Pairs(pairs) == [key \in {p[1] : p \in Range(pairs)} |->
                   Entry("string", pairs[Max({i \in DOMAIN pairs : pairs[i][1] = key})][2], 0)]
Sets(key, s, flags, after) ==
    IF (flags = "nx" /\ Has(key)) \/ (flags = "xx" /\ ~Has(key)) THEN Nothing(Nil)
    ELSE Puts(key, "string", s, {IF after = 0 THEN 0 ELSE now + after}) /\ Replies(OK)
Getset(key, s) ==
    IF ~Is(key, "string") THEN Nothing(Error)
    ELSE Puts(key, "string", s, {0}) /\ Replies(IF Has(key) THEN Bulk(values[key].value) ELSE Nil)
Msetnx(pairs) ==
    IF \E p \in Range(pairs) : Has(p[1]) THEN Nothing(Num(0))
    ELSE values' = Pairs(pairs) @@ values /\ Replies(Num(1))
Append_(key, s) ==
    LET v == Old(key, "string") \o s IN Updates(key, "string", <<>>, v, Num(Len(v)))
Setrange(key, offset, s) ==
    LET v == Overwrite(Old(key, "string"), offset, s)
    IN IF offset + Len(s) > MaxBytes THEN Nothing(Error)
       ELSE IF offset = 0 /\ s = <<>> /\ Is(key, "string")
         THEN Nothing(Num(Len(Old(key, "string"))))
       ELSE Updates(key, "string", <<>>, v, Num(Len(v)))
Setbit(key, n, on) ==
    Updates(key, "string", <<>>, SetBit(Old(key, "string"), n, on), Num(Bit(Old(key, "string"), n)))
Bitop(op, target, keys) ==
    LET s(i) == Old(keys[i], "string")
        set(n) == {i \in DOMAIN keys : Bit(s(i), n) = 1}
        bit(n) == CASE op = "and" -> set(n) = DOMAIN keys
                    [] op = "or" -> set(n) # {}
                    [] op = "xor" -> Cardinality(set(n)) \in {1, 3, 5}
                    [] op = "not" -> set(n) = {}
        byte(k) == MapThenSumSet(LAMBDA j : IF bit(8 * k + j) THEN 2 ^ (7 - j) ELSE 0, 0 .. 7)
        size == Max({Len(s(i)) : i \in DOMAIN keys})
    IN IF \E i \in DOMAIN keys : ~Is(keys[i], "string") THEN Nothing(Error)
       ELSE Puts(target, "string", [k \in 1 .. size |-> byte(k - 1)], {0}) /\ Replies(Num(size))
Added(s, n) == Number(s).value + n
MayAdd(s, n) ==
    /\ Number(s).valid
    /\ {Number(s).value, Added(s, n)} \subseteq (-MaxLong - 1) .. MaxLong
Incrby(key, n) ==
    LET s == Old(key, "string")
    IN IF Is(key, "string") /\ ~MayAdd(s, n) THEN Nothing(Error)
       ELSE Updates(key, "string", <<>>, Format(Added(s, n)), Num(Added(s, n)))

(* Lists *)
At(list, i) == IF i < 0 THEN Len(list) + i + 1 ELSE i + 1
Push(key, create, left, strings) ==
    LET v == IF left THEN Reverse(strings) \o Old(key, "list") ELSE Old(key, "list") \o strings
    IN Updates(key, "list", IF create THEN <<>> ELSE Num(0), v, Num(Len(v)))
Pop(key, left) ==
    LET v == Old(key, "list")
    IN Updates(key, "list", Nil, IF left THEN Tail(v) ELSE Front(v),
               Bulk(IF left THEN Head(v) ELSE Last(v)))
Rpoplpush(source, destination) ==
    LET v == values[source].value
        s == Last(v)
        taken == IF Len(v) = 1 THEN Without({source})
                 ELSE [values EXCEPT ![source].value = Front(@)]
        rest == IF destination \in DOMAIN taken THEN taken[destination].value ELSE <<>>
    IN IF ~Is(source, "list") THEN Nothing(Error)
       ELSE IF ~Has(source) THEN Nothing(Nil)
       ELSE /\ values' \in {(destination :> Entry("list", <<s>> \o rest, t)) @@ taken
                              : t \in Kept(destination)}
            /\ Replies(Bulk(s))
Linsert(key, after, pivot, s) ==
    LET v == Old(key, "list")
        at == {i \in DOMAIN v : v[i] = pivot}
        new == InsertAt(v, Min(at) + (IF after THEN 1 ELSE 0), s)
    IN IF Is(key, "list") /\ at = {}
         THEN values' \in {values} \cup {[values EXCEPT ![k].expires = 0] : k \in {key} \cap DOMAIN values}
              /\ Replies(Num(-1))
       ELSE Updates(key, "list", Num(-1), new, Num(Len(v) + 1))
(* LREM removes the first maxcount occurrences in a direction, or all of   *)
(* them.  A list that it or LTRIM leaves empty is gone, and the reply to   *)
(* that is an error.                                                       *)
Lrem(key, direction, maxcount, s) ==
    LET v == Old(key, "list")
        all == {i \in DOMAIN v : v[i] = s}
        nth(i) == Cardinality({j \in all : IF direction > 0 THEN j <= i ELSE j >= i})
        gone == {i \in all : maxcount = 0 \/ nth(i) <= maxcount}
        kept == SetToSortSeq(DOMAIN v \ gone, <)
        new == [i \in DOMAIN kept |-> v[kept[i]]]
    IN Updates(key, "list", Num(0), new, IF new = <<>> THEN Error ELSE Num(Cardinality(gone)))
Lset(key, index, s) ==
    LET v == Old(key, "list")
    IN IF At(v, index) \notin DOMAIN v THEN Nothing(Error)
       ELSE Updates(key, "list", Error, ReplaceAt(v, At(v, index), s), OK)
Ltrim(key, start, stop) ==
    LET v == Old(key, "list")
        new == SubSeq(v, Max({At(v, start), 1}), Min({At(v, stop), Len(v)}))
    IN Updates(key, "list", Error, new, IF new = <<>> THEN Error ELSE OK)

(* Sets *)
Sadd(key, ms) ==
    LET v == Old(key, "set")
    IN Updates(key, "set", <<>>, v \cup ms, Num(Cardinality(ms \ v)))
Srem(key, ms) ==
    LET v == Old(key, "set")
    IN Updates(key, "set", Error, v \ ms, Num(Cardinality(ms \cap v)))
Smove(source, destination, m) ==
    LET from == Old(source, "set")
        to == Old(destination, "set")
        stays == [key \in {source} \cap DOMAIN values |-> Entry("set", from, 0)] @@ values
        left == IF from = {m} THEN Without({source})
                ELSE (source :> Entry("set", from \ {m}, 0)) @@ values
    IN IF ~Is(source, "set") \/ ~Is(destination, "set") THEN Nothing(Error)
       ELSE IF m \notin from THEN values' \in {values, stays} /\ Replies(Num(0))
       ELSE /\ values' = IF source = destination THEN stays
                        ELSE (destination :> Entry("set", to \cup {m}, 0)) @@ left
            /\ Replies(Num(1))
Spop(key) ==
    IF ~Is(key, "set") THEN Nothing(Error) ELSE IF ~Has(key) THEN Nothing(Nil)
    ELSE \E m \in values[key].value :
           Puts(key, "set", values[key].value \ {m}, Kept(key)) /\ Replies(Bulk(m))
(* The value of target becomes v; without elements it is gone, and that is *)
(* replied to as an error or as 0.                                         *)
Stores(target, type, v, size) ==
    /\ Puts(target, type, v, {0})
    /\ IF size = 0 THEN call'.reply \in {Num(0), Error} ELSE Replies(Num(size))
SetStore(op, target, keys) ==
    LET v(i) == Old(keys[i], "set")
        all == {v(i) : i \in DOMAIN keys}
        result == CASE op = "diff" -> v(1) \ UNION {v(i) : i \in DOMAIN keys \ {1}}
                    [] op = "inter" -> {m \in v(1) : \A s \in all : m \in s}
                    [] op = "union" -> UNION all
    IN Stores(target, "set", result, Cardinality(result))

(* Hashes *)
Hset(key, f, s, update) ==
    LET v == Old(key, "hash")
        new == f \notin DOMAIN v
    IN Updates(key, "hash", <<>>, IF new \/ update THEN (f :> s) @@ v ELSE v,
               IF new THEN Num(1) ELSE IF update THEN Num(0) ELSE Error)
Hmset(key, pairs) ==
    LET set(v, p) == (p[1] :> p[2]) @@ v
    IN Updates(key, "hash", <<>>, FoldLeft(set, Old(key, "hash"), pairs), OK)
Hdel(key, fields) ==
    LET v == Old(key, "hash")
    IN Updates(key, "hash", Error, Restrict(v, DOMAIN v \ fields), Num(Cardinality(fields \cap DOMAIN v)))
Hincrby(key, f, n) ==
    LET v == Old(key, "hash")
        s == IF f \in DOMAIN v THEN v[f] ELSE <<>>
    IN IF ~MayAdd(s, n) THEN Updates(key, "hash", <<>>, v, Error)
       ELSE Updates(key, "hash", <<>>, (f :> Format(Added(s, n))) @@ v, Num(Added(s, n)))

(* Sorted sets: their order, and the members in a range *)
Less(s, t) ==
    \/ \E i \in DOMAIN s \cap DOMAIN t : SubSeq(s, 1, i - 1) = SubSeq(t, 1, i - 1) /\ s[i] < t[i]
    \/ Len(s) < Len(t) /\ s = SubSeq(t, 1, Len(s))
Ordered(v) == SetToSortSeq(DOMAIN v, LAMBDA a, b : v[a] < v[b] \/ (v[a] = v[b] /\ Less(a, b)))
AboveMin(m, min) == min.member = AnyMember \/ Less(min.member, m) \/ (m = min.member /\ ~min.ex)
BelowMax(m, max) == max.member = AnyMember \/ Less(m, max.member) \/ (m = max.member /\ ~max.ex)
MembersIn(v, kind, r) ==
    CASE kind = "rank" -> Range(SubSeq(Ordered(v), Max({At(Ordered(v), r[1]), 1}),
                                       Min({At(Ordered(v), r[2]), Cardinality(DOMAIN v)})))
      [] kind = "score" -> {m \in DOMAIN v : /\ IF r.minex THEN v[m] > r.min ELSE v[m] >= r.min
                                            /\ IF r.maxex THEN v[m] < r.max ELSE v[m] <= r.max}
      [] kind = "lex" -> {m \in DOMAIN v : AboveMin(m, r[1]) /\ BelowMax(m, r[2])}

(* ZINCRBY's reply is the increment. *)
Zadd(key, pairs) ==
    LET v == Old(key, "zset")
        add(w, p) == (p[2] :> p[1]) @@ w
        new == {p[2] : p \in Range(pairs)} \ DOMAIN v
    IN Updates(key, "zset", <<>>, FoldLeft(add, v, pairs), Num(Cardinality(new)))
Zincrby(key, n, m) ==
    LET v == Old(key, "zset")
    IN Updates(key, "zset", <<>>, (m :> n + (IF m \in DOMAIN v THEN v[m] ELSE 0)) @@ v, Num(n))
Zrem(key, ms) ==
    LET v == Old(key, "zset")
    IN Updates(key, "zset", Num(0), Restrict(v, DOMAIN v \ ms), Num(Cardinality(ms \cap DOMAIN v)))
(* That no member is in the range is an error, or replied to as 0. *)
Zremrange(key, kind, range) ==
    LET v == Old(key, "zset")
        gone == MembersIn(v, kind, range)
        reply == IF gone # {} THEN {Num(Cardinality(gone))} ELSE {Num(0), Error}
    IN \E r \in reply : Updates(key, "zset", Error, Restrict(v, DOMAIN v \ gone), r)
ZsetStore(op, target, keys, weights, how) ==
    LET v(i) == IF ~Has(keys[i]) THEN <<>>
                ELSE IF values[keys[i]].type = "zset" THEN values[keys[i]].value
                ELSE [m \in values[keys[i]].value |-> 1]
        all == {DOMAIN v(i) : i \in DOMAIN keys}
        members == IF op = "union" THEN UNION all ELSE {m \in UNION all : \A s \in all : m \in s}
        scores(m) == [i \in {j \in DOMAIN keys : m \in DOMAIN v(j)} |-> weights[i] * v(i)[m]]
        score(m) == CASE how = "sum" -> SumFunction(scores(m))
                      [] how = "min" -> Min(Range(scores(m)))
                      [] how = "max" -> Max(Range(scores(m)))
    IN Stores(target, "zset", [m \in members |-> score(m)], Cardinality(members))

(* Keys *)
Del(keys) == values' = Without(keys) /\ Replies(Num(Cardinality(keys \cap DOMAIN values)))
Expire(key, at) ==
    IF ~Has(key) THEN Nothing(Num(0))
    ELSE /\ values' = IF at <= now THEN Without({key}) ELSE [values EXCEPT ![key].expires = at]
         /\ Replies(Num(1))
Persist(key) ==
    IF ~Has(key) THEN Nothing(Num(0))
    ELSE /\ values' = [values EXCEPT ![key].expires = 0]
         /\ Replies(Num(IF values[key].expires = 0 THEN 0 ELSE 1))

-----------------------------------------------------------------------------
Performs(c) ==
    CASE c[1] = "SET" -> Sets(c[2], c[3], c[4], c[5])
      [] c[1] = "GETSET" -> Getset(c[2], c[3])
      [] c[1] = "MSET" -> values' = Pairs(c[2]) @@ values /\ Replies(OK)
      [] c[1] = "MSETNX" -> Msetnx(c[2])
      [] c[1] = "APPEND" -> Append_(c[2], c[3])
      [] c[1] = "SETRANGE" -> Setrange(c[2], c[3], c[4])
      [] c[1] = "SETBIT" -> Setbit(c[2], c[3], c[4])
      [] c[1] = "BITOP" -> Bitop(c[2], c[3], c[4])
      [] c[1] \in {"INCR", "INCRBY"} -> Incrby(c[2], c[3])
      [] c[1] = "PUSH" -> Push(c[2], c[3], c[4], c[5])
      [] c[1] = "POP" -> Pop(c[2], c[3])
      [] c[1] = "RPOPLPUSH" -> Rpoplpush(c[2], c[3])
      [] c[1] = "LINSERT" -> Linsert(c[2], c[3], c[4], c[5])
      [] c[1] = "LREM" -> Lrem(c[2], c[3], c[4], c[5])
      [] c[1] = "LSET" -> Lset(c[2], c[3], c[4])
      [] c[1] = "LTRIM" -> Ltrim(c[2], c[3], c[4])
      [] c[1] = "SADD" -> Sadd(c[2], Range(c[3]))
      [] c[1] = "SREM" -> Srem(c[2], Range(c[3]))
      [] c[1] = "SMOVE" -> Smove(c[2], c[3], c[4])
      [] c[1] = "SPOP" -> Spop(c[2])
      [] c[1] = "SETSTORE" -> SetStore(c[2], c[3], c[4])
      [] c[1] = "HSET" -> Hset(c[2], c[3], c[4], c[5])
      [] c[1] = "HMSET" -> Hmset(c[2], c[3])
      [] c[1] = "HDEL" -> Hdel(c[2], Range(c[3]))
      [] c[1] = "HINCRBY" -> Hincrby(c[2], c[3], c[4])
      [] c[1] = "ZADD" -> Zadd(c[2], c[3])
      [] c[1] = "ZINCRBY" -> Zincrby(c[2], c[3], c[4])
      [] c[1] = "ZREM" -> Zrem(c[2], Range(c[3]))
      [] c[1] = "ZREMRANGE" -> Zremrange(c[2], c[3], c[4])
      [] c[1] = "ZSETSTORE" -> ZsetStore(c[2], c[3], c[4], c[5], c[6])
      [] c[1] = "DEL" -> Del(Range(c[2]))
      [] c[1] = "EXPIRE" -> Expire(c[2], c[3])
      [] c[1] = "PERSIST" -> Persist(c[2])
      [] c[1] = "READ" -> Nothing(Nil)

(* A key is gone from the moment at which it expires. *)
Live(v) == Restrict(v, {key \in DOMAIN v : v[key].expires = 0 \/ v[key].expires > now'})

Init == \A key \in DOMAIN values :
          values[key].type # "string" => ~IsEmpty(values[key].type, values[key].value)
(* The end of a time to live, and no other step without a command, takes a *)
(* value away.                                                             *)
Next ==
    \/ strayed'
    \/ now' = now /\ Performs(call'.cmd)
    \/ now' > now /\ call' = call /\ values' = Live(values)
Spec == [][Next]_<<values, now, call, strayed>>

=============================================================================
