------------------------------ MODULE Strings ------------------------------
(* type_string.c and its commands in hirlite.c: a value is the page of one *)
(* string, which holds at most a page of bytes (MultiString.tla has the    *)
(* longer ones).                                                           *)
EXTENDS Keyspace

CONSTANTS MaxLong,        \* LLONG_MAX; the smallest integer is -MaxLong - 1
          MaxBytes        \* the 512 MB that a string may have
ASSUME StringsAssumption == MaxLong \in Nat \ {0} /\ MaxBytes \in Nat \ {0}

(* rl_string_get_objects *)
StringObjects(d, key) ==
    Then(KeyGet(d, key), LAMBDA e : IF e.keys[key].type = "string" THEN Ret(e, <<>>)
                                    ELSE Fail(e, "wrong type"))
Content(d, key) == d.heap[Value(d, key)]

(* rl_get *)
Get(d, key) == Then(StringObjects(d, key), LAMBDA e : Ret(e, <<Content(e, key)>>))

(* rl_set *)
Set(d, key, s, nx, expires) ==
    LET r == KeyGet(d, key)
        found == r.ret = "ok"
        version == IF found THEN r.db.keys[key].version ELSE Rand(r.db)
        e == IF found THEN DeleteWithValue(r.db, key).db ELSE r.db
    IN IF found /\ nx THEN Fail(r.db, "found")
       ELSE Ret(KeySet(SetString(e, s), key, "string", StringPage(e), expires, version + 1), <<>>)

(* setGenericCommand: after is how long the key lives, 0 for ever. *)
SetGeneric(d, key, s, flags, after) ==
    LET found == KeyGet(d, key).ret = "ok"
    IN IF (flags = "nx" /\ found) \/ (flags = "xx" /\ ~found)
         THEN Fail(KeyGet(d, key).db, "not found")
         ELSE Set(d, key, s, FALSE, IF after = 0 THEN 0 ELSE d.now + after)

(* getsetCommand *)
Getset(d, key, s) ==
    LET r == Get(d, key)
    IN IF r.ret = "wrong type" THEN r ELSE [Set(r.db, key, s, FALSE, 0) EXCEPT !.out = r.out]

(* msetCommand and msetnxCommand; RL_FOUND is a key that is given twice. *)
Mset(d, pairs) ==
    LET set(r, p) == Set(r.db, p[1], p[2], FALSE, 0) IN FoldLeft(set, Ret(d, <<>>), pairs)
Msetnx(d, pairs) ==
    LET look(r, p) == Then(r, LAMBDA e : LET f == KeyGet(e, p[1])
                                         IN IF f.ret = "not found" THEN Ret(f.db, <<>>)
                                            ELSE Fail(f.db, "not found"))
        set(r, p) == Then(r, LAMBDA e : Set(e, p[1], p[2], TRUE, 0))
        looked == FoldLeft(look, Ret(d, <<>>), pairs)
    IN Then(looked, LAMBDA e : [FoldLeft(set, Ret(e, <<>>), pairs) EXCEPT !.out = <<1>>])

-----------------------------------------------------------------------------
(* rl_append: the key no longer expires. *)
AppendTo(d, key, s) ==
    LET r == StringObjects(d, key)
        add(e) ==
          LET page == Value(e, key)
              f == KeySet(e, key, "string", page, 0, e.keys[key].version + 1)
          IN Ret([f EXCEPT !.heap = Put(@, page, @[page] \o s)], <<Len(f.heap[page] \o s)>>)
    IN IF r.ret = "not found"
         THEN Ret(KeySet(SetString(r.db, s), key, "string", StringPage(r.db), 0, Rand(r.db)),
                  <<Len(s)>>)
         ELSE Then(r, add)

(* rl_multi_string_setrange within a page *)
Overwritten(s, offset, t) ==
    LET end == offset + Len(t)
        padded == s \o [i \in 1 .. Max({0, offset - Len(s)}) |-> 0]
    IN IF t = <<>> THEN padded
       ELSE SubSeq(padded, 1, offset) \o t \o SubSeq(s, end + 1, Len(s))

(* rl_setrange: the key expires as it did. *)
Setrange(d, key, offset, s) ==
    LET r == StringObjects(d, key)
        write(e) ==
          LET entry == e.keys[key]
              new == Overwritten(e.heap[entry.value], offset, s)
              f == KeySet(e, key, "string", entry.value, entry.expires, entry.version + 1)
          IN Ret([f EXCEPT !.heap = Put(@, entry.value, new)], <<Len(new)>>)
    IN IF Len(s) + offset > MaxBytes THEN Fail(d, "invalid parameters")
       ELSE IF r.ret = "not found"
         THEN Then(Set(r.db, key, [i \in 1 .. offset |-> 0], FALSE, 0),
                   LAMBDA e : AppendTo(e, key, s))
         ELSE Then(r, write)

(* rl_getrange: rl_normalize_string_range and the bytes between *)
From(start, size) == IF start < 0 THEN Max({start + size, 0}) ELSE Min({start, size})
Slice(s, start, stop) ==
    LET size == Len(s)
        to == Min({IF stop < 0 THEN Max({stop + size, 0}) ELSE stop, size - 1})
    IN SubSeq(s, From(start, size) + 1, to + 1)
Getrange(d, key, start, stop) ==
    Then(Get(d, key), LAMBDA e : Ret(e, <<Slice(Content(e, key), start, stop)>>))

(* rl_setbit, and the bit that it returns; the bits of a byte count from *)
(* its left.                                                             *)
BitOf(s, n) == IF s = <<>> THEN 0 ELSE (s[1] \div (2 ^ (7 - (n % 8)))) % 2
Setbit(d, key, n, on) ==
    LET at == n \div 8
        new(byte) == (IF byte = <<>> THEN 0 ELSE byte[1]) + (on - BitOf(byte, n)) * 2 ^ (7 - (n % 8))
        set(e, byte) == Then(Setrange(e, key, at, <<new(byte)>>),
                             LAMBDA f : Ret(f, <<BitOf(byte, n)>>))
        put(r) == IF r.ret = "wrong type" THEN r
                  ELSE set(r.db, IF r.out = <<>> THEN <<>> ELSE r.out[1])
    IN IF at >= MaxBytes THEN Fail(d, "invalid parameters") ELSE put(Getrange(d, key, at, at))

(* rl_getbit *)
Getbit(d, key, n) ==
    LET r == Getrange(d, key, n \div 8, n \div 8)
    IN OrElse(Then(r, LAMBDA e : Ret(e, <<BitOf(r.out[1], n)>>)), 0)

(* rl_bitcount and rl_bitpos; a clear bit is found behind the last byte if *)
(* the command names no end.                                               *)
BitAt(s, n) == IF n \div 8 < Len(s) THEN BitOf(<<s[(n \div 8) + 1]>>, n) ELSE 0
BitsAt(s, bit) == {n \in 0 .. 8 * Len(s) - 1 : BitAt(s, n) = bit}
Bitcount(d, key, start, stop) ==
    LET r == Getrange(d, key, start, stop)
    IN OrElse(Then(r, LAMBDA e : Ret(e, <<Cardinality(BitsAt(r.out[1], 1))>>)), 0)
Bitpos(d, key, bit, start, stop, endGiven) ==
    LET first(s, at) == IF at # {} THEN Min(at) ELSE IF bit = 0 THEN 8 * Len(s) ELSE -1
        pos(e, s, n) == IF \/ s = <<>> \/ n = -1
                           \/ bit = 0 /\ endGiven /\ n = 8 * Len(s)
                          THEN -1 ELSE n + 8 * From(start, Len(Content(e, key)))
        find(e, s) == Ret(e, <<pos(e, s, first(s, BitsAt(s, bit)))>>)
        within(r) == Then(r, LAMBDA e : find(e, r.out[1]))
    IN OrElse(within(Getrange(d, key, start, stop)), IF bit = 0 THEN 0 ELSE -1)

(* rl_bitop: strings that are too short have bits that are 0. *)
BitOperation(op, strings) ==
    LET first(n) == IF op = "not" THEN 1 - BitAt(Head(strings), n) ELSE BitAt(Head(strings), n)
        combine(bit, other) == CASE op = "and" -> bit * other
                                 [] op = "or" -> Max({bit, other})
                                 [] op = "xor" -> (bit + other) % 2
        bit(n) == FoldLeft(LAMBDA b, s : combine(b, BitAt(s, n)), first(n), Tail(strings))
        byte(k) == MapThenSumSet(LAMBDA j : bit(8 * k + j) * 2 ^ (7 - j), 0 .. 7)
    IN [k \in 1 .. Max({Len(strings[i]) : i \in DOMAIN strings}) |-> byte(k - 1)]
Bitop(d, op, target, keys) ==
    LET read(r, key) ==
          LET one == OrElse(Get(r.db, key), <<>>)
          IN IF r.ret # "ok" THEN r ELSE Then(one, LAMBDA e : Ret(e, r.out \o one.out))
        strings == FoldLeft(read, Ret(d, <<>>), keys)
        result == BitOperation(op, strings.out)
    IN Then(strings, LAMBDA e : [Set(e, target, result, FALSE, 0) EXCEPT !.out = <<Len(result)>>])

(* strlenCommand and mgetCommand: a key of another type has no string. *)
Strlen(d, key) == OrElse(Then(Get(d, key), LAMBDA e : Ret(e, <<Len(Content(e, key))>>)), 0)
Mget(d, keys) ==
    LET read(r, key) == LET one == Get(r.db, key) IN Ret(one.db, <<Append(r.out[1], one.out)>>)
    IN FoldLeft(read, Ret(d, <<<<>>>>), keys)

-----------------------------------------------------------------------------
(* Numbers.  strtoll reads up to a byte that is 0, which ends a string;    *)
(* errno is ERANGE where it reads too many digits.                         *)
Digit == 48 .. 57
Minus == 45
Format(n) ==
    LET digits[k \in Nat] == (IF k < 10 THEN <<>> ELSE digits[k \div 10]) \o <<48 + (k % 10)>>
    IN IF n < 0 THEN <<Minus>> \o digits[-n] ELSE digits[n]
Number(s) ==
    LET ends == {i \in DOMAIN s : s[i] = 0}
        t == IF ends = {} THEN s ELSE SubSeq(s, 1, Min(ends) - 1)
        sign == IF t # <<>> /\ t[1] = Minus THEN -1 ELSE 1
        digits == IF sign = -1 THEN Tail(t) ELSE t
        add(n, c) == 10 * n + c - 48
    IN [valid |-> t = <<>> \/ (digits # <<>> /\ Range(digits) \subseteq Digit),
        value |-> sign * FoldLeft(add, 0, digits)]
InRange(n) == n \in (-MaxLong - 1) .. MaxLong

(* What a string, and an increment, come to.  errno is only ever set. *)
Incremented(d, s, n) ==
    LET add(number) ==
          LET e == [d EXCEPT !.erange = @ \/ (number.valid /\ ~InRange(number.value))]
          IN IF ~number.valid \/ e.erange THEN Fail(e, "not a number")
             ELSE IF ~InRange(number.value + n) THEN Fail(e, "overflow")
             ELSE Ret(e, <<number.value + n>>)
    IN add(Number(s))

(* rl_incr *)
Incr(d, key, n) ==
    LET put(e, i, nx, expires) ==
          IF i.ret # "ok" THEN i
          ELSE [Set(e, key, Format(i.out[1]), nx, expires) EXCEPT !.out = i.out]
        add(e, i) == put(i.db, i, FALSE, e.keys[key].expires)
        incr(r) ==
          IF r.ret = "not found" THEN put(r.db, Ret(r.db, <<n>>), TRUE, 0)
          ELSE Then(r, LAMBDA e : add(e, Incremented(e, Content(e, key), n)))
    IN incr(StringObjects(d, key))

=============================================================================
