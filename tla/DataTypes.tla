----------------------------- MODULE DataTypes -----------------------------
(***************************************************************************)
(* A client's commands on the values of one database: one action for each  *)
(* command of hirlite.c, with the function of type_*.c that it calls.  A   *)
(* command runs alone and what it left is committed, even when it failed   *)
(* (rliteAppendCommandClient); the processes that share a file are the     *)
(* subject of Wal.tla and Transactions.tla.  A command that only reads     *)
(* does what Lookup does, and its reply is that of an operator here.       *)
(***************************************************************************)
EXTENDS Owned

CONSTANTS Keys, Texts, Members_,   \* names of keys, strings, members and fields
          Loads,                   \* a sequence of databases to begin with
          Several,                 \* members or strings, several to a command
          Pairings,                \* keys with strings, for MSET
          Merges,                  \* targets with sources, for the *STORE
          MaxOps, MaxNow           \* bounds of the runs
(* What a client gives to a command, and what is there before the first    *)
ASSUME CommandsAssumption ==
    /\ \A m \in Members_ : m \in Name
    /\ \A members \in Several : members \in Seq(Members_) /\ members # <<>>
    /\ \A pairs \in Pairings : pairs \in Seq(Keys \X Name)
    /\ \A m \in Merges : m[2] \in Seq(Range(m[2])) /\ m[2] # <<>>
ASSUME LoadsAssumption == \A i \in DOMAIN Loads : AtRest(Loads[i])

VARIABLES db,        \* the database of Keyspace.tla
          call,      \* the last command and its reply
          strayed,   \* it did not do what Values.tla promises
          ops        \* how many commands there were

vars == <<db, call, strayed, ops>>

-----------------------------------------------------------------------------
(* The database as its clients see it *)
ValueOf(d, key) ==
    LET value == d.keys[key].value
    IN CASE d.keys[key].type = "string" -> d.heap[value]
         [] d.keys[key].type = "list" -> [i \in DOMAIN value |-> d.heap[value[i]]]
         [] d.keys[key].type = "set" -> DOMAIN value
         [] d.keys[key].type = "hash" -> [f \in DOMAIN value |-> d.heap[value[f].value]]
         [] d.keys[key].type = "zset" -> value.scores
LiveKeys(d) == {key \in DOMAIN d.keys : ~Expired(d, key)}
Seen(d) == [key \in LiveKeys(d) |-> [type |-> d.keys[key].type, value |-> ValueOf(d, key),
                                     expires |-> d.keys[key].expires]]
Type(key) == IF key \in LiveKeys(db) THEN db.keys[key].type ELSE "none"
Content_(key) == ValueOf(db, key)

V == INSTANCE Values WITH values <- Seen(db), now <- db.now

(* Where a command does something else.  A destination of the wrong type   *)
(* is found after the element was taken; a target is deleted before its    *)
(* sources are read; a key is created to have members removed from it, and *)
(* so is the target of an intersection without members; EXPIREAT 0 lets a  *)
(* key live for ever; MSETNX sets a key once and then finds it; errno is   *)
(* that of an earlier command; ranges by score take equal scores for one   *)
(* element, and those by member take scores for equal.                     *)
SameScores(key) ==
    /\ Type(key) = "zset"
    /\ Cardinality(Range(Content_(key))) = 1
DistinctScores(key) ==
    /\ Type(key) = "zset"
    /\ Cardinality(Range(Content_(key))) = Cardinality(DOMAIN Content_(key))
Holds(key, m) == m \in (IF Type(key) = "zset" THEN DOMAIN Content_(key) ELSE Content_(key))
StoreStrays(target, keys, types) ==
    \/ target \in Range(keys)
    \/ \E i \in DOMAIN keys : Type(keys[i]) \notin types \cup {"none"}
InterStrays(keys) ==
    \/ {"set", "zset"} \subseteq {Type(keys[i]) : i \in DOMAIN keys}
    \/ /\ \A i \in DOMAIN keys : Type(keys[i]) \in {"set", "zset"}
       /\ \A m \in Members_ : \E i \in DOMAIN keys : ~Holds(keys[i], m)
Strays(c) ==
    \/ c[1] = "RPOPLPUSH" /\ Type(c[2]) = "list" /\ Type(c[3]) \notin {"list", "none"}
    \/ /\ c[1] = "SMOVE" /\ c[2] # c[3] /\ Type(c[2]) = "set" /\ Type(c[3]) = "set"
       /\ c[4] \in Content_(c[2]) \cap Content_(c[3])
    \/ c[1] = "SETSTORE" /\ (StoreStrays(c[3], c[4], {"set"}) \/ (c[2] = "inter" /\ InterStrays(c[4])))
    \/ c[1] \in {"ZREM", "ZREMRANGE"} /\ Type(c[2]) = "none"
    \/ c[1] = "ZREMRANGE" /\ c[3] = "score" /\ ~DistinctScores(c[2])
    \/ c[1] = "ZREMRANGE" /\ c[3] = "lex" /\ ~SameScores(c[2])
    \/ c[1] = "EXPIRE" /\ c[3] = 0
    \/ c[1] = "MSETNX" /\ \E i, j \in DOMAIN c[2] : i # j /\ c[2][i][1] = c[2][j][1]
    \/ c[1] = "INCR" /\ Type(c[2]) = "string" /\ db.erange
    \/ /\ c[1] = "ZSETSTORE" /\ c[2] = "inter"
       /\ StoreStrays(c[3], c[4], {"set", "zset"}) \/ InterStrays(c[4])
    \/ /\ c[1] = "ZSETSTORE" /\ c[2] = "union"
       /\ StoreStrays(c[3], c[4], {"zset"}) \/ (c[6] # "sum" /\ Range(c[5]) # {1})

-----------------------------------------------------------------------------
(* What is replied to a result: missing where something was not found, an *)
(* error where anything else went wrong                                   *)
Reply(r, kind, missing) ==
    IF r.ret = "ok"
      THEN IF kind = "ok" THEN V!OK ELSE IF r.out = <<>> THEN missing ELSE <<kind, r.out[1]>>
    ELSE IF r.ret = "not found" THEN missing ELSE V!Error

Run(cmd, r, kind, missing) ==
    /\ ~strayed /\ ops < MaxOps
    /\ db' = r.db
    /\ call' = [cmd |-> cmd, reply |-> Reply(r, kind, missing)]
    /\ ops' = ops + 1

(* Strings: setCommand with its options, and the others *)
SetCommand(key, s, flags, after) ==
    Run(<<"SET", key, s, flags, after>>,
        SetGeneric(IF after = 0 THEN db ELSE Argument(db), key, s, flags, after), "ok", V!Nil)
GetsetCommand(key, s) == Run(<<"GETSET", key, s>>, Getset(db, key, s), "bulk", V!Nil)
MsetCommand(pairs) == Run(<<"MSET", pairs>>, Mset(db, pairs), "ok", V!Error)
MsetnxCommand(pairs) == Run(<<"MSETNX", pairs>>, Msetnx(db, pairs), "int", V!Num(0))
AppendCommand(key, s) == Run(<<"APPEND", key, s>>, AppendTo(db, key, s), "int", V!Error)
SetrangeCommand(key, offset, s) ==
    Run(<<"SETRANGE", key, offset, s>>,
        IF offset = 0 /\ s = <<>>
          THEN Then(Get(Argument(db), key), LAMBDA e : Ret(e, <<Len(Content(e, key))>>))
          ELSE Setrange(Argument(db), key, offset, s), "int", V!Num(0))
BitopCommand(op, target, keys) ==
    Run(<<"BITOP", op, target, keys>>, Bitop(db, op, target, keys), "int", V!Error)
SetbitCommand(key, n, on) ==
    Run(<<"SETBIT", key, n, on>>, Setbit(Argument(db), key, n, on), "int", V!Error)
IncrCommand(key) == Run(<<"INCR", key, 1>>, Incr(db, key, 1), "int", V!Error)
IncrbyCommand(key, n) == Run(<<"INCRBY", key, n>>, Incr(Argument(db), key, n), "int", V!Error)

(* Lists: the four of pushGenericCommand, and the others *)
PushGeneric(key, create, left, strings) ==
    Run(<<"PUSH", key, create, left, strings>>, Push(db, key, create, left, strings),
        "int", V!Num(0))
PopGeneric(key, left) == Run(<<"POP", key, left>>, Pop(db, key, left), "bulk", V!Nil)
RpoplpushCommand(source, destination) ==
    Run(<<"RPOPLPUSH", source, destination>>, Rpoplpush(db, source, destination), "bulk", V!Nil)
LinsertCommand(key, after, pivot, s) ==
    Run(<<"LINSERT", key, after, pivot, s>>, Linsert(db, key, after, pivot, s), "int", V!Num(-1))
LremCommand(key, direction, maxcount, s) ==
    Run(<<"LREM", key, direction, maxcount, s>>,
        Lrem(Argument(db), key, direction, maxcount, s), "int", V!Num(0))
LsetCommand(key, index, s) ==
    Run(<<"LSET", key, index, s>>, Lset(Argument(db), key, index, s), "ok", V!Error)
LtrimCommand(key, start, stop) ==
    Run(<<"LTRIM", key, start, stop>>, Ltrim(Argument(db), key, start, stop), "ok", V!Error)

(* Sets: what is missing is not told from other errors. *)
SaddCommand(key, members) == Run(<<"SADD", key, members>>, Sadd(db, key, members), "int", V!Error)
SremCommand(key, members) == Run(<<"SREM", key, members>>, Srem(db, key, members), "int", V!Error)
SmoveCommand(source, destination, m) ==
    Run(<<"SMOVE", source, destination, m>>, Smove(db, source, destination, m), "int", V!Num(0))
SpopCommand(key) == \E r \in Spop(db, key) : Run(<<"SPOP", key>>, r, "bulk", V!Nil)
SOperationStore(op, target, keys) ==
    Run(<<"SETSTORE", op, target, keys>>,
        CASE op = "diff" -> Sdiffstore(db, target, keys)
          [] op = "inter" -> Sinterstore(db, target, keys)
          [] op = "union" -> Sunionstore(db, target, keys), "int", V!Error)

(* Hashes *)
HsetGeneric(key, f, s, update) ==
    Run(<<"HSET", key, f, s, update>>, Hset(db, key, f, s, update), "int", V!Error)
HmsetCommand(key, pairs) == Run(<<"HMSET", key, pairs>>, Hmset(db, key, pairs), "ok", V!Error)
HdelCommand(key, fields) == Run(<<"HDEL", key, fields>>, Hdel(db, key, fields), "int", V!Error)
HincrbyCommand(key, f, n) == Run(<<"HINCRBY", key, f, n>>, Hincrby(db, key, f, n), "int", V!Error)

(* Sorted sets *)
ZaddCommand(key, pairs) == Run(<<"ZADD", key, pairs>>, Zadd(db, key, pairs), "int", V!Error)
ZincrbyCommand(key, n, m) == Run(<<"ZINCRBY", key, n, m>>, Zincrby(db, key, n, m), "int", V!Error)
ZremCommand(key, members) == Run(<<"ZREM", key, members>>, Zrem(db, key, members), "int", V!Error)
ZremrangeCommand(key, kind, range) ==
    Run(<<"ZREMRANGE", key, kind, range>>, Zremrange(db, key, kind, range), "int", V!Error)
ZunionInter(op, target, keys, weights, how) ==
    Run(<<"ZSETSTORE", op, target, keys, weights, how>>,
        IF op = "union" THEN Zunionstore(db, target, keys, weights, how)
        ELSE Zinterstore(db, target, keys, weights, how), "int", V!Error)

(* Keys of any type; expireGenericCommand takes a time. *)
DelCommand(keys) == Run(<<"DEL", keys>>, Del(db, keys), "int", V!Error)
ExpireGeneric(key, at) ==
    Run(<<"EXPIRE", key, at>>, KeyExpires(Argument(db), key, at), "int", V!Num(0))
PersistCommand(key) == Run(<<"PERSIST", key>>, Persist(db, key), "int", V!Num(0))
Lookup(key) == Run(<<"READ", key>>, Ret(KeyGet(db, key).db, <<>>), "nil", V!Nil)

(* The clock, which does not move within a command *)
Tick ==
    /\ db.now < MaxNow /\ ops < MaxOps
    /\ db' = [db EXCEPT !.now = @ + 1]
    /\ UNCHANGED <<call, strayed, ops>>

-----------------------------------------------------------------------------
Bound(m, ex) == [member |-> m, ex |-> ex]
Ranges_ == {<<"rank", <<0, 0>>>>, <<"rank", <<1, -1>>>>, <<"rank", <<-1, -1>>>>}
           \cup {<<"score", [min |-> s[1], max |-> s[2], minex |-> ax, maxex |-> bx]>> :
                   s \in {<<1, 2>>, <<2, 2>>, <<2, 1>>}, ax \in BOOLEAN, bx \in BOOLEAN}
           \cup {<<"lex", <<min, max>>>> :
                   min \in {Bound(AnyMember, FALSE)} \cup {Bound(m, FALSE) : m \in Members_},
                   max \in {Bound(AnyMember, FALSE)} \cup {Bound(m, TRUE) : m \in Members_}}
Init ==
    /\ \E i \in DOMAIN Loads : db = Loads[i]
    /\ call = [cmd |-> <<"READ">>, reply |-> V!Nil]
    /\ strayed = FALSE
    /\ ops = 0

StringStep(key) ==
    \/ \E s \in Texts : \/ \E flags \in {"", "nx", "xx"} : SetCommand(key, s, flags, 0)
                        \/ SetCommand(key, s, "", 1)
                        \/ GetsetCommand(key, s)
                        \/ AppendCommand(key, s)
    \/ \E s \in Texts \cup {<<>>}, offset \in {0, 2, 3} : SetrangeCommand(key, offset, s)
    \/ \E n \in {7, 9}, on \in {0, 1} : SetbitCommand(key, n, on)
    \/ IncrCommand(key)
    \/ \E n \in {-1, MaxLong} : IncrbyCommand(key, n)
ListStep(key) ==
    \/ \E strings \in Several, create, left \in BOOLEAN : PushGeneric(key, create, left, strings)
    \/ \E left \in BOOLEAN : PopGeneric(key, left)
    \/ \E to \in Keys : RpoplpushCommand(key, to)
    \/ \E s \in Members_ : \/ \E after \in BOOLEAN, pivot \in Members_ : LinsertCommand(key, after, pivot, s)
                           \/ \E c \in {<<1, 0>>, <<1, 1>>, <<-1, 1>>} : LremCommand(key, c[1], c[2], s)
                           \/ \E index \in {-1, 1} : LsetCommand(key, index, s)
    \/ \E r \in {<<0, 0>>, <<1, -1>>, <<-1, -1>>} : LtrimCommand(key, r[1], r[2])
SetStep(key) ==
    \/ \E members \in Several : SaddCommand(key, members) \/ SremCommand(key, members)
    \/ \E to \in Keys, m \in Members_ : SmoveCommand(key, to, m)
    \/ SpopCommand(key)
HashStep(key) ==
    \/ \E f \in Members_ : \/ \E s \in Texts, update \in BOOLEAN : HsetGeneric(key, f, s, update)
                           \/ \E n \in {-1, MaxLong} : HincrbyCommand(key, f, n)
    \/ \E fields \in Several : HdelCommand(key, fields)
    \/ \E pairs \in {[i \in DOMAIN m |-> <<m[i], s>>] : m \in Several, s \in Texts} :
         HmsetCommand(key, pairs)
ZsetStep(key) ==
    \/ \E pairs \in {[i \in DOMAIN m |-> <<n + i, m[i]>>] : m \in Several, n \in {1, 2}} :
         ZaddCommand(key, pairs)
    \/ \E members \in Several : ZremCommand(key, members)
    \/ \E n \in {-1, 1}, m \in Members_ : ZincrbyCommand(key, n, m)
    \/ \E r \in Ranges_ : ZremrangeCommand(key, r[1], r[2])
StoreStep ==
    \E m \in Merges :
      \/ \E op \in {"diff", "inter", "union"} : SOperationStore(op, m[1], m[2])
      \/ \E weights \in {[i \in DOMAIN m[2] |-> IF i = 1 THEN n ELSE 1] : n \in {1, 2}},
            op \in {"inter", "union"}, how \in {"sum", "min", "max"} :
           ZunionInter(op, m[1], m[2], weights, how)
      \/ \E op \in {"and", "or", "xor"} : BitopCommand(op, m[1], m[2])
      \/ BitopCommand("not", m[1], <<m[2][1]>>)
KeyStep(key) ==
    \/ \E at \in {0} \cup db.now .. db.now + 1 : ExpireGeneric(key, at)
    \/ PersistCommand(key)
    \/ Lookup(key)
Command ==
    \/ \E key \in Keys : StringStep(key) \/ ListStep(key) \/ SetStep(key) \/ HashStep(key)
                         \/ ZsetStep(key) \/ KeyStep(key)
    \/ \E pairs \in Pairings : MsetCommand(pairs) \/ MsetnxCommand(pairs)
    \/ \E m \in Merges : DelCommand(m[2])
    \/ StoreStep
Next == (Command /\ strayed' = Strays(call'.cmd)) \/ Tick
Spec == Init /\ [][Next]_vars

-----------------------------------------------------------------------------
(* Every string is held by one key, field, member or element, as what it   *)
(* says, and none is held by nothing: no command loses a page, and none    *)
(* leaves one to two owners, whatever it replaces, takes or fails at       *)
(* (rl_key_delete_value and the functions of type_*.c).                    *)
Places(type, value) ==
    CASE type = "string" -> <<value>>
      [] type \in {"list", "set"} -> value
      [] type = "hash" -> [place \in (DOMAIN value) \X {"string", "value"} |->
                             value[place[1]][place[2]]]
      [] type = "zset" -> [i \in DOMAIN value.ranks |-> value.ranks[i].value]
NamesRight(d, key) ==
    LET value == d.keys[key].value
    IN /\ d.heap[d.keys[key].string] = key
       /\ d.keys[key].type = "set" => \A m \in DOMAIN value : d.heap[value[m]] = m
       /\ d.keys[key].type = "hash" => \A f \in DOMAIN value : d.heap[value[f].string] = f
StringsOwned ==
    /\ DOMAIN db.heap = UNION {HeldBy(db.keys[key]) : key \in DOMAIN db.keys}
    /\ \A key \in DOMAIN db.keys :
         LET entry == db.keys[key]
         IN /\ IsInjective(Places(entry.type, entry.value))
            /\ entry.string \notin StringsOf(entry.type, entry.value)
            /\ \A other \in DOMAIN db.keys \ {key} : HeldBy(entry) \cap HeldBy(db.keys[other]) = {}
            /\ NamesRight(db, key)

(* The two structures of a sorted set agree: the skiplist has the members  *)
(* of the tree with their scores, once each, in the order of scores and    *)
(* then of members (type_zset.c: add_member, remove_member).               *)
ScoresAgree ==
    \A key \in {k \in DOMAIN db.keys : db.keys[k].type = "zset"} :
      LET ranks == Ranks(db, key)
          listed == [i \in DOMAIN ranks |-> db.heap[ranks[i].value]]
      IN /\ Range(listed) = DOMAIN Scores(db, key)
         /\ \A i \in DOMAIN ranks : ranks[i].score = Scores(db, key)[listed[i]]
         /\ \A i, j \in DOMAIN ranks : i < j =>
              \/ ranks[i].score < ranks[j].score
              \/ ranks[i].score = ranks[j].score /\ V!Less(listed[i], listed[j])

(* What a client sees of a key changes only with the key's version, which  *)
(* is all that a client that WATCHes the key finds out about it            *)
(* (check_watched_keys).  LREM is the exception: rl_lrem does not ask for  *)
(* a new version.                                                          *)
Version(d, key) == IF key \in LiveKeys(d) THEN d.keys[key].version ELSE 0
VersionsMove ==
    [][\A key \in DOMAIN db.keys \cup DOMAIN db'.keys :
         \/ Version(db', key) # Version(db, key)
         \/ key \notin LiveKeys(db) /\ key \notin LiveKeys(db')
         \/ Type(key)' = Type(key) /\ Seen(db')[key] = Seen(db)[key]
         \/ call'.cmd[1] = "LREM"]_vars

(* Every command does to the values what it promises and replies so, and   *)
(* a key is gone once its time has come, but for what Strays lists.        *)
Implements == V!Spec

(* What reading commands reply, from the structures, is what the values    *)
(* say: the elements of a list and the fields of a hash, a part of a       *)
(* string and its bits, the members of a sorted set at any ranks and in a  *)
(* range by score or member, in either direction, the latter with a LIMIT, *)
(* their count, the rank of a member, and the difference, intersection and *)
(* union of sets; a key of another type is an error.  Left out is where    *)
(* they do not: ranges by score with equal scores, or by member with       *)
(* scores that are not, a LIMIT in reverse that passes the first element   *)
(* of all (it goes on from the last one), the count of a range that no     *)
(* score can be in, and the intersection of sets that have members but     *)
(* none in common: rl_sinter then frees twice what it shrank to nothing,   *)
(* which may end the program and is let pass for the empty answer.         *)
Part(v, start, stop) == SubSeq(v, Max({V!At(v, start), 1}), Min({V!At(v, stop), Len(v)}))
Limits == {<<1, 0, -1>>, <<-1, 0, -1>>, <<1, 1, 1>>, <<-1, 1, 1>>}
Limited(s, limit) ==
    LET t == IF limit[1] > 0 THEN s ELSE Reverse(s)
    IN SubSeq(t, limit[2] + 1, IF limit[3] < 0 THEN Len(t) ELSE Min({limit[2] + limit[3], Len(t)}))
RangeReads(key, v, ordered, kind, range) ==
    LET members == V!MembersIn(v, kind, range)
        expected == SelectSeq(ordered, LAMBDA m : m \in members)
        upTo == CASE kind = "score" -> V!MembersIn(v, kind, [range EXCEPT !.min = -MaxLong])
                  [] kind = "lex" -> V!MembersIn(v, kind, <<Bound(AnyMember, FALSE), range[2]>>)
        wraps(limit) == limit[1] < 0 /\ limit[2] > 0 /\ limit[2] >= Cardinality(upTo)
    IN /\ \A limit \in Limits :
            ~wraps(limit) =>
               Zrange(db, key, kind, range, limit[1], limit[2], limit[3]).out
                 = <<Limited(expected, limit)>>
       /\ (kind = "score" /\ (range.min < range.max \/ ~range.maxex))
            => Zcount(db, key, range).out = <<Len(expected)>>
       /\ (kind = "lex" /\ expected # <<>>)
            => Zlexcount(db, key, range[1], range[2]).out = <<Len(expected)>>
RankReads(key, ordered) ==
    \A start, stop \in -Len(ordered) - 2 .. Len(ordered) + 1, direction \in {1, -1} :
      Zrange(db, key, "rank", <<start, stop>>, direction, 0, -1).out
        = <<Part(IF direction > 0 THEN ordered ELSE Reverse(ordered), start, stop)>>
SetReads(keys) ==
    LET v(i) == IF Type(keys[i]) = "set" THEN Content_(keys[i]) ELSE {}
        diff == Sdiff(db, keys)
        inter == Sinter(db, keys)
        union == Sunion(db, keys)
        common == {m \in v(1) : \A i \in DOMAIN keys : m \in v(i)}
        is(r, s) == IF s = {} THEN r.ret = "not found" ELSE r.out = <<s>>
    IN /\ is(diff, v(1) \ UNION {v(i) : i \in DOMAIN keys \ {1}})
       /\ \/ is(inter, common)
          \/ inter.ret = "aborted" /\ common = {} /\ \A i \in DOMAIN keys : v(i) # {}
       /\ is(union, UNION {v(i) : i \in DOMAIN keys})
StringReads(key, v) ==
    LET position(bit, r, given) ==
          LET part == Part(v, r[1], r[2])
              at == {n \in 0 .. 8 * Len(part) - 1 : V!Bit(part, n) = bit}
              from == 8 * (Max({V!At(v, r[1]), 1}) - 1)
          IN IF at # {} THEN from + Min(at)
             ELSE IF bit = 1 \/ given \/ part = <<>> THEN -1 ELSE from + 8 * Len(part)
    IN /\ Strlen(db, key).out = <<Len(v)>>
       /\ \A start, stop \in -Len(v) .. Len(v) :
            Getrange(db, key, start, stop).out = <<Part(v, start, stop)>>
       /\ \A n \in {5, 7, 30} : Getbit(db, key, n).out = <<V!Bit(v, n)>>
       /\ \A r \in {<<0, -1>>, <<1, -1>>, <<0, 0>>} :
            /\ Bitcount(db, key, r[1], r[2]).out
                 = <<LET part == Part(v, r[1], r[2])
                     IN Cardinality({n \in 0 .. 8 * Len(part) : V!Bit(part, n) = 1})>>
            /\ \A bit \in {0, 1}, given \in BOOLEAN :
                 Bitpos(db, key, bit, r[1], r[2], given).out = <<position(bit, r, given)>>
ListReads(key, v) ==
    /\ Llen(db, key).out = <<Len(v)>>
    /\ \A i \in -Len(v) .. Len(v) - 1 : Lindex(db, key, i).out = <<v[V!At(v, i)]>>
    /\ \A start, stop \in -Len(v) - 1 .. Len(v) :
         Lrange(db, key, start, stop).out = <<Part(v, start, stop)>>
MemberReads(key, v) ==
    /\ Scard(db, key).out = <<Cardinality(v)>>
    /\ Smembers(db, key).out = <<v>>
    /\ \A m \in Members_ : Sismember(db, key, m).out = <<IF m \in v THEN 1 ELSE 0>>
    /\ \A n \in 1 .. 2 : Srandmember(db, key, FALSE, n)
                           = {s \in BoundedSeq(v, n) : /\ Len(s) = Min({n, Cardinality(v)})
                                                      /\ Cardinality(Range(s)) = Len(s)}
HashReads(key, v) ==
    LET field(f) == IF f \in DOMAIN v THEN <<v[f]>> ELSE <<>>
    IN /\ Hlen(db, key).out = <<Cardinality(DOMAIN v)>>
       /\ Hgetall(db, key).out = <<v>>
       /\ \A f \in Members_ : Hget(db, key, f).out = field(f)
       /\ \A s \in Several : Hmget(db, key, s).out = <<[i \in DOMAIN s |-> field(s[i])]>>
ScoreReads(key, v) ==
    LET ordered == V!Ordered(v)
    IN /\ Zcard(db, key).out = <<Cardinality(DOMAIN v)>>
       /\ \A m \in Members_ : Zscore(db, key, m).out = IF m \in DOMAIN v THEN <<v[m]>> ELSE <<>>
       /\ \A m \in DOMAIN v :
            /\ ordered[Zrank(db, key, m, 1).out[1] + 1] = m
            /\ Reverse(ordered)[Zrank(db, key, m, -1).out[1] + 1] = m
       /\ RankReads(key, ordered)
       /\ \A r \in Ranges_ :
            \/ r[1] = "score" /\ DistinctScores(key)
            \/ r[1] = "lex" /\ SameScores(key)
            => RangeReads(key, v, ordered, r[1], r[2])
(* A read finds its own type only. *)
Finds(key) == [string |-> Get(db, key).ret, list |-> Llen(db, key).ret, set |-> Smembers(db, key).ret,
               hash |-> Hgetall(db, key).ret, zset |-> Zcard(db, key).ret]
TypeReads(key) ==
    LET found(type) == CASE Type(key) = "none" -> "not found"
                         [] Type(key) = type -> "ok"
                         [] OTHER -> "wrong type"
        finds == Finds(key)
    IN /\ \A type \in DOMAIN finds : finds[type] = found(type)
       /\ TypeOf(db, key).out = <<Type(key)>>
       /\ Ttl(db, key).out[1] =
            CASE Type(key) = "none" -> -2
              [] db.keys[key].expires = 0 -> -1
              [] OTHER -> db.keys[key].expires - db.now
KeyReads(key) ==
    CASE Type(key) = "string" -> StringReads(key, Content_(key))
      [] Type(key) = "list" -> ListReads(key, Content_(key))
      [] Type(key) = "set" -> MemberReads(key, Content_(key))
      [] Type(key) = "hash" -> HashReads(key, Content_(key))
      [] Type(key) = "zset" -> ScoreReads(key, Content_(key))
ManyReads(keys) ==
    LET one(key) == IF Type(key) = "string" THEN <<Content_(key)>> ELSE <<>>
    IN Mget(db, keys).out = <<[i \in DOMAIN keys |-> one(keys[i])]>>
ReadsAgree ==
    ~strayed =>
      /\ LiveKeys(db) \subseteq AllKeys(db) /\ Cardinality(AllKeys(db)) = Dbsize(db)
      /\ \A key \in LiveKeys(db) : KeyReads(key)
      /\ \A key \in Keys : TypeReads(key)
      /\ \A pairs \in Pairings : ManyReads([i \in DOMAIN pairs |-> pairs[i][1]])
      /\ \A m \in Merges : (\A i \in DOMAIN m[2] : Type(m[2][i]) \in {"set", "none"}) => SetReads(m[2])

=============================================================================
