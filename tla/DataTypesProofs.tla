--------------------------- MODULE DataTypesProofs --------------------------
(***************************************************************************)
(* Theorems about DataTypes.tla, for any keys, strings, members and first  *)
(* databases: whatever commands do and in whatever order, every string is  *)
(* held by one key, field, member or element, and the two structures of a  *)
(* sorted set agree.                                                       *)
(*                                                                         *)
(* The invariant is AtRest of Owned.tla.  OwnedProofs has it of every      *)
(* function of type_*.c; here a lemma per command takes it from what the   *)
(* client gives to what the command leaves.                                *)
(***************************************************************************)
EXTENDS DataTypes, OwnedProofs

LEMMA ArgumentRest ==
  ASSUME AtRest(db)
  PROVE  AtRest(Argument(db))
BY ArgumentOwn

-----------------------------------------------------------------------------
(* Strings *)
LEMMA SetCommandRest ==
  ASSUME AtRest(db), NEW key, NEW s, NEW flags, NEW after, SetCommand(key, s, flags, after)
  PROVE  AtRest(db')
<1> DEFINE d == IF after = 0 THEN db ELSE Argument(db)
<1>1. AtRest(d)
  BY ArgumentRest
<1>2. db' = SetGeneric(d, key, s, flags, after).db
  BY DEF SetCommand, Run
<1> HIDE DEF d
<1>3. AtRest(SetGeneric(d, key, s, flags, after).db)
  BY <1>1, SetGenericOwn
<1> QED BY <1>2, <1>3

LEMMA GetsetCommandRest ==
  ASSUME AtRest(db), NEW key, NEW s, GetsetCommand(key, s)
  PROVE  AtRest(db')
<1>1. db' = Getset(db, key, s).db
  BY DEF GetsetCommand, Run
<1> QED BY <1>1, GetsetOwn

LEMMA AppendCommandRest ==
  ASSUME AtRest(db), NEW key, NEW s, AppendCommand(key, s)
  PROVE  AtRest(db')
<1>1. db' = AppendTo(db, key, s).db
  BY DEF AppendCommand, Run
<1> QED BY <1>1, AppendOwn

LEMMA SetrangeCommandRest ==
  ASSUME AtRest(db), NEW key, NEW offset, NEW s, SetrangeCommand(key, offset, s)
  PROVE  AtRest(db')
<1> DEFINE d == Argument(db)
           g == Get(d, key)
           r == Setrange(d, key, offset, s)
<1>1. AtRest(d)
  BY ArgumentRest
<1>2. db' = g.db \/ db' = r.db
  <2>1. db' = (IF offset = 0 /\ s = <<>>
                 THEN Then(g, LAMBDA e : Ret(e, <<Len(Content(e, key))>>)) ELSE r).db
    BY DEF SetrangeCommand, Run
  <2> HIDE DEF g, r
  <2> QED BY <2>1 DEF Then, Ret, Fail
<1> HIDE DEF d
<1>3. AtRest(g.db) /\ AtRest(r.db)
  BY <1>1, GetOwn, SetrangeOwn
<1> HIDE DEF g, r
<1> QED BY <1>2, <1>3

LEMMA SetbitCommandRest ==
  ASSUME AtRest(db), NEW key, NEW n, NEW on, SetbitCommand(key, n, on)
  PROVE  AtRest(db')
<1> DEFINE d == Argument(db)
<1>1. AtRest(d) /\ db' = Setbit(d, key, n, on).db
  BY ArgumentRest DEF SetbitCommand, Run
<1> HIDE DEF d
<1> QED BY <1>1, SetbitOwn

LEMMA IncrCommandRest ==
  ASSUME AtRest(db), NEW key, IncrCommand(key)
  PROVE  AtRest(db')
<1> DEFINE one == 1
<1>1. db' = Incr(db, key, one).db
  BY DEF IncrCommand, Run
<1> HIDE DEF one
<1> QED BY <1>1, IncrOwn

LEMMA IncrbyCommandRest ==
  ASSUME AtRest(db), NEW key, NEW n, IncrbyCommand(key, n)
  PROVE  AtRest(db')
<1> DEFINE d == Argument(db)
<1>1. AtRest(d) /\ db' = Incr(d, key, n).db
  BY ArgumentRest DEF IncrbyCommand, Run
<1> HIDE DEF d
<1> QED BY <1>1, IncrOwn

LEMMA MsetCommandRest ==
  ASSUME AtRest(db), NEW pairs \in Pairings, MsetCommand(pairs)
  PROVE  AtRest(db')
<1>1. db' = Mset(db, pairs).db
  BY DEF MsetCommand, Run
<1> DEFINE n == Len(pairs)
<1>2. n \in Nat /\ DOMAIN pairs = 1 .. n
  BY CommandsAssumption
<1> HIDE DEF n
<1> QED BY <1>1, <1>2, MsetOwn

LEMMA MsetnxCommandRest ==
  ASSUME AtRest(db), NEW pairs \in Pairings, MsetnxCommand(pairs)
  PROVE  AtRest(db')
<1>1. db' = Msetnx(db, pairs).db
  BY DEF MsetnxCommand, Run
<1> DEFINE n == Len(pairs)
<1>2. n \in Nat /\ DOMAIN pairs = 1 .. n
  BY CommandsAssumption
<1> HIDE DEF n
<1> QED BY <1>1, <1>2, MsetnxOwn

LEMMA BitopCommandRest ==
  ASSUME AtRest(db), NEW op, NEW target, NEW n \in Nat, NEW keys, DOMAIN keys = 1 .. n,
         BitopCommand(op, target, keys)
  PROVE  AtRest(db')
<1>1. db' = Bitop(db, op, target, keys).db
  BY DEF BitopCommand, Run
<1> QED BY <1>1, BitopOwn

LEMMA StringStepRest ==
  ASSUME AtRest(db), NEW key, StringStep(key)
  PROVE  AtRest(db')
<1>1. CASE \E s \in Texts, flags \in {"", "nx", "xx"} : SetCommand(key, s, flags, 0)
  <2> DEFINE zero == 0
  <2>1. PICK s, flags : SetCommand(key, s, flags, zero)
    BY <1>1
  <2> HIDE DEF zero
  <2> QED BY <2>1, SetCommandRest
<1>2. CASE \E s \in Texts : SetCommand(key, s, "", 1)
  <2> DEFINE one == 1
             none == ""
  <2>1. PICK s : SetCommand(key, s, none, one)
    BY <1>2
  <2> HIDE DEF one, none
  <2> QED BY <2>1, SetCommandRest
<1>3. CASE \E s \in Texts : GetsetCommand(key, s)
  BY <1>3, GetsetCommandRest
<1>4. CASE \E s \in Texts : AppendCommand(key, s)
  BY <1>4, AppendCommandRest
<1>5. CASE \E s \in Texts \cup {<<>>}, offset \in {0, 2, 3} : SetrangeCommand(key, offset, s)
  BY <1>5, SetrangeCommandRest
<1>6. CASE \E n \in {7, 9}, on \in {0, 1} : SetbitCommand(key, n, on)
  BY <1>6, SetbitCommandRest
<1>7. CASE IncrCommand(key)
  BY <1>7, IncrCommandRest
<1>8. CASE \E n \in {-1, MaxLong} : IncrbyCommand(key, n)
  BY <1>8, IncrbyCommandRest
<1> QED BY <1>1, <1>2, <1>3, <1>4, <1>5, <1>6, <1>7, <1>8 DEF StringStep

-----------------------------------------------------------------------------
(* Lists *)
LEMMA SeveralFacts ==
  ASSUME NEW s \in Several
  PROVE  /\ Len(s) \in Nat \ {0}
         /\ AreNames(s, Len(s))
<1>1. s \in Seq(Members_) /\ s # <<>> /\ \A m \in Members_ : m \in Name
  BY CommandsAssumption
<1>2. Len(s) \in Nat \ {0} /\ DOMAIN s = 1 .. Len(s) /\ \A i \in 1 .. Len(s) : s[i] \in Members_
  BY <1>1
<1> QED BY <1>1, <1>2 DEF AreNames

LEMMA PushGenericRest ==
  ASSUME AtRest(db), NEW key, NEW create, NEW left, NEW s \in Several, PushGeneric(key, create, left, s)
  PROVE  AtRest(db')
<1>1. db' = Push(db, key, create, left, s).db
  BY DEF PushGeneric, Run
<1> DEFINE n == Len(s)
<1>2. n \in Nat \ {0} /\ DOMAIN s = 1 .. n
  BY SeveralFacts DEF AreNames
<1> HIDE DEF n
<1> QED BY <1>1, <1>2, PushOwn

LEMMA PopGenericRest ==
  ASSUME AtRest(db), NEW key, NEW left, PopGeneric(key, left)
  PROVE  AtRest(db')
<1>1. db' = Pop(db, key, left).db
  BY DEF PopGeneric, Run
<1>2. AtRest(Pop(db, key, left).db)
  BY PopOwn
<1> QED BY <1>1, <1>2

LEMMA RpoplpushCommandRest ==
  ASSUME AtRest(db), NEW source, NEW destination, RpoplpushCommand(source, destination)
  PROVE  AtRest(db')
<1>1. db' = Rpoplpush(db, source, destination).db
  BY DEF RpoplpushCommand, Run
<1> QED BY <1>1, RpoplpushOwn

LEMMA LinsertCommandRest ==
  ASSUME AtRest(db), NEW key, NEW after, NEW pivot, NEW s, LinsertCommand(key, after, pivot, s)
  PROVE  AtRest(db')
<1>1. db' = Linsert(db, key, after, pivot, s).db
  BY DEF LinsertCommand, Run
<1> QED BY <1>1, LinsertOwn

LEMMA LremCommandRest ==
  ASSUME AtRest(db), NEW key, NEW direction, NEW maxcount \in Nat, NEW s,
         LremCommand(key, direction, maxcount, s)
  PROVE  AtRest(db')
<1> DEFINE d == Argument(db)
<1>1. AtRest(d) /\ db' = Lrem(d, key, direction, maxcount, s).db
  BY ArgumentRest DEF LremCommand, Run
<1> HIDE DEF d
<1> QED BY <1>1, LremOwn

LEMMA LsetCommandRest ==
  ASSUME AtRest(db), NEW key, NEW index \in Int, NEW s, LsetCommand(key, index, s)
  PROVE  AtRest(db')
<1> DEFINE d == Argument(db)
<1>1. AtRest(d) /\ db' = Lset(d, key, index, s).db
  BY ArgumentRest DEF LsetCommand, Run
<1> HIDE DEF d
<1> QED BY <1>1, LsetOwn

LEMMA LtrimCommandRest ==
  ASSUME AtRest(db), NEW key, NEW start \in Int, NEW stop \in Int, LtrimCommand(key, start, stop)
  PROVE  AtRest(db')
<1> DEFINE d == Argument(db)
<1>1. AtRest(d) /\ db' = Ltrim(d, key, start, stop).db
  BY ArgumentRest DEF LtrimCommand, Run
<1> HIDE DEF d
<1> QED BY <1>1, LtrimOwn

LEMMA ListStepRest ==
  ASSUME AtRest(db), NEW key, ListStep(key)
  PROVE  AtRest(db')
<1>1. CASE \E strings \in Several, create, left \in BOOLEAN : PushGeneric(key, create, left, strings)
  BY <1>1, PushGenericRest
<1>2. CASE \E left \in BOOLEAN : PopGeneric(key, left)
  BY <1>2, PopGenericRest
<1>3. CASE \E to \in Keys : RpoplpushCommand(key, to)
  BY <1>3, RpoplpushCommandRest
<1>4. CASE \E s \in Members_, after \in BOOLEAN, pivot \in Members_ : LinsertCommand(key, after, pivot, s)
  BY <1>4, LinsertCommandRest
<1>5. CASE \E s \in Members_, c \in {<<1, 0>>, <<1, 1>>, <<-1, 1>>} : LremCommand(key, c[1], c[2], s)
  <2>1. PICK s \in Members_, c \in {<<1, 0>>, <<1, 1>>, <<-1, 1>>} : LremCommand(key, c[1], c[2], s)
    BY <1>5
  <2> DEFINE direction == c[1]
             maxcount == c[2]
  <2>2. maxcount \in Nat
    OBVIOUS
  <2>3. LremCommand(key, direction, maxcount, s)
    BY <2>1
  <2> HIDE DEF direction, maxcount
  <2> QED BY <2>2, <2>3, LremCommandRest
<1>6. CASE \E s \in Members_, index \in {-1, 1} : LsetCommand(key, index, s)
  <2>1. PICK s \in Members_, index \in {-1, 1} : LsetCommand(key, index, s)
    BY <1>6
  <2>2. index \in Int
    OBVIOUS
  <2> QED BY <2>1, <2>2, LsetCommandRest
<1>7. CASE \E r \in {<<0, 0>>, <<1, -1>>, <<-1, -1>>} : LtrimCommand(key, r[1], r[2])
  <2>1. PICK r \in {<<0, 0>>, <<1, -1>>, <<-1, -1>>} : LtrimCommand(key, r[1], r[2])
    BY <1>7
  <2> DEFINE start == r[1]
             stop == r[2]
  <2>2. start \in Int /\ stop \in Int
    OBVIOUS
  <2>3. LtrimCommand(key, start, stop)
    BY <2>1
  <2> HIDE DEF start, stop
  <2> QED BY <2>2, <2>3, LtrimCommandRest
<1> QED BY <1>1, <1>2, <1>3, <1>4, <1>5, <1>6, <1>7 DEF ListStep

-----------------------------------------------------------------------------
(* Sets *)
LEMMA SaddCommandRest ==
  ASSUME AtRest(db), NEW key, NEW s \in Several, SaddCommand(key, s)
  PROVE  AtRest(db')
<1>1. db' = Sadd(db, key, s).db
  BY DEF SaddCommand, Run
<1> DEFINE n == Len(s)
<1>2. n \in Nat /\ AreNames(s, n)
  BY SeveralFacts
<1> HIDE DEF n
<1> QED BY <1>1, <1>2, SaddOwn

LEMMA SremCommandRest ==
  ASSUME AtRest(db), NEW key, NEW s \in Several, SremCommand(key, s)
  PROVE  AtRest(db')
<1>1. db' = Srem(db, key, s).db
  BY DEF SremCommand, Run
<1> DEFINE n == Len(s)
<1>2. n \in Nat /\ DOMAIN s = 1 .. n
  BY SeveralFacts DEF AreNames
<1> HIDE DEF n
<1> QED BY <1>1, <1>2, SremOwn

LEMMA SmoveCommandRest ==
  ASSUME AtRest(db), NEW source, NEW destination, NEW m, SmoveCommand(source, destination, m)
  PROVE  AtRest(db')
<1>1. db' = Smove(db, source, destination, m).db
  BY DEF SmoveCommand, Run
<1> QED BY <1>1, SmoveOwn

LEMMA SpopCommandRest ==
  ASSUME AtRest(db), NEW key, SpopCommand(key)
  PROVE  AtRest(db')
<1>1. PICK r \in Spop(db, key) : db' = r.db
  BY DEF SpopCommand, Run
<1> QED BY <1>1, SpopOwn

LEMMA SetStepRest ==
  ASSUME AtRest(db), NEW key, SetStep(key)
  PROVE  AtRest(db')
<1>1. CASE \E members \in Several : SaddCommand(key, members)
  BY <1>1, SaddCommandRest
<1>2. CASE \E members \in Several : SremCommand(key, members)
  BY <1>2, SremCommandRest
<1>3. CASE \E to \in Keys, m \in Members_ : SmoveCommand(key, to, m)
  BY <1>3, SmoveCommandRest
<1>4. CASE SpopCommand(key)
  BY <1>4, SpopCommandRest
<1> QED BY <1>1, <1>2, <1>3, <1>4 DEF SetStep

-----------------------------------------------------------------------------
(* Hashes *)
LEMMA HsetGenericRest ==
  ASSUME AtRest(db), NEW key, NEW f, NEW s, NEW update, HsetGeneric(key, f, s, update)
  PROVE  AtRest(db')
<1>1. db' = Hset(db, key, f, s, update).db
  BY DEF HsetGeneric, Run
<1> QED BY <1>1, HsetOwn

LEMMA HincrbyCommandRest ==
  ASSUME AtRest(db), NEW key, NEW f, NEW n, HincrbyCommand(key, f, n)
  PROVE  AtRest(db')
<1>1. db' = Hincrby(db, key, f, n).db
  BY DEF HincrbyCommand, Run
<1> QED BY <1>1, HincrbyOwn

LEMMA HdelCommandRest ==
  ASSUME AtRest(db), NEW key, NEW s \in Several, HdelCommand(key, s)
  PROVE  AtRest(db')
<1>1. db' = Hdel(db, key, s).db
  BY DEF HdelCommand, Run
<1> DEFINE n == Len(s)
<1>2. n \in Nat /\ DOMAIN s = 1 .. n
  BY SeveralFacts DEF AreNames
<1> HIDE DEF n
<1> QED BY <1>1, <1>2, HdelOwn

LEMMA HmsetCommandRest ==
  ASSUME AtRest(db), NEW key, NEW n \in Nat, NEW pairs, DOMAIN pairs = 1 .. n, HmsetCommand(key, pairs)
  PROVE  AtRest(db')
<1>1. db' = Hmset(db, key, pairs).db
  BY DEF HmsetCommand, Run
<1> QED BY <1>1, HmsetOwn

LEMMA HashStepRest ==
  ASSUME AtRest(db), NEW key, HashStep(key)
  PROVE  AtRest(db')
<1>1. CASE \E f \in Members_, s \in Texts, update \in BOOLEAN : HsetGeneric(key, f, s, update)
  BY <1>1, HsetGenericRest
<1>2. CASE \E f \in Members_, n \in {-1, MaxLong} : HincrbyCommand(key, f, n)
  BY <1>2, HincrbyCommandRest
<1>3. CASE \E fields \in Several : HdelCommand(key, fields)
  BY <1>3, HdelCommandRest
<1>4. CASE \E pairs \in {[i \in DOMAIN m |-> <<m[i], s>>] : m \in Several, s \in Texts} :
             HmsetCommand(key, pairs)
  <2>1. PICK m \in Several, s \in Texts : HmsetCommand(key, [i \in DOMAIN m |-> <<m[i], s>>])
    BY <1>4
  <2> DEFINE n == Len(m)
             pairs == [i \in DOMAIN m |-> <<m[i], s>>]
  <2>2. n \in Nat /\ DOMAIN pairs = 1 .. n
    BY SeveralFacts DEF AreNames
  <2> HIDE DEF n, pairs
  <2>3. HmsetCommand(key, pairs)
    BY <2>1 DEF pairs
  <2> QED BY <2>2, <2>3, HmsetCommandRest
<1> QED BY <1>1, <1>2, <1>3, <1>4 DEF HashStep

-----------------------------------------------------------------------------
(* Sorted sets *)
LEMMA ZaddCommandRest ==
  ASSUME AtRest(db), NEW key, NEW n \in Nat, NEW pairs, ArePairs(pairs, n), ZaddCommand(key, pairs)
  PROVE  AtRest(db')
<1>1. db' = Zadd(db, key, pairs).db
  BY DEF ZaddCommand, Run
<1> QED BY <1>1, ZaddOwn

LEMMA ZremCommandRest ==
  ASSUME AtRest(db), NEW key, NEW s \in Several, ZremCommand(key, s)
  PROVE  AtRest(db')
<1>1. db' = Zrem(db, key, s).db
  BY DEF ZremCommand, Run
<1> DEFINE n == Len(s)
<1>2. n \in Nat /\ DOMAIN s = 1 .. n
  BY SeveralFacts DEF AreNames
<1> HIDE DEF n
<1> QED BY <1>1, <1>2, ZremOwn

LEMMA ZincrbyCommandRest ==
  ASSUME AtRest(db), NEW key, NEW n \in Int, NEW m \in Name, ZincrbyCommand(key, n, m)
  PROVE  AtRest(db')
<1>1. db' = Zincrby(db, key, n, m).db
  BY DEF ZincrbyCommand, Run
<1> QED BY <1>1, ZincrbyOwn

LEMMA ZremrangeCommandRest ==
  ASSUME AtRest(db), NEW key, NEW kind, NEW range, IsRange(kind, range), ZremrangeCommand(key, kind, range)
  PROVE  AtRest(db')
<1>1. db' = Zremrange(db, key, kind, range).db
  BY DEF ZremrangeCommand, Run
<1> QED BY <1>1, ZremrangeOwn

LEMMA RangesAreRanges ==
  ASSUME NEW r \in Ranges_
  PROVE  IsRange(r[1], r[2])
<1>1. CASE r \in {<<"rank", <<0, 0>>>>, <<"rank", <<1, -1>>>>, <<"rank", <<-1, -1>>>>}
  BY <1>1 DEF IsRange, AreRanks
<1>2. CASE r[1] \in {"score", "lex"}
  BY <1>2 DEF IsRange
<1>3. \/ r \in {<<"rank", <<0, 0>>>>, <<"rank", <<1, -1>>>>, <<"rank", <<-1, -1>>>>}
      \/ r[1] \in {"score", "lex"}
  <2> DEFINE RankPairs == {<<"rank", <<0, 0>>>>, <<"rank", <<1, -1>>>>, <<"rank", <<-1, -1>>>>}
             Pairs_ == {<<1, 2>>, <<2, 2>>, <<2, 1>>}
             ScorePairs == {<<"score", [min |-> s[1], max |-> s[2], minex |-> ax, maxex |-> bx]>> :
                              s \in Pairs_, ax \in BOOLEAN, bx \in BOOLEAN}
             Mins == {Bound(AnyMember, FALSE)} \cup {Bound(m, FALSE) : m \in Members_}
             Maxs == {Bound(AnyMember, FALSE)} \cup {Bound(m, TRUE) : m \in Members_}
             LexPairs == {<<"lex", <<min, max>>>> : min \in Mins, max \in Maxs}
  <2>1. Ranges_ = RankPairs \cup ScorePairs \cup LexPairs
    BY DEF Ranges_
  <2> HIDE DEF Pairs_, Mins, Maxs, RankPairs
  <2>2. r \in ScorePairs => r[1] = "score"
    OBVIOUS
  <2>3. r \in LexPairs => r[1] = "lex"
    OBVIOUS
  <2> HIDE DEF ScorePairs, LexPairs
  <2>4. r \in RankPairs \/ r[1] \in {"score", "lex"}
    BY <2>1, <2>2, <2>3
  <2> QED BY <2>4 DEF RankPairs
<1> QED BY <1>1, <1>2, <1>3

LEMMA ZsetStepRest ==
  ASSUME AtRest(db), NEW key, ZsetStep(key)
  PROVE  AtRest(db')
<1>1. CASE \E pairs \in {[i \in DOMAIN m |-> <<n + i, m[i]>>] : m \in Several, n \in {1, 2}} :
             ZaddCommand(key, pairs)
  <2> DEFINE S == {[i \in DOMAIN m |-> <<n + i, m[i]>>] : m \in Several, n \in {1, 2}}
  <2>0. PICK given \in S : ZaddCommand(key, given)
    BY <1>1
  <2>1. PICK m \in Several, k \in {1, 2} : given = [i \in DOMAIN m |-> <<k + i, m[i]>>]
    BY <2>0
  <2> DEFINE n == Len(m)
             pairs == [i \in DOMAIN m |-> <<k + i, m[i]>>]
  <2>2. n \in Nat /\ DOMAIN m = 1 .. n /\ \A i \in 1 .. n : m[i] \in Name
    BY SeveralFacts DEF AreNames
  <2>3. k \in Int
    OBVIOUS
  <2>4. ArePairs(pairs, n)
    <3> HIDE DEF n
    <3> QED BY <2>2, <2>3 DEF ArePairs
  <2> HIDE DEF n, pairs
  <2>5. ZaddCommand(key, pairs)
    BY <2>0, <2>1 DEF pairs
  <2> QED BY <2>2, <2>4, <2>5, ZaddCommandRest
<1>2. CASE \E members \in Several : ZremCommand(key, members)
  BY <1>2, ZremCommandRest
<1>3. CASE \E n \in {-1, 1}, m \in Members_ : ZincrbyCommand(key, n, m)
  <2>1. PICK n \in {-1, 1}, m \in Members_ : ZincrbyCommand(key, n, m)
    BY <1>3
  <2>2. n \in Int /\ m \in Name
    BY CommandsAssumption
  <2> QED BY <2>1, <2>2, ZincrbyCommandRest
<1>4. CASE \E r \in Ranges_ : ZremrangeCommand(key, r[1], r[2])
  <2>1. PICK r \in Ranges_ : ZremrangeCommand(key, r[1], r[2])
    BY <1>4
  <2> DEFINE kind == r[1]
             range == r[2]
  <2>2. IsRange(kind, range) /\ ZremrangeCommand(key, kind, range)
    BY <2>1, RangesAreRanges
  <2> HIDE DEF kind, range
  <2> QED BY <2>2, ZremrangeCommandRest
<1> QED BY <1>1, <1>2, <1>3, <1>4 DEF ZsetStep

-----------------------------------------------------------------------------
(* Commands on several keys, and on keys of any type *)
LEMMA MergesFacts ==
  ASSUME NEW m \in Merges
  PROVE  /\ m[2] \in Seq(Range(m[2])) /\ m[2] # <<>>
         /\ Len(m[2]) \in Nat \ {0}
         /\ DOMAIN m[2] = 1 .. Len(m[2])
<1> DEFINE keys == m[2]
<1>1. keys \in Seq(Range(keys)) /\ keys # <<>>
  BY CommandsAssumption
<1> HIDE DEF keys
<1>2. Len(keys) \in Nat \ {0} /\ DOMAIN keys = 1 .. Len(keys)
  BY <1>1
<1> QED BY <1>1, <1>2 DEF keys

LEMMA SOperationStoreRest ==
  ASSUME AtRest(db), NEW op \in {"diff", "inter", "union"}, NEW target,
         NEW n \in Nat \ {0}, NEW keys, DOMAIN keys = 1 .. n, keys \in Seq(Range(keys)), keys # <<>>,
         SOperationStore(op, target, keys)
  PROVE  AtRest(db')
<1>1. CASE op = "diff"
  <2>1. db' = Sdiffstore(db, target, keys).db
    BY <1>1 DEF SOperationStore, Run
  <2> QED BY <2>1, SdiffstoreOwn
<1>2. CASE op = "inter"
  <2>1. db' = Sinterstore(db, target, keys).db
    BY <1>2 DEF SOperationStore, Run
  <2> QED BY <2>1, SinterstoreOwn
<1>3. CASE op = "union"
  <2>1. db' = Sunionstore(db, target, keys).db
    BY <1>3 DEF SOperationStore, Run
  <2> QED BY <2>1, SunionstoreOwn
<1> QED BY <1>1, <1>2, <1>3

LEMMA ZunionInterRest ==
  ASSUME AtRest(db), NEW op, NEW target, NEW n \in Nat \ {0}, NEW keys, DOMAIN keys = 1 .. n,
         NEW weights, AreWeights(weights, n), NEW how, IsHow(how),
         ZunionInter(op, target, keys, weights, how)
  PROVE  AtRest(db')
<1>1. CASE op = "union"
  <2>1. db' = Zunionstore(db, target, keys, weights, how).db
    BY <1>1 DEF ZunionInter, Run
  <2> QED BY <2>1, ZunionstoreOwn
<1>2. CASE op # "union"
  <2>1. db' = Zinterstore(db, target, keys, weights, how).db
    BY <1>2 DEF ZunionInter, Run
  <2> QED BY <2>1, ZinterstoreOwn
<1> QED BY <1>1, <1>2

LEMMA StoreStepRest ==
  ASSUME AtRest(db), StoreStep
  PROVE  AtRest(db')
<1>1. PICK m \in Merges :
        \/ \E op \in {"diff", "inter", "union"} : SOperationStore(op, m[1], m[2])
        \/ \E weights \in {[i \in DOMAIN m[2] |-> IF i = 1 THEN n ELSE 1] : n \in {1, 2}},
              op \in {"inter", "union"}, how \in {"sum", "min", "max"} :
             ZunionInter(op, m[1], m[2], weights, how)
        \/ \E op \in {"and", "or", "xor"} : BitopCommand(op, m[1], m[2])
        \/ BitopCommand("not", m[1], <<m[2][1]>>)
  BY DEF StoreStep
<1> DEFINE target == m[1]
           keys == m[2]
           n == Len(keys)
<1>2. n \in Nat \ {0} /\ DOMAIN keys = 1 .. n /\ keys \in Seq(Range(keys)) /\ keys # <<>>
  BY MergesFacts
<1>3. CASE \E op \in {"diff", "inter", "union"} : SOperationStore(op, m[1], m[2])
  <2>1. PICK op \in {"diff", "inter", "union"} : SOperationStore(op, target, keys)
    BY <1>3
  <2> HIDE DEF target, keys, n
  <2> QED BY <1>2, <2>1, SOperationStoreRest
<1>4. CASE \E weights \in {[i \in DOMAIN m[2] |-> IF i = 1 THEN k ELSE 1] : k \in {1, 2}},
              op \in {"inter", "union"}, how \in {"sum", "min", "max"} :
             ZunionInter(op, m[1], m[2], weights, how)
  <2>1. PICK weights \in {[i \in DOMAIN m[2] |-> IF i = 1 THEN k ELSE 1] : k \in {1, 2}},
             op \in {"inter", "union"}, how \in {"sum", "min", "max"} :
             ZunionInter(op, target, keys, weights, how)
    BY <1>4
  <2>2. AreWeights(weights, n)
    <3>1. PICK k \in {1, 2} : weights = [i \in DOMAIN m[2] |-> IF i = 1 THEN k ELSE 1]
      OBVIOUS
    <3> QED BY <1>2, <3>1 DEF AreWeights
  <2>3. IsHow(how)
    BY DEF IsHow
  <2> HIDE DEF target, keys, n
  <2>4. ZunionInter(op, target, keys, weights, how)
    BY <2>1
  <2> QED BY <1>2, <2>2, <2>3, <2>4, ZunionInterRest
<1>5. CASE \E op \in {"and", "or", "xor"} : BitopCommand(op, m[1], m[2])
  <2>1. PICK op : BitopCommand(op, target, keys)
    BY <1>5
  <2> HIDE DEF target, keys, n
  <2> QED BY <1>2, <2>1, BitopCommandRest
<1>6. CASE BitopCommand("not", m[1], <<m[2][1]>>)
  <2> DEFINE op == "not"
             one == <<m[2][1]>>
             k == 1
  <2>1. k \in Nat /\ DOMAIN one = 1 .. k /\ BitopCommand(op, target, one)
    BY <1>6
  <2> HIDE DEF op, one, k, target
  <2> QED BY <2>1, BitopCommandRest
<1> QED BY <1>1, <1>3, <1>4, <1>5, <1>6

LEMMA DelCommandRest ==
  ASSUME AtRest(db), NEW m \in Merges, DelCommand(m[2])
  PROVE  AtRest(db')
<1> DEFINE keys == m[2]
           n == Len(keys)
<1>1. db' = Del(db, keys).db
  BY DEF DelCommand, Run
<1>2. n \in Nat /\ DOMAIN keys = 1 .. n
  BY MergesFacts
<1> HIDE DEF keys, n
<1> QED BY <1>1, <1>2, DelOwn

LEMMA KeyStepRest ==
  ASSUME AtRest(db), NEW key, KeyStep(key)
  PROVE  AtRest(db')
<1>1. CASE \E at \in {0} \cup db.now .. db.now + 1 : ExpireGeneric(key, at)
  <2> DEFINE d == Argument(db)
  <2>1. PICK at : db' = KeyExpires(d, key, at).db
    BY <1>1 DEF ExpireGeneric, Run
  <2>2. AtRest(d)
    BY ArgumentRest
  <2> HIDE DEF d
  <2> QED BY <2>1, <2>2, KeyExpiresOwn
<1>2. CASE PersistCommand(key)
  <2>1. db' = Persist(db, key).db
    BY <1>2 DEF PersistCommand, Run
  <2> QED BY <2>1, PersistOwn
<1>3. CASE Lookup(key)
  <2>1. db' = KeyGet(db, key).db
    BY <1>3 DEF Lookup, Run, Ret
  <2>2. AtRest(KeyGet(db, key).db)
    BY KeyGetRest
  <2> QED BY <2>1, <2>2
<1> QED BY <1>1, <1>2, <1>3 DEF KeyStep

LEMMA CommandRest ==
  ASSUME AtRest(db), Command
  PROVE  AtRest(db')
<1>1. CASE \E key \in Keys : StringStep(key) \/ ListStep(key) \/ SetStep(key) \/ HashStep(key)
                             \/ ZsetStep(key) \/ KeyStep(key)
  BY <1>1, StringStepRest, ListStepRest, SetStepRest, HashStepRest, ZsetStepRest, KeyStepRest
<1>2. CASE \E pairs \in Pairings : MsetCommand(pairs) \/ MsetnxCommand(pairs)
  BY <1>2, MsetCommandRest, MsetnxCommandRest
<1>3. CASE \E m \in Merges : DelCommand(m[2])
  BY <1>3, DelCommandRest
<1>4. CASE StoreStep
  BY <1>4, StoreStepRest
<1> QED BY <1>1, <1>2, <1>3, <1>4 DEF Command

(* The clock changes no key and no string. *)
LEMMA TickRest ==
  ASSUME AtRest(db), Tick
  PROVE  AtRest(db')
<1>1. db' = [db EXCEPT !.now = @ + 1] /\ IsDatabase(db)
  BY DEF Tick, AtRest, Own
<1> DEFINE later == db.now + 1
           e == [db EXCEPT !.now = later]
<1>2. db' = e
  BY <1>1
<1> HIDE DEF later
<1>3. IsDatabase(e) /\ e.keys = db.keys /\ e.heap = db.heap
  BY <1>1 DEF IsDatabase
<1> HIDE DEF e
<1> QED BY <1>2, <1>3, SameOwn

(* Between two commands every page is held once, and each value is one of  *)
(* its type that goes with its strings.                                    *)
THEOREM AlwaysAtRest == Spec => []AtRest(db)
<1>1. Init => AtRest(db)
  BY LoadsAssumption DEF Init
<1>2. AtRest(db) /\ [Next]_vars => AtRest(db)'
  <2> SUFFICES ASSUME AtRest(db), [Next]_vars PROVE AtRest(db')
    OBVIOUS
  <2>1. CASE Command
    BY <2>1, CommandRest
  <2>2. CASE Tick
    BY <2>2, TickRest
  <2>3. CASE UNCHANGED vars
    BY <2>3 DEF vars
  <2> QED BY <2>1, <2>2, <2>3 DEF Next
<1> QED BY <1>1, <1>2, PTL DEF Spec

(* There are databases such as LoadsAssumption asks for. *)
LEMMA EmptyAtRest == AtRest(EmptyDb)
<1> DEFINE none == <<>>
<1>1. EmptyDb.heap = none /\ EmptyDb.keys = none /\ IsDatabase(EmptyDb)
  BY DEF EmptyDb, IsDatabase
<1>2. DOMAIN none = {} /\ IsFunction(none)
  BY DEF IsFunction
<1>3. IsFiniteSet(DOMAIN none)
  BY <1>2, FS_EmptySet
<1> HIDE DEF none
<1> QED BY <1>1, <1>2, <1>3 DEF AtRest, Own, IsHeap

(* The nodes of a skiplist have strings of their own. *)
LEMMA RanksApart ==
  ASSUME NEW heap, NEW zset, IsZset(heap, zset),
         NEW i \in DOMAIN zset.ranks, NEW j \in DOMAIN zset.ranks,
         zset.ranks[i].value = zset.ranks[j].value
  PROVE  i = j
<1>1. /\ DOMAIN zset.ranks \subseteq Nat
      /\ \A k \in DOMAIN zset.ranks :
           /\ NameOf(heap, zset.ranks[k]) \in Name
           /\ zset.ranks[k].score \in Int
           /\ zset.scores[NameOf(heap, zset.ranks[k])] = zset.ranks[k].score
      /\ \A k, l \in DOMAIN zset.ranks : k < l => Ahead(heap, zset.ranks[k], zset.ranks[l])
  <2> DEFINE n == Len(zset.ranks)
  <2>1. n \in Nat /\ DOMAIN zset.ranks = 1 .. n
    BY ZsetFacts
  <2>2. \A k \in 1 .. n :
          /\ NameOf(heap, zset.ranks[k]) \in Name
          /\ zset.ranks[k].score \in Int
          /\ zset.scores[NameOf(heap, zset.ranks[k])] = zset.ranks[k].score
    BY ZsetFacts
  <2>3. \A k, l \in 1 .. n : k < l => Ahead(heap, zset.ranks[k], zset.ranks[l])
    BY ZsetFacts
  <2> HIDE DEF n
  <2> QED BY <2>1, <2>2, <2>3
<1>2. ASSUME NEW k \in DOMAIN zset.ranks, NEW l \in DOMAIN zset.ranks, k < l,
             zset.ranks[k].value = zset.ranks[l].value
      PROVE  FALSE
  <2> DEFINE m == NameOf(heap, zset.ranks[k])
             n == NameOf(heap, zset.ranks[l])
             score == zset.ranks[k].score
             other == zset.ranks[l].score
  <2>1. m = n
    BY <1>2 DEF NameOf
  <2>2. m \in Name /\ score = zset.scores[m] /\ other = zset.scores[n] /\ score \in Int
    BY <1>1
  <2>3. Sorts(score, m, other, n)
    BY <1>1, <1>2 DEF Ahead
  <2> HIDE DEF m, n, score, other
  <2>4. score = other
    BY <2>1, <2>2
  <2>5. ~Before(m, m)
    BY <2>2, BeforeStrict
  <2> QED BY <2>1, <2>2, <2>3, <2>4, <2>5 DEF Sorts
<1> QED BY <1>1, <1>2

LEMMA PlacesApart ==
  ASSUME NEW heap, NEW type, NEW value, IsValue(heap, type, value)
  PROVE  IsInjective(Places(type, value))
<1>1. CASE type = "string"
  BY <1>1 DEF Places, IsInjective
<1>2. CASE type = "list"
  BY <1>2 DEF Places, IsValue, IsList
<1>3. CASE type = "set"
  BY <1>3 DEF Places, IsValue, IsSet, IsInjective
<1>4. CASE type = "hash"
  <2> DEFINE at == (DOMAIN value) \X {"string", "value"}
             f == [place \in at |-> value[place[1]][place[2]]]
  <2>1. Places(type, value) = f /\ IsHash(heap, value)
    BY <1>4 DEF Places, IsValue
  <2>2. ASSUME NEW p \in at, NEW q \in at, f[p] = f[q]
        PROVE  p = q
    <3>1. PICK x \in DOMAIN value, s \in {"string", "value"} : p = <<x, s>>
      OBVIOUS
    <3>2. PICK y \in DOMAIN value, t \in {"string", "value"} : q = <<y, t>>
      OBVIOUS
    <3>3. value[x][s] = value[y][t]
      BY <2>2, <3>1, <3>2
    <3>4. CASE s = "string" /\ t = "string"
      BY <2>1, <3>1, <3>2, <3>3, <3>4 DEF IsHash
    <3>5. CASE s = "value" /\ t = "value"
      BY <2>1, <3>1, <3>2, <3>3, <3>5 DEF IsHash
    <3>6. CASE s # t
      BY <2>1, <3>1, <3>2, <3>3, <3>6 DEF IsHash
    <3> QED BY <3>4, <3>5, <3>6
  <2>3. DOMAIN f = at
    OBVIOUS
  <2> HIDE DEF f, at
  <2> QED BY <2>1, <2>2, <2>3 DEF IsInjective
<1>5. CASE type = "zset"
  <2>1. IsZset(heap, value) /\ Places(type, value) = [i \in DOMAIN value.ranks |-> value.ranks[i].value]
    BY <1>5 DEF Places, IsValue
  <2> QED BY <2>1, RanksApart DEF IsInjective
<1> QED BY <1>1, <1>2, <1>3, <1>4, <1>5 DEF IsValue, Types

LEMMA RestOwnsStrings ==
  ASSUME AtRest(db)
  PROVE  StringsOwned
<1>1. /\ \A k \in DOMAIN db.keys : Keeps(db.heap, k, db.keys[k])
      /\ \A k, l \in DOMAIN db.keys : k # l => HeldBy(db.keys[k]) \cap HeldBy(db.keys[l]) = {}
      /\ \A p \in DOMAIN db.heap : \E k \in DOMAIN db.keys : p \in HeldBy(db.keys[k])
  BY DEF AtRest, Own
<1>2. DOMAIN db.heap = UNION {HeldBy(db.keys[key]) : key \in DOMAIN db.keys}
  <2> DEFINE H(k) == HeldBy(db.keys[k])
  <2>1. \A k \in DOMAIN db.keys : H(k) \subseteq DOMAIN db.heap
    BY <1>1 DEF Keeps
  <2>2. \A p \in DOMAIN db.heap : \E k \in DOMAIN db.keys : p \in H(k)
    BY <1>1
  <2> HIDE DEF H
  <2>3. DOMAIN db.heap = UNION {H(k) : k \in DOMAIN db.keys}
    BY <2>1, <2>2
  <2> QED BY <2>3 DEF H
<1>3. ASSUME NEW key \in DOMAIN db.keys
      PROVE  LET entry == db.keys[key]
             IN /\ IsInjective(Places(entry.type, entry.value))
                /\ entry.string \notin StringsOf(entry.type, entry.value)
                /\ \A other \in DOMAIN db.keys \ {key} : HeldBy(entry) \cap HeldBy(db.keys[other]) = {}
                /\ NamesRight(db, key)
  <2> DEFINE entry == db.keys[key]
  <2>1. Keeps(db.heap, key, entry)
    BY <1>1
  <2>2. \A other \in DOMAIN db.keys \ {key} : HeldBy(entry) \cap HeldBy(db.keys[other]) = {}
    BY <1>1, <1>3
  <2>3. IsInjective(Places(entry.type, entry.value))
    BY <2>1, PlacesApart DEF Keeps
  <2>4. NamesRight(db, key)
    BY <2>1 DEF NamesRight, Keeps, IsValue, IsSet, IsHash
  <2> QED BY <2>1, <2>2, <2>3, <2>4 DEF Keeps
<1> QED BY <1>2, <1>3 DEF StringsOwned

(* The order of the skiplist is that of the values that clients see. *)
LEMMA BeforeIsLess ==
  ASSUME NEW s \in Name, NEW t \in Name, Before(s, t)
  PROVE  V!Less(s, t)
<1>1. PICK k : BeforeAt(s, t, k)
  BY BeforeMeans
<1>2. /\ Len(s) \in Nat /\ Len(t) \in Nat
      /\ DOMAIN s = 1 .. Len(s) /\ DOMAIN t = 1 .. Len(t)
      /\ s \in Seq(Nat) /\ t \in Seq(Nat)
  BY DEF Name
<1>3. /\ k \in 1 .. Len(t) /\ k \in 1 .. Len(s) + 1
      /\ \A i \in 1 .. k - 1 : s[i] = t[i]
      /\ k \in 1 .. Len(s) => s[k] < t[k]
  BY <1>1 DEF BeforeAt
<1>4. CASE k \in 1 .. Len(s)
  <2>1. SubSeq(s, 1, k - 1) = SubSeq(t, 1, k - 1)
    <3>1. SubSeq(s, 1, k - 1) = [i \in 1 .. k - 1 |-> s[i]]
      BY <1>2, <1>4
    <3>2. SubSeq(t, 1, k - 1) = [i \in 1 .. k - 1 |-> t[i]]
      BY <1>2, <1>3
    <3> QED BY <1>3, <3>1, <3>2
  <2>2. k \in DOMAIN s \cap DOMAIN t /\ s[k] < t[k]
    BY <1>2, <1>3, <1>4
  <2> QED BY <2>1, <2>2 DEF V!Less
<1>5. CASE k = Len(s) + 1
  <2>1. Len(s) < Len(t)
    BY <1>2, <1>3, <1>5
  <2>2. s = SubSeq(t, 1, Len(s))
    <3>1. SubSeq(t, 1, Len(s)) = [i \in 1 .. Len(s) |-> t[i]]
      BY <1>2, <2>1
    <3>2. s = [i \in 1 .. Len(s) |-> s[i]]
      BY <1>2
    <3>3. \A i \in 1 .. Len(s) : s[i] = t[i]
      BY <1>2, <1>3, <1>5
    <3> QED BY <3>1, <3>2, <3>3
  <2> QED BY <2>1, <2>2 DEF V!Less
<1> QED BY <1>2, <1>3, <1>4, <1>5

LEMMA RestScoresAgree ==
  ASSUME AtRest(db)
  PROVE  ScoresAgree
<1> SUFFICES ASSUME NEW key \in DOMAIN db.keys, db.keys[key].type = "zset"
             PROVE  LET ranks == Ranks(db, key)
                        listed == [i \in DOMAIN ranks |-> db.heap[ranks[i].value]]
                    IN /\ Range(listed) = DOMAIN Scores(db, key)
                       /\ \A i \in DOMAIN ranks : ranks[i].score = Scores(db, key)[listed[i]]
                       /\ \A i, j \in DOMAIN ranks : i < j =>
                            \/ ranks[i].score < ranks[j].score
                            \/ ranks[i].score = ranks[j].score /\ V!Less(listed[i], listed[j])
  BY DEF ScoresAgree
<1> DEFINE zset == db.keys[key].value
           ranks == zset.ranks
           scores == zset.scores
           listed == [i \in DOMAIN ranks |-> db.heap[ranks[i].value]]
<1>1. IsZset(db.heap, zset)
  BY DEF AtRest, Own, Keeps, IsValue
<1>2. Ranks(db, key) = ranks /\ Scores(db, key) = scores
  BY DEF Ranks, Scores, Value
<1>3. \A i \in DOMAIN ranks : listed[i] = NameOf(db.heap, ranks[i])
  BY DEF NameOf
<1>4. DOMAIN listed = DOMAIN ranks
  OBVIOUS
<1> HIDE DEF listed
<1>5. Range(listed) = DOMAIN scores
  <2>1. \A i \in DOMAIN ranks : listed[i] \in DOMAIN scores
    BY <1>1, <1>3, ZsetFacts
  <2>2. \A m \in DOMAIN scores : \E i \in DOMAIN ranks : NameOf(db.heap, ranks[i]) = m
    BY <1>1, ZsetFacts
  <2>3. \A m \in DOMAIN scores : \E i \in DOMAIN ranks : listed[i] = m
    BY <1>3, <2>2
  <2> HIDE DEF ranks, scores
  <2> QED BY <1>4, <2>1, <2>3 DEF Range
<1>6. \A i \in DOMAIN ranks : ranks[i].score = scores[listed[i]] /\ listed[i] \in Name
  BY <1>1, <1>3, ZsetFacts
<1>7. ASSUME NEW i \in DOMAIN ranks, NEW j \in DOMAIN ranks, i < j
      PROVE  \/ ranks[i].score < ranks[j].score
             \/ ranks[i].score = ranks[j].score /\ V!Less(listed[i], listed[j])
  <2>1. Ahead(db.heap, ranks[i], ranks[j])
    BY <1>1, <1>7, ZsetFacts
  <2>2. Sorts(ranks[i].score, listed[i], ranks[j].score, listed[j])
    BY <1>3, <2>1 DEF Ahead
  <2> QED BY <1>6, <2>2, BeforeIsLess DEF Sorts
<1> HIDE DEF ranks, scores
<1>8. LET given == [i \in DOMAIN ranks |-> db.heap[ranks[i].value]]
      IN /\ Range(given) = DOMAIN scores
         /\ \A i \in DOMAIN ranks : ranks[i].score = scores[given[i]]
         /\ \A i, j \in DOMAIN ranks : i < j =>
              \/ ranks[i].score < ranks[j].score
              \/ ranks[i].score = ranks[j].score /\ V!Less(given[i], given[j])
  <2>1. listed = [i \in DOMAIN ranks |-> db.heap[ranks[i].value]]
    BY DEF listed
  <2> QED BY <1>5, <1>6, <1>7, <2>1
<1> QED BY <1>2, <1>8

(* No command loses a string of a key, a member, a field, a value or an    *)
(* element, and none leaves one to two owners or to the wrong one: what    *)
(* rl_key_delete_value and the functions of type_*.c promise together.     *)
THEOREM AlwaysStringsOwned == Spec => []StringsOwned
<1>1. AtRest(db) => StringsOwned
  BY RestOwnsStrings
<1> QED BY <1>1, AlwaysAtRest, PTL

(* The tree and the skiplist of every sorted set agree: the same members   *)
(* with the same scores, in order (add_member and remove_member of         *)
(* type_zset.c, and all that calls them).                                  *)
THEOREM AlwaysScoresAgree == Spec => []ScoresAgree
<1>1. AtRest(db) => ScoresAgree
  BY RestScoresAgree
<1> QED BY <1>1, AlwaysAtRest, PTL
=============================================================================
