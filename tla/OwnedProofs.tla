---------------------------- MODULE OwnedProofs -----------------------------
(***************************************************************************)
(* What every function of Keyspace.tla, Strings.tla, Lists.tla, Sets.tla,  *)
(* Hashes.tla and SortedSets.tla leaves of a database in which every       *)
(* string is held once, for any keys, strings, members and scores.         *)
(*                                                                         *)
(* A function of type_*.c takes several steps: it makes strings, deletes   *)
(* others, and only then writes the value that holds them.  Own says of    *)
(* each step's database which strings are loose, and a lemma on each step  *)
(* says how that set changes; at a function's end it is empty: AtRest.  A  *)
(* loop is an instance of Loops.tla, whose invariant is AtRest with what   *)
(* the loop knows of its target and its sources.                           *)
(***************************************************************************)
EXTENDS Owned, Induction, FiniteSetTheorems, SequenceTheorems, TLAPS

-----------------------------------------------------------------------------
(* Functions that are the same on a set, databases that differ in one key *)
Agree(g, f, S) == \A x \in S : g[x] = f[x]
Others(d, e, key) ==
    /\ DOMAIN e.keys \ {key} = DOMAIN d.keys \ {key}
    /\ \A k \in DOMAIN d.keys \ {key} : e.keys[k] = d.keys[k]

LEMMA PutDomain ==
  ASSUME NEW f, NEW x, NEW y
  PROVE  IsFunction(Put(f, x, y)) /\ DOMAIN Put(f, x, y) = DOMAIN f \cup {x}
BY DEF Put, IsFunction

LEMMA PutFacts ==
  ASSUME NEW f, NEW x, NEW y
  PROVE  /\ Put(f, x, y)[x] = y
         /\ \A z \in DOMAIN f \ {x} : Put(f, x, y)[z] = f[z]
BY DEF Put, IsFunction

LEMMA RestrictFacts ==
  ASSUME NEW f, NEW S
  PROVE  /\ IsFunction(Restrict(f, S))
         /\ DOMAIN Restrict(f, S) = S
         /\ \A x \in S : Restrict(f, S)[x] = f[x]
BY DEF Restrict, IsFunction

LEMMA LeastFacts ==
  ASSUME NEW S \in SUBSET Nat, S # {}
  PROVE  Min(S) \in S /\ \A x \in S : Min(S) <= x
<1>1. PICK n \in S : \A m \in S : n <= m
  BY LeastNatural
<1> QED BY <1>1 DEF Min

(* A new string has a page of its own. *)
LEMMA StringPageFacts ==
  ASSUME NEW d, IsHeap(d.heap)
  PROVE  StringPage(d) \in Nat \ DOMAIN d.heap
<1> DEFINE n == Cardinality(DOMAIN d.heap)
           S == (1 .. n + 1) \ DOMAIN d.heap
<1>1. n \in Nat
  BY FS_CardinalityType DEF IsHeap
<1>2. IsFiniteSet(1 .. n + 1) /\ Cardinality(1 .. n + 1) = n + 1
  BY <1>1, FS_Interval
<1>3. S # {}
  <2>1. SUFFICES ASSUME 1 .. n + 1 \subseteq DOMAIN d.heap PROVE FALSE
    OBVIOUS
  <2>2. Cardinality(1 .. n + 1) <= n
    BY <2>1, FS_Subset DEF IsHeap
  <2> QED BY <1>1, <1>2, <2>2
<1>4. S \in SUBSET Nat
  BY <1>1
<1>5. Min(S) \in S
  BY <1>3, <1>4, LeastFacts
<1> QED BY <1>1, <1>5 DEF StringPage

LEMMA ValueKept ==
  ASSUME NEW heap, NEW new, NEW type, NEW value, IsValue(heap, type, value),
         \A p \in StringsOf(type, value) : new[p] = heap[p]
  PROVE  IsValue(new, type, value)
<1>1. CASE type = "string"
  BY <1>1 DEF IsValue
<1>2. CASE type = "list"
  BY <1>2 DEF IsValue
<1>3. CASE type = "set"
  <2>1. \A m \in DOMAIN value : value[m] \in StringsOf(type, value)
    BY <1>3 DEF StringsOf, SetStrings, Range
  <2> QED BY <1>3, <2>1 DEF IsValue, IsSet
<1>4. CASE type = "hash"
  <2>1. \A f \in DOMAIN value : value[f].string \in StringsOf(type, value)
    BY <1>4 DEF StringsOf, HashStrings
  <2> QED BY <1>4, <2>1 DEF IsValue, IsHash
<1>5. CASE type = "zset"
  <2>1. \A i \in DOMAIN value.ranks : value.ranks[i].value \in StringsOf(type, value)
    BY <1>5 DEF StringsOf, ZsetStrings
  <2>2. \A i \in DOMAIN value.ranks : new[value.ranks[i].value] = heap[value.ranks[i].value]
    BY <2>1
  <2> QED BY <1>5, <2>2 DEF IsValue, IsZset
<1> QED BY <1>1, <1>2, <1>3, <1>4, <1>5 DEF IsValue, Types

(* e differs from d in one key and in pages that no other key holds *)
Changes(d, bare, e, key, left, empty) ==
    /\ IsDatabase(e)
    /\ IsHeap(e.heap)
    /\ IsFunction(e.keys)
    /\ DOMAIN e.keys \ {key} = DOMAIN d.keys \ {key}
    /\ \A k \in DOMAIN d.keys \ {key} :
         /\ e.keys[k] = d.keys[k]
         /\ \A p \in HeldBy(d.keys[k]) :
              p \in DOMAIN e.heap /\ e.heap[p] = d.heap[p] /\ p \notin left
    /\ key \in DOMAIN e.keys =>
         /\ Keeps(e.heap, key, e.keys[key])
         /\ e.keys[key].type = "list" /\ e.keys[key].value = <<>> => key \in empty
         /\ HeldBy(e.keys[key]) \cap left = {}
         /\ \A k \in DOMAIN d.keys \ {key} : HeldBy(e.keys[key]) \cap HeldBy(d.keys[k]) = {}
    /\ bare \ {key} \subseteq empty
    /\ left \subseteq DOMAIN e.heap
    /\ \A p \in DOMAIN e.heap :
         \/ p \in left
         \/ key \in DOMAIN e.keys /\ p \in HeldBy(e.keys[key])
         \/ \E k \in DOMAIN d.keys \ {key} : p \in HeldBy(d.keys[k])

LEMMA OwnChange ==
  ASSUME NEW d, NEW loose, NEW bare, Own(d, loose, bare),
         NEW e, NEW key, NEW left, NEW empty, Changes(d, bare, e, key, left, empty)
  PROVE  Own(e, left, empty)
<1> USE DEF Changes
<1>1. ASSUME NEW k \in DOMAIN e.keys PROVE Keeps(e.heap, k, e.keys[k])
  <2>1. CASE k # key
    <3>1. Keeps(d.heap, k, d.keys[k]) /\ e.keys[k] = d.keys[k]
      BY <2>1 DEF Own
    <3>2. \A p \in HeldBy(d.keys[k]) : p \in DOMAIN e.heap /\ e.heap[p] = d.heap[p]
      BY <2>1
    <3>3. IsValue(e.heap, d.keys[k].type, d.keys[k].value)
      BY <3>1, <3>2, ValueKept DEF Keeps, HeldBy
    <3> QED BY <3>1, <3>2, <3>3 DEF Keeps, HeldBy
  <2> QED BY <2>1
<1>2. \A k \in DOMAIN e.keys : e.keys[k].type = "list" /\ e.keys[k].value = <<>> => k \in empty
  BY DEF Own
<1>3. \A k, l \in DOMAIN e.keys : k # l => HeldBy(e.keys[k]) \cap HeldBy(e.keys[l]) = {}
  <2> SUFFICES ASSUME NEW k \in DOMAIN e.keys, NEW l \in DOMAIN e.keys, k # l
               PROVE  HeldBy(e.keys[k]) \cap HeldBy(e.keys[l]) = {}
    OBVIOUS
  <2>1. CASE k = key
    BY <2>1
  <2>2. CASE l = key
    BY <2>2
  <2>3. CASE k # key /\ l # key
    BY <2>3 DEF Own
  <2> QED BY <2>1, <2>2, <2>3
<1>4. \A k \in DOMAIN e.keys : HeldBy(e.keys[k]) \cap left = {}
  OBVIOUS
<1>5. \A p \in DOMAIN e.heap : p \in left \/ \E k \in DOMAIN e.keys : p \in HeldBy(e.keys[k])
  <2> SUFFICES ASSUME NEW p \in DOMAIN e.heap, p \notin left
               PROVE  \E k \in DOMAIN e.keys : p \in HeldBy(e.keys[k])
    OBVIOUS
  <2>1. CASE key \in DOMAIN e.keys /\ p \in HeldBy(e.keys[key])
    BY <2>1
  <2>2. CASE \E k \in DOMAIN d.keys \ {key} : p \in HeldBy(d.keys[k])
    BY <2>2
  <2> QED BY <2>1, <2>2
<1> QED BY <1>1, <1>2, <1>3, <1>4, <1>5 DEF Own

-----------------------------------------------------------------------------
(* The strings: a new one is loose, and only loose ones are deleted. *)
LEMMA SetStringFacts ==
  ASSUME NEW d, IsDatabase(d), NEW s
  PROVE  /\ IsDatabase(SetString(d, s))
         /\ SetString(d, s).keys = d.keys
         /\ SetString(d, s).heap = Put(d.heap, StringPage(d), s)
BY DEF IsDatabase, SetString

LEMMA SetStringOwn ==
  ASSUME NEW d, NEW loose, NEW bare, Own(d, loose, bare), NEW s
  PROVE  /\ Own(SetString(d, s), loose \cup {StringPage(d)}, bare)
         /\ SetString(d, s).keys = d.keys
         /\ StringPage(d) \in Nat \ DOMAIN d.heap
         /\ DOMAIN SetString(d, s).heap = DOMAIN d.heap \cup {StringPage(d)}
         /\ SetString(d, s).heap[StringPage(d)] = s
         /\ Agree(SetString(d, s).heap, d.heap, DOMAIN d.heap)
<1> DEFINE e == SetString(d, s)
           page == StringPage(d)
<1>1. IsDatabase(e) /\ e.keys = d.keys /\ e.heap = Put(d.heap, page, s)
  BY SetStringFacts DEF Own
<1>2. page \in Nat \ DOMAIN d.heap
  BY StringPageFacts DEF Own
<1>3. /\ IsFunction(e.heap)
      /\ DOMAIN e.heap = DOMAIN d.heap \cup {page}
      /\ e.heap[page] = s
      /\ \A p \in DOMAIN d.heap : e.heap[p] = d.heap[p]
  <2>1. IsFunction(Put(d.heap, page, s)) /\ DOMAIN Put(d.heap, page, s) = DOMAIN d.heap \cup {page}
    BY PutDomain
  <2>2. /\ Put(d.heap, page, s)[page] = s
        /\ \A p \in DOMAIN d.heap \ {page} : Put(d.heap, page, s)[p] = d.heap[p]
    BY PutFacts
  <2> HIDE DEF e, page
  <2> QED BY <1>1, <1>2, <2>1, <2>2
<1> HIDE DEF e, page
<1>4. IsHeap(e.heap)
  <2>1. IsFiniteSet(DOMAIN e.heap)
    BY <1>3, FS_AddElement DEF Own, IsHeap
  <2> QED BY <1>2, <1>3, <2>1 DEF Own, IsHeap
<1>5. \A k \in DOMAIN d.keys : \A p \in HeldBy(d.keys[k]) : p \in DOMAIN d.heap /\ p \notin loose
  BY DEF Own, Keeps
<1>6. Own(e, loose \cup {page}, bare)
  <2>1. \A k \in DOMAIN d.keys : Keeps(e.heap, k, e.keys[k])
    <3> SUFFICES ASSUME NEW k \in DOMAIN d.keys PROVE Keeps(e.heap, k, d.keys[k])
      BY <1>1
    <3>1. Keeps(d.heap, k, d.keys[k])
      BY DEF Own
    <3>2. IsValue(e.heap, d.keys[k].type, d.keys[k].value)
      BY <1>3, <1>5, <3>1, ValueKept DEF Keeps, HeldBy
    <3> QED BY <1>3, <1>5, <3>1, <3>2 DEF Keeps, HeldBy
  <2>2. /\ \A k \in DOMAIN e.keys : HeldBy(e.keys[k]) \cap (loose \cup {page}) = {}
        /\ loose \cup {page} \subseteq DOMAIN e.heap
        /\ \A p \in DOMAIN e.heap :
             p \in loose \cup {page} \/ \E k \in DOMAIN e.keys : p \in HeldBy(e.keys[k])
    BY <1>1, <1>2, <1>3, <1>5 DEF Own
  <2> QED BY <1>1, <1>4, <2>1, <2>2 DEF Own
<1> QED BY <1>1, <1>2, <1>3, <1>6 DEF e, page, Agree

LEMMA DeleteStringsFacts ==
  ASSUME NEW d, IsDatabase(d), NEW pages
  PROVE  /\ IsDatabase(DeleteStrings(d, pages))
         /\ DeleteStrings(d, pages).keys = d.keys
         /\ DeleteStrings(d, pages).heap = Restrict(d.heap, DOMAIN d.heap \ pages)
BY DEF IsDatabase, DeleteStrings

LEMMA RestrictHeap ==
  ASSUME NEW heap, IsHeap(heap), NEW pages
  PROVE  IsHeap(Restrict(heap, DOMAIN heap \ pages))
<1>1. IsFiniteSet(DOMAIN heap \ pages)
  BY FS_Difference, FS_Subset DEF IsHeap
<1> QED BY <1>1, RestrictFacts DEF IsHeap

LEMMA DeleteStringsOwn ==
  ASSUME NEW d, NEW loose, NEW bare, Own(d, loose, bare), NEW pages, pages \subseteq loose
  PROVE  /\ Own(DeleteStrings(d, pages), loose \ pages, bare)
         /\ DeleteStrings(d, pages).keys = d.keys
         /\ DOMAIN DeleteStrings(d, pages).heap = DOMAIN d.heap \ pages
         /\ Agree(DeleteStrings(d, pages).heap, d.heap, DOMAIN d.heap \ pages)
<1> DEFINE e == DeleteStrings(d, pages)
<1>1. /\ IsDatabase(e) /\ e.keys = d.keys
      /\ DOMAIN e.heap = DOMAIN d.heap \ pages
      /\ \A p \in DOMAIN d.heap \ pages : e.heap[p] = d.heap[p]
      /\ IsHeap(e.heap)
  <2> DEFINE S == DOMAIN d.heap \ pages
  <2>1. IsDatabase(e) /\ e.keys = d.keys /\ e.heap = Restrict(d.heap, S)
    BY DeleteStringsFacts DEF Own
  <2>2. /\ DOMAIN Restrict(d.heap, S) = S
        /\ \A p \in S : Restrict(d.heap, S)[p] = d.heap[p]
    BY RestrictFacts
  <2>3. IsHeap(Restrict(d.heap, S))
    BY RestrictHeap DEF Own
  <2> HIDE DEF e
  <2> QED BY <2>1, <2>2, <2>3
<1> HIDE DEF e
<1>2. \A k \in DOMAIN d.keys : \A p \in HeldBy(d.keys[k]) : p \in DOMAIN d.heap \ pages
  BY DEF Own, Keeps
<1>3. \A k \in DOMAIN d.keys : Keeps(e.heap, k, e.keys[k])
  <2> SUFFICES ASSUME NEW k \in DOMAIN d.keys PROVE Keeps(e.heap, k, d.keys[k])
    BY <1>1
  <2>1. Keeps(d.heap, k, d.keys[k])
    BY DEF Own
  <2>2. IsValue(e.heap, d.keys[k].type, d.keys[k].value)
    BY <1>1, <1>2, <2>1, ValueKept DEF Keeps, HeldBy
  <2> QED BY <1>1, <1>2, <2>1, <2>2 DEF Keeps, HeldBy
<1>4. Own(e, loose \ pages, bare)
  BY <1>1, <1>3 DEF Own
<1> QED BY <1>1, <1>4 DEF e, Agree

-----------------------------------------------------------------------------
(* The keys *)
LEMMA KeyDeleteOwn ==
  ASSUME NEW d, NEW loose, NEW bare, Own(d, loose, bare), NEW key \in DOMAIN d.keys
  PROVE  /\ Own(KeyDelete(d, key), loose \cup StringsOf(d.keys[key].type, d.keys[key].value),
                bare \ {key})
         /\ Others(d, KeyDelete(d, key), key)
         /\ key \notin DOMAIN KeyDelete(d, key).keys
         /\ DOMAIN KeyDelete(d, key).heap = DOMAIN d.heap \ {d.keys[key].string}
         /\ Agree(KeyDelete(d, key).heap, d.heap, DOMAIN d.heap \ {d.keys[key].string})
<1> DEFINE name == d.keys[key].string
           strings == StringsOf(d.keys[key].type, d.keys[key].value)
           e == KeyDelete(d, key)
<1>1. /\ IsDatabase(e)
      /\ e.keys = Restrict(d.keys, DOMAIN d.keys \ {key})
      /\ e.heap = Restrict(d.heap, DOMAIN d.heap \ {name})
  BY DEF KeyDelete, DeleteStrings, Own, IsDatabase
<1>2. /\ IsFunction(e.keys)
      /\ DOMAIN e.keys = DOMAIN d.keys \ {key}
      /\ \A k \in DOMAIN d.keys \ {key} : e.keys[k] = d.keys[k]
      /\ IsHeap(e.heap)
      /\ DOMAIN e.heap = DOMAIN d.heap \ {name}
      /\ \A p \in DOMAIN d.heap \ {name} : e.heap[p] = d.heap[p]
  <2> DEFINE K == DOMAIN d.keys \ {key}
             S == DOMAIN d.heap \ {name}
  <2>1. /\ IsFunction(Restrict(d.keys, K))
        /\ DOMAIN Restrict(d.keys, K) = K
        /\ \A k \in K : Restrict(d.keys, K)[k] = d.keys[k]
        /\ DOMAIN Restrict(d.heap, S) = S
        /\ \A p \in S : Restrict(d.heap, S)[p] = d.heap[p]
    BY RestrictFacts
  <2>2. IsHeap(Restrict(d.heap, S))
    BY RestrictHeap DEF Own
  <2> HIDE DEF e, name
  <2> QED BY <1>1, <2>1, <2>2
<1>3. /\ HeldBy(d.keys[key]) = {name} \cup strings
      /\ name \notin strings
      /\ HeldBy(d.keys[key]) \cap loose = {}
      /\ HeldBy(d.keys[key]) \subseteq DOMAIN d.heap
      /\ loose \subseteq DOMAIN d.heap
  BY DEF Own, Keeps, HeldBy
<1> HIDE DEF e, name, strings
<1>4. ASSUME NEW k \in DOMAIN d.keys \ {key}, NEW p \in HeldBy(d.keys[k])
      PROVE  /\ p \in DOMAIN e.heap
             /\ e.heap[p] = d.heap[p]
             /\ p \notin loose \cup strings
  <2>1. p \in DOMAIN d.heap /\ p \notin loose
    BY DEF Own, Keeps
  <2>2. p \notin HeldBy(d.keys[key])
    BY DEF Own
  <2> QED BY <1>2, <1>3, <2>1, <2>2
<1>5. \A p \in DOMAIN e.heap : \/ p \in loose \cup strings
                               \/ \E k \in DOMAIN d.keys \ {key} : p \in HeldBy(d.keys[k])
  <2> SUFFICES ASSUME NEW p \in DOMAIN e.heap, p \notin loose \cup strings
               PROVE  \E k \in DOMAIN d.keys \ {key} : p \in HeldBy(d.keys[k])
    OBVIOUS
  <2>1. p \in DOMAIN d.heap /\ p # name
    BY <1>2
  <2>2. PICK k \in DOMAIN d.keys : p \in HeldBy(d.keys[k])
    BY <2>1 DEF Own
  <2> QED BY <1>3, <2>1, <2>2
<1>6. loose \cup strings \subseteq DOMAIN e.heap
  BY <1>2, <1>3
<1>7. DOMAIN e.keys \ {key} = DOMAIN d.keys \ {key} /\ key \notin DOMAIN e.keys
  BY <1>2
<1>8. Own(e, loose \cup strings, bare \ {key})
  BY <1>1, <1>2, <1>4, <1>5, <1>6, <1>7, OwnChange DEF Changes
<1>9. Others(d, e, key) /\ Agree(e.heap, d.heap, DOMAIN d.heap \ {name})
  BY <1>2 DEF Others, Agree
<1> QED BY <1>2, <1>7, <1>8, <1>9 DEF e, name, strings

(* A key that is bare once it has a value: an empty list is to be filled. *)
BareOf(key, type, value) == {k \in {key} : type = "list" /\ value = <<>>}
(* The strings of a key's value *)
ValueStrings(d, key) ==
    IF key \in DOMAIN d.keys THEN StringsOf(d.keys[key].type, d.keys[key].value) ELSE {}

(* What a key is set to is made of the strings it had and of loose ones. *)
Usable(d, loose, key) == loose \cup ValueStrings(d, key)
MaySet(d, loose, bare, key, type, value, left, empty) ==
    /\ Own(d, loose, bare)
    /\ IsValue(d.heap, type, value)
    /\ StringsOf(type, value) \subseteq loose \cup ValueStrings(d, key)
    /\ left = (loose \cup ValueStrings(d, key)) \ StringsOf(type, value)
    /\ empty = (bare \ {key}) \cup BareOf(key, type, value)

LEMMA KeySetOwn ==
  ASSUME NEW d, NEW loose, NEW bare, NEW key, NEW type, NEW value, NEW expires, NEW version,
         NEW left, NEW empty, MaySet(d, loose, bare, key, type, value, left, empty)
  PROVE  LET e == KeySet(d, key, type, value, expires, version)
         IN /\ Own(e, left, empty)
            /\ Others(d, e, key)
            /\ key \in DOMAIN e.keys
            /\ e.keys[key].type = type
            /\ e.keys[key].value = value
            /\ e.keys[key].expires = expires
            /\ Agree(e.heap, d.heap, Usable(d, loose, key))
<1> DEFINE held == ValueStrings(d, key)
           strings == StringsOf(type, value)
           d1 == KeyDelete(d, key)
           page == StringPage(d1)
           d2 == SetString(d1, key)
           given == IF version = 0 THEN 1 ELSE version
           entry == [type |-> type, string |-> page, value |-> value,
                     expires |-> expires, version |-> given]
           e == [d2 EXCEPT !.keys = Put(@, key, entry), !.given = Max({@, given})]
<1> USE DEF MaySet
<1>0. left = (loose \cup held) \ strings /\ empty = (bare \ {key}) \cup BareOf(key, type, value)
  OBVIOUS
<1>1. KeySet(d, key, type, value, expires, version) = e
  BY DEF KeySet
<1>2. /\ Own(d1, loose \cup held, bare \ {key})
      /\ DOMAIN d1.keys = DOMAIN d.keys \ {key}
      /\ \A k \in DOMAIN d.keys \ {key} : d1.keys[k] = d.keys[k]
      /\ \A p \in loose \cup held : p \in DOMAIN d1.heap /\ d1.heap[p] = d.heap[p]
  <2>1. CASE key \in DOMAIN d.keys
    <3>1. /\ Own(d1, loose \cup held, bare \ {key})
          /\ Others(d, d1, key)
          /\ key \notin DOMAIN d1.keys
          /\ DOMAIN d1.heap = DOMAIN d.heap \ {d.keys[key].string}
          /\ Agree(d1.heap, d.heap, DOMAIN d.heap \ {d.keys[key].string})
      BY <2>1, KeyDeleteOwn DEF ValueStrings
    <3>2. \A p \in loose \cup held : p \in DOMAIN d.heap \ {d.keys[key].string}
      BY <2>1 DEF Own, Keeps, HeldBy, ValueStrings
    <3> HIDE DEF d1, held
    <3> QED BY <3>1, <3>2 DEF Others, Agree
  <2>2. CASE key \notin DOMAIN d.keys
    <3>1. d1 = d /\ held = {}
      BY <2>2 DEF KeyDelete, ValueStrings
    <3>2. Own(d, loose, bare \ {key})
      BY <2>2 DEF Own
    <3>3. loose \subseteq DOMAIN d.heap
      BY DEF Own
    <3> HIDE DEF d1, held
    <3> QED BY <2>2, <3>1, <3>2, <3>3
  <2> QED BY <2>1, <2>2
<1> HIDE DEF d1, held
<1>3. /\ Own(d2, (loose \cup held) \cup {page}, bare \ {key})
      /\ d2.keys = d1.keys
      /\ page \in Nat \ DOMAIN d1.heap
      /\ DOMAIN d2.heap = DOMAIN d1.heap \cup {page}
      /\ d2.heap[page] = key
      /\ \A p \in DOMAIN d1.heap : d2.heap[p] = d1.heap[p]
  <2>1. /\ Own(d2, (loose \cup held) \cup {page}, bare \ {key})
        /\ d2.keys = d1.keys
        /\ page \in Nat \ DOMAIN d1.heap
        /\ DOMAIN d2.heap = DOMAIN d1.heap \cup {page}
        /\ d2.heap[page] = key
        /\ Agree(d2.heap, d1.heap, DOMAIN d1.heap)
    BY <1>2, SetStringOwn
  <2> HIDE DEF d2, page
  <2> QED BY <2>1 DEF Agree
<1> HIDE DEF d2, page
<1>4. /\ IsDatabase(e)
      /\ e.heap = d2.heap
      /\ e.keys = Put(d2.keys, key, entry)
  <2> DEFINE keys == Put(d2.keys, key, entry)
             most == Max({d2.given, given})
  <2>1. IsDatabase(d2) /\ e = [d2 EXCEPT !.keys = keys, !.given = most]
    BY <1>3 DEF Own
  <2> HIDE DEF keys, most, e
  <2> QED BY <2>1 DEF IsDatabase, keys
<1>5. /\ IsFunction(e.keys)
      /\ DOMAIN e.keys = DOMAIN d.keys \cup {key}
  <2>1. IsFunction(Put(d2.keys, key, entry)) /\ DOMAIN Put(d2.keys, key, entry) = DOMAIN d2.keys \cup {key}
    BY PutDomain
  <2> HIDE DEF e, entry
  <2> QED BY <1>2, <1>3, <1>4, <2>1
<1>6. e.keys[key] = entry /\ \A k \in DOMAIN d.keys \ {key} : e.keys[k] = d.keys[k]
  <2>1. /\ Put(d2.keys, key, entry)[key] = entry
        /\ \A k \in DOMAIN d2.keys \ {key} : Put(d2.keys, key, entry)[k] = d2.keys[k]
    BY PutFacts
  <2> HIDE DEF e, entry
  <2> QED BY <1>2, <1>3, <1>4, <2>1
<1>7. /\ IsEntry(entry) /\ entry.string = page /\ entry.type = type /\ entry.value = value
      /\ entry.expires = expires /\ HeldBy(entry) = {page} \cup strings
  BY DEF IsEntry, HeldBy
<1> HIDE DEF e, entry
<1>8. strings \subseteq loose \cup held
  BY DEF held
<1>9. page \notin loose \cup held
  BY <1>2, <1>3
<1>10. Keeps(e.heap, key, entry)
  <2>1. \A p \in strings : e.heap[p] = d.heap[p]
    BY <1>2, <1>3, <1>4, <1>8
  <2>2. IsValue(e.heap, type, value)
    BY <2>1, ValueKept
  <2> QED BY <1>2, <1>3, <1>4, <1>7, <1>8, <1>9, <2>2 DEF Keeps
<1>11. \A k \in DOMAIN d2.keys : HeldBy(d2.keys[k]) \cap (loose \cup held \cup {page}) = {}
  BY <1>3 DEF Own
<1>12. \A k \in DOMAIN d2.keys : \A p \in HeldBy(d2.keys[k]) : p \in DOMAIN d2.heap
  BY <1>3 DEF Own, Keeps
<1>13. \A p \in DOMAIN d2.heap : \/ p \in loose \cup held \cup {page}
                                \/ \E k \in DOMAIN d2.keys : p \in HeldBy(d2.keys[k])
  BY <1>3 DEF Own
<1>14. Own(e, left, empty)
  <2>1. key \notin DOMAIN d2.keys /\ \A k \in DOMAIN d2.keys : e.keys[k] = d2.keys[k]
    BY <1>2, <1>3, <1>6
  <2>2. DOMAIN e.keys \ {key} = DOMAIN d2.keys \ {key}
    BY <1>2, <1>3, <1>5
  <2>3. \A k \in DOMAIN d2.keys \ {key} :
           /\ e.keys[k] = d2.keys[k]
           /\ \A p \in HeldBy(d2.keys[k]) :
                p \in DOMAIN e.heap /\ e.heap[p] = d2.heap[p] /\ p \notin left
    BY <1>0, <1>4, <1>11, <1>12, <2>1
  <2>4. /\ Keeps(e.heap, key, e.keys[key])
        /\ e.keys[key].type = "list" /\ e.keys[key].value = <<>> => key \in empty
        /\ HeldBy(e.keys[key]) \cap left = {}
        /\ \A k \in DOMAIN d2.keys \ {key} : HeldBy(e.keys[key]) \cap HeldBy(d2.keys[k]) = {}
    BY <1>0, <1>6, <1>7, <1>8, <1>9, <1>10, <1>11 DEF BareOf
  <2>5. (bare \ {key}) \ {key} \subseteq empty
    BY <1>0
  <2>6. left \subseteq DOMAIN e.heap
    BY <1>0, <1>2, <1>3, <1>4
  <2>7. \A p \in DOMAIN e.heap :
           \/ p \in left
           \/ key \in DOMAIN e.keys /\ p \in HeldBy(e.keys[key])
           \/ \E k \in DOMAIN d2.keys \ {key} : p \in HeldBy(d2.keys[k])
    BY <1>0, <1>4, <1>5, <1>6, <1>7, <1>13, <2>1
  <2>8. IsHeap(e.heap)
    BY <1>3, <1>4 DEF Own
    <2>9. Changes(d2, bare \ {key}, e, key, left, empty)
    BY <1>4, <1>5, <2>2, <2>3, <2>4, <2>5, <2>6, <2>7, <2>8 DEF Changes
  <2> QED BY <1>3, <2>9, OwnChange
<1>15. Agree(e.heap, d.heap, loose \cup held)
  BY <1>2, <1>3, <1>4 DEF Agree
<1>16. Others(d, e, key)
  BY <1>5, <1>6 DEF Others
<1> QED BY <1>1, <1>5, <1>6, <1>7, <1>14, <1>15, <1>16 DEF held, Usable

LEMMA SetValueOwn ==
  ASSUME NEW d, NEW loose, NEW bare, Own(d, loose, bare), NEW key \in DOMAIN d.keys,
         NEW value, IsValue(d.heap, d.keys[key].type, value),
         StringsOf(d.keys[key].type, value) \subseteq loose \cup ValueStrings(d, key)
  PROVE  LET e == SetValue(d, key, value)
             type == d.keys[key].type
         IN /\ Own(e, (loose \cup ValueStrings(d, key)) \ StringsOf(type, value),
                   (bare \ {key}) \cup BareOf(key, type, value))
            /\ Others(d, e, key)
            /\ key \in DOMAIN e.keys
            /\ e.heap = d.heap
            /\ e.keys[key].type = type
            /\ e.keys[key].value = value
            /\ e.keys[key].expires = d.keys[key].expires
<1> DEFINE held == ValueStrings(d, key)
           type == d.keys[key].type
           name == d.keys[key].string
           strings == StringsOf(type, value)
           entry == [d.keys[key] EXCEPT !.value = value]
           e == SetValue(d, key, value)
           left == (loose \cup held) \ strings
           empty == (bare \ {key}) \cup BareOf(key, type, value)
<1>1. /\ IsEntry(entry) /\ entry.string = name /\ entry.type = type /\ entry.value = value
      /\ entry.expires = d.keys[key].expires /\ HeldBy(entry) = {name} \cup strings
  <2>1. IsEntry(d.keys[key])
    BY DEF Own, Keeps
  <2>2. entry = [type |-> type, string |-> name, value |-> value,
                 expires |-> d.keys[key].expires, version |-> d.keys[key].version]
    BY <2>1 DEF IsEntry
  <2> HIDE DEF entry
  <2> QED BY <2>2 DEF IsEntry, HeldBy
<1>2. /\ IsDatabase(e)
      /\ e.heap = d.heap
      /\ e.keys = [d.keys EXCEPT ![key] = entry]
  BY DEF SetValue, Own, IsDatabase
<1> HIDE DEF e, entry
<1>3. /\ IsFunction(e.keys)
      /\ DOMAIN e.keys = DOMAIN d.keys
      /\ e.keys[key] = entry
      /\ \A k \in DOMAIN d.keys \ {key} : e.keys[k] = d.keys[k]
  BY <1>2 DEF IsFunction
<1>4. /\ HeldBy(d.keys[key]) = {name} \cup held
      /\ name \notin held /\ name \notin loose
      /\ name \in DOMAIN d.heap
      /\ d.heap[name] = key
      /\ held \subseteq DOMAIN d.heap /\ loose \subseteq DOMAIN d.heap
      /\ held \cap loose = {}
  BY DEF Own, Keeps, HeldBy, ValueStrings
<1>5. strings \subseteq loose \cup held
  BY DEF held
<1> HIDE DEF held, name, strings, type
<1>6. Keeps(e.heap, key, entry)
  <2>1. IsValue(e.heap, type, value)
    BY <1>2 DEF type
  <2> QED BY <1>1, <1>2, <1>4, <1>5, <2>1 DEF Keeps, strings
<1>7. \A k \in DOMAIN d.keys \ {key} :
        /\ HeldBy(d.keys[k]) \cap (loose \cup held \cup {name}) = {}
        /\ HeldBy(d.keys[k]) \subseteq DOMAIN d.heap
  BY <1>4 DEF Own, Keeps
<1>8. \A p \in DOMAIN d.heap : \/ p \in loose \cup held \cup {name}
                              \/ \E k \in DOMAIN d.keys \ {key} : p \in HeldBy(d.keys[k])
  <2> SUFFICES ASSUME NEW p \in DOMAIN d.heap, p \notin loose \cup held \cup {name}
               PROVE  \E k \in DOMAIN d.keys \ {key} : p \in HeldBy(d.keys[k])
    OBVIOUS
  <2>1. PICK k \in DOMAIN d.keys : p \in HeldBy(d.keys[k])
    BY DEF Own
  <2>2. k # key
    BY <1>4, <2>1
  <2> QED BY <2>1, <2>2
<1>9. Own(e, left, empty)
  <2>1. \A k \in DOMAIN d.keys \ {key} :
           /\ e.keys[k] = d.keys[k]
           /\ \A p \in HeldBy(d.keys[k]) :
                p \in DOMAIN e.heap /\ e.heap[p] = d.heap[p] /\ p \notin left
    BY <1>2, <1>3, <1>7
  <2>2. /\ Keeps(e.heap, key, e.keys[key])
        /\ e.keys[key].type = "list" /\ e.keys[key].value = <<>> => key \in empty
        /\ HeldBy(e.keys[key]) \cap left = {}
        /\ \A k \in DOMAIN d.keys \ {key} : HeldBy(e.keys[key]) \cap HeldBy(d.keys[k]) = {}
    BY <1>1, <1>3, <1>4, <1>5, <1>6, <1>7 DEF BareOf
  <2>3. left \subseteq DOMAIN e.heap
    BY <1>2, <1>4
  <2>4. \A p \in DOMAIN e.heap :
           \/ p \in left
           \/ key \in DOMAIN e.keys /\ p \in HeldBy(e.keys[key])
           \/ \E k \in DOMAIN d.keys \ {key} : p \in HeldBy(d.keys[k])
    BY <1>1, <1>2, <1>3, <1>8
  <2>5. IsHeap(e.heap) /\ (bare \ {key}) \subseteq empty
    BY <1>2 DEF Own
  <2>6. DOMAIN e.keys \ {key} = DOMAIN d.keys \ {key}
    BY <1>3
  <2> HIDE DEF left, empty
  <2>7. Changes(d, bare, e, key, left, empty)
    BY <1>2, <1>3, <2>1, <2>2, <2>3, <2>4, <2>5, <2>6 DEF Changes
  <2> QED BY <2>7, OwnChange
<1>10. Others(d, e, key) /\ key \in DOMAIN e.keys
  BY <1>3 DEF Others
<1> QED BY <1>1, <1>2, <1>3, <1>9, <1>10 DEF e, held, strings, type

-----------------------------------------------------------------------------
(* A key with its value *)
LEMMA OwnMore ==
  ASSUME NEW d, NEW loose, NEW bare, Own(d, loose, bare), NEW more, bare \subseteq more
  PROVE  Own(d, loose, more)
BY DEF Own

LEMMA RestrictTwice ==
  ASSUME NEW f, NEW S, NEW T, T \subseteq S
  PROVE  Restrict(Restrict(f, S), T) = Restrict(f, T)
<1>1. \A x \in T : Restrict(f, S)[x] = f[x]
  BY DEF Restrict
<1> QED BY <1>1 DEF Restrict

(* The strings of a value may be deleted before the key or after it. *)
LEMMA DeleteCommutes ==
  ASSUME NEW d, IsDatabase(d), NEW key \in DOMAIN d.keys, NEW pages
  PROVE  KeyDelete(DeleteStrings(d, pages), key) = DeleteStrings(KeyDelete(d, key), pages)
<1> DEFINE name == d.keys[key].string
           D == DOMAIN d.heap
           d1 == DeleteStrings(d, pages)
           d2 == KeyDelete(d, key)
           keys == Restrict(d.keys, DOMAIN d.keys \ {key})
<1>1. /\ IsDatabase(d1) /\ d1.keys = d.keys /\ d1.heap = Restrict(d.heap, D \ pages)
      /\ d1.now = d.now /\ d1.given = d.given /\ d1.erange = d.erange
  BY DEF DeleteStrings, IsDatabase
<1>2. /\ IsDatabase(d2) /\ d2.keys = keys /\ d2.heap = Restrict(d.heap, D \ {name})
      /\ d2.now = d.now /\ d2.given = d.given /\ d2.erange = d.erange
  BY DEF KeyDelete, DeleteStrings, IsDatabase
<1>3. DOMAIN d1.heap = D \ pages /\ DOMAIN d2.heap = D \ {name}
  BY <1>1, <1>2, RestrictFacts
<1> DEFINE left == Restrict(d.heap, (D \ pages) \ {name})
<1>4. KeyDelete(d1, key) = [keys |-> keys, heap |-> Restrict(d1.heap, (D \ pages) \ {name}),
                            now |-> d.now, given |-> d.given, erange |-> d.erange]
  <2> DEFINE rest == Restrict(d1.heap, (D \ pages) \ {name})
  <2> DEFINE e == DeleteStrings(d1, {name})
  <2>0. KeyDelete(d1, key) = [e EXCEPT !.keys = Restrict(e.keys, DOMAIN e.keys \ {key})]
    <3> HIDE DEF d1
    <3> QED BY <1>1 DEF KeyDelete
  <2>3. e = [d1 EXCEPT !.heap = rest]
    <3> HIDE DEF d1
    <3> QED BY <1>1, <1>3 DEF DeleteStrings
  <2>4. e.keys = d.keys
    <3> HIDE DEF d1, e, rest
    <3> QED BY <1>1, <2>3 DEF IsDatabase
  <2>1. KeyDelete(d1, key) = [[d1 EXCEPT !.heap = rest] EXCEPT !.keys = keys]
    <3> HIDE DEF d1, e, rest
    <3> QED BY <2>0, <2>3, <2>4
  <2> HIDE DEF rest, keys, d1
  <2>2. KeyDelete(d1, key) = [keys |-> keys, heap |-> rest,
                              now |-> d.now, given |-> d.given, erange |-> d.erange]
    BY <1>1, <2>1 DEF IsDatabase
  <2> QED BY <2>2 DEF rest, keys, d1
<1>5. DeleteStrings(d2, pages) = [keys |-> keys, heap |-> Restrict(d2.heap, (D \ {name}) \ pages),
                                  now |-> d.now, given |-> d.given, erange |-> d.erange]
  <2> DEFINE rest == Restrict(d2.heap, (D \ {name}) \ pages)
  <2>1. DeleteStrings(d2, pages) = [d2 EXCEPT !.heap = rest]
    BY <1>2, <1>3 DEF DeleteStrings
  <2> HIDE DEF rest, keys, d2
  <2>2. DeleteStrings(d2, pages) = [keys |-> keys, heap |-> rest,
                                    now |-> d.now, given |-> d.given, erange |-> d.erange]
    BY <1>2, <2>1 DEF IsDatabase
  <2> QED BY <2>2 DEF rest, keys, d2
<1>6. Restrict(d1.heap, (D \ pages) \ {name}) = left
  BY <1>1, RestrictTwice
<1>7. Restrict(d2.heap, (D \ {name}) \ pages) = left
  <2>1. (D \ {name}) \ pages = (D \ pages) \ {name}
    OBVIOUS
  <2> HIDE DEF d2
  <2> QED BY <1>2, <2>1, RestrictTwice
<1> HIDE DEF d1, d2, keys, left
<1> QED BY <1>4, <1>5, <1>6, <1>7 DEF d1, d2

LEMMA DeleteWithValueOwn ==
  ASSUME NEW d, NEW loose, NEW bare, Own(d, loose, bare), NEW key
  PROVE  LET r == DeleteWithValue(d, key)
         IN /\ Own(r.db, loose, bare \ {key})
            /\ r.ret \in {"ok", "not found"}
            /\ Others(d, r.db, key)
            /\ key \notin DOMAIN r.db.keys
<1> DEFINE r == DeleteWithValue(d, key)
<1>1. CASE key \notin DOMAIN d.keys
  <2>1. r.db = d /\ r.ret = "not found"
    BY <1>1 DEF DeleteWithValue, Fail
  <2>2. Own(d, loose, bare \ {key})
    BY <1>1 DEF Own
  <2> HIDE DEF r
  <2>3. r.ret \in {"ok", "not found"} /\ key \notin DOMAIN r.db.keys /\ Others(d, r.db, key)
    BY <1>1, <2>1 DEF Others
  <2> QED BY <2>1, <2>2, <2>3 DEF r
<1>2. CASE key \in DOMAIN d.keys
  <2> DEFINE strings == StringsOf(d.keys[key].type, d.keys[key].value)
             d1 == KeyDelete(d, key)
             d2 == DeleteStrings(d1, strings)
  <2>1. r.db = d2
    BY <1>2, DeleteCommutes DEF DeleteWithValue, Own
  <2>2. r.ret \in {"ok", "not found"}
    BY <1>2 DEF DeleteWithValue
  <2>3. /\ Own(d1, loose \cup strings, bare \ {key})
        /\ Others(d, d1, key)
        /\ key \notin DOMAIN d1.keys
    BY <1>2, KeyDeleteOwn
  <2>4. (loose \cup strings) \ strings = loose
    BY <1>2 DEF Own, HeldBy
  <2> HIDE DEF r, d1, strings
  <2>5. Own(d2, (loose \cup strings) \ strings, bare \ {key}) /\ d2.keys = d1.keys
    <3>1. strings \subseteq loose \cup strings
      OBVIOUS
    <3> DEFINE more == loose \cup strings
    <3>2. Own(d1, more, bare \ {key}) /\ strings \subseteq more
      BY <2>3, <3>1
    <3> HIDE DEF more
    <3>3. Own(d2, more \ strings, bare \ {key}) /\ d2.keys = d1.keys
      BY <3>2, DeleteStringsOwn
    <3> QED BY <3>3 DEF more
  <2>6. Others(d, d2, key) /\ key \notin DOMAIN d2.keys
    BY <2>3, <2>5 DEF Others
  <2> QED BY <2>1, <2>2, <2>4, <2>5, <2>6 DEF r
<1> QED BY <1>1, <1>2

LEMMA KeyGetOwn ==
  ASSUME NEW d, NEW loose, NEW bare, Own(d, loose, bare), NEW key
  PROVE  LET r == KeyGet(d, key)
         IN /\ Own(r.db, loose, bare)
            /\ r.ret = "ok" => r.db = d /\ key \in DOMAIN d.keys
            /\ r.ret # "ok" => r.ret = "not found" /\ key \notin DOMAIN r.db.keys
            /\ Others(d, r.db, key)
            /\ key \in DOMAIN d.keys /\ ~Expired(d, key) => r.db = d
<1> DEFINE r == KeyGet(d, key)
           e == DeleteWithValue(d, key).db
<1>1. CASE key \notin DOMAIN d.keys
  BY <1>1 DEF KeyGet, Fail, Others
<1>2. CASE key \in DOMAIN d.keys /\ Expired(d, key)
  <2>1. r.db = e /\ r.ret = "not found"
    BY <1>2 DEF KeyGet, Fail
  <2>2. /\ Own(e, loose, bare \ {key})
        /\ Others(d, e, key)
        /\ key \notin DOMAIN e.keys
    BY DeleteWithValueOwn
  <2> HIDE DEF r, e
  <2>3. Own(e, loose, bare)
    BY <2>2, OwnMore
  <2> QED BY <1>2, <2>1, <2>2, <2>3 DEF r
<1>3. CASE key \in DOMAIN d.keys /\ ~Expired(d, key)
  BY <1>3 DEF KeyGet, Ret, Others
<1> QED BY <1>1, <1>2, <1>3

LEMMA OthersAgain ==
  ASSUME NEW d, NEW e, NEW f, NEW key, Others(d, e, key), Others(e, f, key)
  PROVE  Others(d, f, key)
BY DEF Others

LEMMA SetValueFields ==
  ASSUME NEW d, IsDatabase(d), NEW key, NEW v
  PROVE  SetValue(d, key, v)
           = [keys |-> [d.keys EXCEPT ![key].value = v], heap |-> d.heap,
              now |-> d.now, given |-> d.given, erange |-> d.erange]
BY DEF SetValue, IsDatabase

LEMMA DeleteStringsFields ==
  ASSUME NEW d, IsDatabase(d), NEW pages
  PROVE  DeleteStrings(d, pages)
           = [keys |-> d.keys, heap |-> Restrict(d.heap, DOMAIN d.heap \ pages),
              now |-> d.now, given |-> d.given, erange |-> d.erange]
BY DEF DeleteStrings, IsDatabase

LEMMA SetStringFields ==
  ASSUME NEW d, IsDatabase(d), NEW s
  PROVE  SetString(d, s)
           = [keys |-> d.keys, heap |-> Put(d.heap, StringPage(d), s),
              now |-> d.now, given |-> d.given, erange |-> d.erange]
BY DEF SetString, IsDatabase

LEMMA SetValueDeleteStrings ==
  ASSUME NEW d, IsDatabase(d), NEW key, NEW v, NEW pages
  PROVE  DeleteStrings(SetValue(d, key, v), pages) = SetValue(DeleteStrings(d, pages), key, v)
<1> DEFINE e == SetValue(d, key, v)
           f == DeleteStrings(d, pages)
           keys == [d.keys EXCEPT ![key].value = v]
           heap == Restrict(d.heap, DOMAIN d.heap \ pages)
<1>1. e = [keys |-> keys, heap |-> d.heap, now |-> d.now, given |-> d.given, erange |-> d.erange]
  BY SetValueFields
<1>2. f = [keys |-> d.keys, heap |-> heap, now |-> d.now, given |-> d.given, erange |-> d.erange]
  BY DeleteStringsFields
<1> HIDE DEF e, f
<1>3. IsDatabase(e) /\ e.heap = d.heap /\ e.keys = keys /\ e.now = d.now /\ e.given = d.given /\ e.erange = d.erange
  <2> HIDE DEF keys
  <2> QED BY <1>1 DEF IsDatabase
<1>4. IsDatabase(f) /\ f.heap = heap /\ f.keys = d.keys /\ f.now = d.now /\ f.given = d.given /\ f.erange = d.erange
  <2> HIDE DEF heap
  <2> QED BY <1>2 DEF IsDatabase
<1>5. DeleteStrings(e, pages) = [keys |-> keys, heap |-> heap, now |-> d.now, given |-> d.given, erange |-> d.erange]
  BY <1>3, DeleteStringsFields
<1>6. SetValue(f, key, v) = [keys |-> keys, heap |-> heap, now |-> d.now, given |-> d.given, erange |-> d.erange]
  BY <1>4, SetValueFields
<1> QED BY <1>5, <1>6 DEF e, f

LEMMA SetValueSetString ==
  ASSUME NEW d, IsDatabase(d), NEW key, NEW v, NEW s
  PROVE  /\ SetString(SetValue(d, key, v), s) = SetValue(SetString(d, s), key, v)
         /\ StringPage(SetValue(d, key, v)) = StringPage(d)
<1> DEFINE e == SetValue(d, key, v)
           f == SetString(d, s)
           keys == [d.keys EXCEPT ![key].value = v]
           heap == Put(d.heap, StringPage(d), s)
<1>1. e = [keys |-> keys, heap |-> d.heap, now |-> d.now, given |-> d.given, erange |-> d.erange]
  BY SetValueFields
<1>2. f = [keys |-> d.keys, heap |-> heap, now |-> d.now, given |-> d.given, erange |-> d.erange]
  BY SetStringFields
<1> HIDE DEF e, f
<1>3. IsDatabase(e) /\ e.heap = d.heap /\ e.keys = keys /\ e.now = d.now /\ e.given = d.given /\ e.erange = d.erange
  <2> HIDE DEF keys
  <2> QED BY <1>1 DEF IsDatabase
<1>4. IsDatabase(f) /\ f.heap = heap /\ f.keys = d.keys /\ f.now = d.now /\ f.given = d.given /\ f.erange = d.erange
  <2> HIDE DEF heap
  <2> QED BY <1>2 DEF IsDatabase
<1>7. StringPage(e) = StringPage(d)
  BY <1>3 DEF StringPage
<1>5. SetString(e, s) = [keys |-> keys, heap |-> heap, now |-> d.now, given |-> d.given, erange |-> d.erange]
  BY <1>3, <1>7, SetStringFields
<1>6. SetValue(f, key, v) = [keys |-> keys, heap |-> heap, now |-> d.now, given |-> d.given, erange |-> d.erange]
  BY <1>4, SetValueFields
<1> QED BY <1>5, <1>6, <1>7 DEF e, f

LEMMA SetValueTwice ==
  ASSUME NEW d, IsDatabase(d), NEW key \in DOMAIN d.keys, NEW v, NEW w
  PROVE  SetValue(SetValue(d, key, w), key, v) = SetValue(d, key, v)
<1> DEFINE e == SetValue(d, key, w)
           keys == [d.keys EXCEPT ![key].value = w]
<1>1. e = [keys |-> keys, heap |-> d.heap, now |-> d.now, given |-> d.given, erange |-> d.erange]
  BY SetValueFields
<1> HIDE DEF e
<1>3. IsDatabase(e) /\ e.heap = d.heap /\ e.keys = keys /\ e.now = d.now /\ e.given = d.given /\ e.erange = d.erange
  <2> HIDE DEF keys
  <2> QED BY <1>1 DEF IsDatabase
<1>5. SetValue(e, key, v) = [keys |-> [keys EXCEPT ![key].value = v], heap |-> d.heap, now |-> d.now, given |-> d.given, erange |-> d.erange]
  <2> HIDE DEF keys
  <2> QED BY <1>3, SetValueFields
<1>6. SetValue(d, key, v) = [keys |-> [d.keys EXCEPT ![key].value = v], heap |-> d.heap, now |-> d.now, given |-> d.given, erange |-> d.erange]
  BY SetValueFields
<1>7. [keys EXCEPT ![key].value = v] = [d.keys EXCEPT ![key].value = v]
  OBVIOUS
<1> QED BY <1>5, <1>6, <1>7 DEF e

LEMMA BareEnds ==
  ASSUME NEW e, NEW key, NEW type, NEW v, NEW empty, Own(e, {}, empty),
         empty = BareOf(key, type, v)
  PROVE  /\ Filling(e, key)
         /\ type # "list" \/ v # <<>> => AtRest(e)
<1>1. empty \subseteq {key} /\ (type # "list" \/ v # <<>> => empty = {})
  BY DEF BareOf
<1>2. Own(e, {}, {key})
  BY <1>1, OwnMore
<1> QED BY <1>1, <1>2 DEF Filling, AtRest

(* What a key's value is set to is held by the key, and nothing else is. *)
Newly(d, e, key, v) ==
    /\ key \in DOMAIN e.keys
    /\ e.keys[key].type = d.keys[key].type
    /\ e.keys[key].value = v
    /\ e.keys[key].expires = d.keys[key].expires

(* A value gets a string more. *)
LEMMA ValueGrows ==
  ASSUME NEW d, NEW key \in DOMAIN d.keys, Filling(d, key), NEW s, NEW v,
         LET type == d.keys[key].type
         IN /\ IsValue(SetString(d, s).heap, type, v)
            /\ StringsOf(type, v) = StringsOf(type, d.keys[key].value) \cup {StringPage(d)}
  PROVE  LET e == SetValue(SetString(d, s), key, v)
         IN /\ Filling(e, key)
            /\ d.keys[key].type # "list" \/ v # <<>> => AtRest(e)
            /\ Others(d, e, key)
            /\ Newly(d, e, key, v)
            /\ e.heap = SetString(d, s).heap
<1> DEFINE f == SetString(d, s)
           page == StringPage(d)
           e == SetValue(f, key, v)
           type == d.keys[key].type
           held == StringsOf(type, d.keys[key].value)
<1> DEFINE bare == {key}
           empty == (bare \ {key}) \cup BareOf(key, type, v)
<1>0. Own(d, {}, bare) /\ empty = BareOf(key, type, v)
  BY DEF Filling
<1> HIDE DEF bare, empty
<1>1. Own(f, {} \cup {page}, bare) /\ f.keys = d.keys
  BY <1>0, SetStringOwn
<1>2. Own(f, {page}, bare) /\ f.keys = d.keys /\ key \in DOMAIN f.keys
      /\ f.keys[key].type = type /\ ValueStrings(f, key) = held
  <2> HIDE DEF f
  <2> QED BY <1>1 DEF ValueStrings
<1>3. IsValue(f.heap, type, v) /\ StringsOf(type, v) = held \cup {page}
  OBVIOUS
<1> HIDE DEF f, page, held, type
<1>4. ({page} \cup ValueStrings(f, key)) \ StringsOf(f.keys[key].type, v) = {}
  BY <1>2, <1>3
<1>5. /\ Own(e, ({page} \cup ValueStrings(f, key)) \ StringsOf(f.keys[key].type, v), empty)
      /\ Others(f, e, key)
      /\ key \in DOMAIN e.keys
      /\ e.heap = f.heap
      /\ e.keys[key].type = type
      /\ e.keys[key].value = v
      /\ e.keys[key].expires = f.keys[key].expires
  BY <1>2, <1>3, SetValueOwn DEF empty
<1> HIDE DEF e
<1>6. Own(e, {}, empty)
  BY <1>4, <1>5
<1>7. Filling(e, key) /\ (type # "list" \/ v # <<>> => AtRest(e))
  BY <1>0, <1>6, BareEnds
<1> QED BY <1>2, <1>5, <1>7 DEF Others, Newly, e, f, type

(* Strings of a value are deleted, and the value has the others. *)
LEMMA ValueShrinks ==
  ASSUME NEW d, NEW key \in DOMAIN d.keys, Filling(d, key), NEW gone, NEW v,
         LET type == d.keys[key].type
         IN /\ IsValue(d.heap, type, v)
            /\ StringsOf(type, v) = StringsOf(type, d.keys[key].value) \ gone
            /\ gone \subseteq StringsOf(type, d.keys[key].value)
  PROVE  LET e == SetValue(DeleteStrings(d, gone), key, v)
         IN /\ Filling(e, key)
            /\ d.keys[key].type # "list" \/ v # <<>> => AtRest(e)
            /\ Others(d, e, key)
            /\ Newly(d, e, key, v)
            /\ Agree(e.heap, d.heap, DOMAIN d.heap \ gone)
<1> DEFINE f == SetValue(d, key, v)
           e == DeleteStrings(f, gone)
           type == d.keys[key].type
           held == StringsOf(type, d.keys[key].value)
           bare == {key}
           empty == (bare \ {key}) \cup BareOf(key, type, v)
<1>0. Own(d, {}, bare) /\ empty = BareOf(key, type, v)
  BY DEF Filling
<1> HIDE DEF bare
<1>1. SetValue(DeleteStrings(d, gone), key, v) = e
  BY <1>0, SetValueDeleteStrings DEF Own
<1>2. ValueStrings(d, key) = held
  BY DEF ValueStrings
<1>3. IsValue(d.heap, type, v) /\ StringsOf(type, v) = held \ gone /\ gone \subseteq held
  OBVIOUS
<1>4. StringsOf(type, v) \subseteq {} \cup ValueStrings(d, key)
      /\ ({} \cup ValueStrings(d, key)) \ StringsOf(type, v) = gone
  <2> HIDE DEF type, held
  <2> QED BY <1>2, <1>3
<1>5. /\ Own(f, ({} \cup ValueStrings(d, key)) \ StringsOf(type, v), empty)
      /\ Others(d, f, key)
      /\ key \in DOMAIN f.keys
      /\ f.heap = d.heap
      /\ f.keys[key].type = type
      /\ f.keys[key].value = v
      /\ f.keys[key].expires = d.keys[key].expires
  <2>1. IsValue(d.heap, d.keys[key].type, v)
        /\ StringsOf(d.keys[key].type, v) \subseteq {} \cup ValueStrings(d, key)
    BY <1>3, <1>4
  <2> QED BY <1>0, <2>1, SetValueOwn
<1> HIDE DEF f, empty, held
<1>6. Own(f, gone, empty)
  <2> HIDE DEF type
  <2> QED BY <1>4, <1>5
<1>7. /\ Own(e, gone \ gone, empty)
      /\ e.keys = f.keys
      /\ Agree(e.heap, f.heap, DOMAIN f.heap \ gone)
  BY <1>6, DeleteStringsOwn
<1> HIDE DEF e
<1>8. Own(e, {}, empty)
  <2>1. gone \ gone = {}
    OBVIOUS
  <2> QED BY <1>7, <2>1
<1>9. /\ Others(d, e, key)
      /\ Newly(d, e, key, v)
      /\ Agree(e.heap, d.heap, DOMAIN d.heap \ gone)
  BY <1>5, <1>7 DEF Others, Newly
<1>10. Filling(e, key) /\ (type # "list" \/ v # <<>> => AtRest(e))
  BY <1>0, <1>8, BareEnds
<1> QED BY <1>1, <1>9, <1>10

(* The strings of a value are deleted with the key. *)
LEMMA ValueGoes ==
  ASSUME NEW d, NEW key \in DOMAIN d.keys, Filling(d, key)
  PROVE  LET e == KeyDelete(DeleteStrings(d, StringsOf(d.keys[key].type, d.keys[key].value)), key)
         IN /\ AtRest(e)
            /\ Others(d, e, key)
            /\ key \notin DOMAIN e.keys
<1> DEFINE gone == StringsOf(d.keys[key].type, d.keys[key].value)
           f == KeyDelete(d, key)
           e == DeleteStrings(f, gone)
           bare == {key}
<1>0. Own(d, {}, bare) /\ bare \ {key} = {}
  BY DEF Filling
<1> HIDE DEF bare
<1>1. KeyDelete(DeleteStrings(d, gone), key) = e
  <2>1. IsDatabase(d)
    BY <1>0 DEF Own
  <2> HIDE DEF gone
  <2> QED BY <2>1, DeleteCommutes
<1>2. /\ Own(f, {} \cup gone, bare \ {key})
      /\ Others(d, f, key)
      /\ key \notin DOMAIN f.keys
  BY <1>0, KeyDeleteOwn
<1> HIDE DEF f, gone
<1>3. Own(f, gone, bare \ {key})
  <2>1. {} \cup gone = gone
    OBVIOUS
  <2> QED BY <1>2, <2>1
<1>4. Own(e, gone \ gone, bare \ {key}) /\ e.keys = f.keys
  BY <1>3, DeleteStringsOwn
<1> HIDE DEF e
<1>5. AtRest(e)
  <2>1. gone \ gone = {}
    OBVIOUS
  <2> QED BY <1>0, <1>4, <2>1 DEF AtRest
<1>6. Others(d, e, key) /\ key \notin DOMAIN e.keys
  BY <1>2, <1>4 DEF Others
<1> QED BY <1>1, <1>5, <1>6 DEF gone

(* The types whose values are made of elements *)
Aggregates == {"list", "set", "hash", "zset"}

LEMMA AtRestFilling ==
  ASSUME NEW d, NEW key, AtRest(d)
  PROVE  Filling(d, key)
BY OwnMore DEF AtRest, Filling

(* Nothing is being filled once the value is there. *)
LEMMA FillingAtRest ==
  ASSUME NEW d, NEW key, Filling(d, key),
         key \notin DOMAIN d.keys \/ d.keys[key].type # "list" \/ d.keys[key].value # <<>>
  PROVE  AtRest(d)
BY DEF Filling, AtRest, Own

LEMMA EmptyValueIsValue ==
  ASSUME NEW heap, NEW type \in Aggregates
  PROVE  /\ IsValue(heap, type, EmptyValue(type))
         /\ StringsOf(type, EmptyValue(type)) = {}
<1>1. CASE type = "zset"
  <2> DEFINE v == [scores |-> <<>>, ranks |-> <<>>]
  <2>1. EmptyValue(type) = v
    BY <1>1 DEF EmptyValue
  <2>2. v.scores = <<>> /\ v.ranks = <<>> /\ v = [scores |-> v.scores, ranks |-> v.ranks]
    OBVIOUS
  <2> HIDE DEF v
  <2>3. IsFunction(<<>>) /\ DOMAIN <<>> = {} /\ IsFiniteSet({})
    BY FS_EmptySet DEF IsFunction
  <2>4. v.ranks \in Seq([score : Int, value : Nat])
    BY <2>2
  <2>5. IsZset(heap, v)
    BY <2>2, <2>3, <2>4 DEF IsZset
  <2> QED BY <1>1, <2>1, <2>2, <2>3, <2>5 DEF IsValue, StringsOf, ZsetStrings, Types
<1>2. CASE type # "zset"
  <2>1. EmptyValue(type) = <<>>
    BY <1>2 DEF EmptyValue
  <2>2. IsFunction(<<>>) /\ DOMAIN <<>> = {} /\ IsFiniteSet({})
    BY FS_EmptySet DEF IsFunction
  <2>3. IsList(<<>>)
    BY DEF IsList, IsInjective
  <2>4. IsSet(heap, <<>>) /\ IsHash(heap, <<>>)
    BY <2>2 DEF IsSet, IsHash
  <2>5. ListStrings(<<>>) = {} /\ SetStrings(<<>>) = {} /\ HashStrings(<<>>) = {}
    BY <2>2 DEF ListStrings, SetStrings, HashStrings, Range
  <2> QED BY <1>2, <2>1, <2>3, <2>4, <2>5 DEF IsValue, StringsOf, Types, Aggregates
<1> QED BY <1>1, <1>2

(* A new key is empty and does not expire. *)
LEMMA CreateOwn ==
  ASSUME NEW d, AtRest(d), NEW key, key \notin DOMAIN d.keys,
         NEW type \in Aggregates, NEW version
  PROVE  LET e == KeySet(d, key, type, EmptyValue(type), 0, version)
         IN /\ Filling(e, key)
            /\ type # "list" => AtRest(e)
            /\ Others(d, e, key)
            /\ key \in DOMAIN e.keys
            /\ e.keys[key].type = type
            /\ e.keys[key].value = EmptyValue(type)
            /\ e.keys[key].expires = 0
<1> DEFINE e == KeySet(d, key, type, EmptyValue(type), 0, version)
           none == {}
           left == (none \cup ValueStrings(d, key)) \ StringsOf(type, EmptyValue(type))
           empty == (none \ {key}) \cup BareOf(key, type, EmptyValue(type))
<1>1. /\ IsValue(d.heap, type, EmptyValue(type))
      /\ StringsOf(type, EmptyValue(type)) = {}
  BY EmptyValueIsValue
<1>2. ValueStrings(d, key) = {}
  BY DEF ValueStrings
<1>3. /\ Own(d, none, none)
      /\ StringsOf(type, EmptyValue(type)) \subseteq none \cup ValueStrings(d, key)
      /\ left = {}
      /\ empty = BareOf(key, type, EmptyValue(type))
      /\ MaySet(d, none, none, key, type, EmptyValue(type), left, empty)
  BY <1>1, <1>2 DEF AtRest, MaySet
<1> HIDE DEF e, none, left, empty
<1>4. /\ Own(e, left, empty)
      /\ Others(d, e, key)
      /\ key \in DOMAIN e.keys
      /\ e.keys[key].type = type
      /\ e.keys[key].value = EmptyValue(type)
      /\ e.keys[key].expires = 0
  BY <1>3, KeySetOwn DEF e
<1>5. Filling(e, key) /\ (type # "list" => AtRest(e))
  <2>1. Own(e, {}, empty)
    BY <1>3, <1>4
  <2> QED BY <1>3, <2>1, BareEnds
<1> QED BY <1>4, <1>5 DEF e

LEMMA GetOrCreateOwn ==
  ASSUME NEW d, AtRest(d), NEW key, NEW type \in Aggregates
  PROVE  LET r == GetOrCreate(d, key, type)
         IN /\ r.ret = "ok" => /\ key \in DOMAIN r.db.keys
                               /\ r.db.keys[key].type = type
                               /\ Filling(r.db, key)
                               /\ type # "list" => AtRest(r.db)
            /\ r.ret # "ok" => AtRest(r.db)
            /\ Others(d, r.db, key)
            /\ key \in DOMAIN d.keys /\ ~Expired(d, key) => r.db = d
            /\ key \notin DOMAIN d.keys => /\ r.ret = "ok"
                                           /\ r.db.keys[key].value = EmptyValue(type)
                                           /\ r.db.keys[key].expires = 0
<1> DEFINE r == GetOrCreate(d, key, type)
           g == KeyGet(d, key)
           e == KeySet(g.db, key, type, EmptyValue(type), 0, Rand(g.db))
<1>1. /\ Own(g.db, {}, {})
      /\ g.ret = "ok" => g.db = d /\ key \in DOMAIN d.keys
      /\ g.ret # "ok" => g.ret = "not found" /\ key \notin DOMAIN g.db.keys
      /\ Others(d, g.db, key)
      /\ key \in DOMAIN d.keys /\ ~Expired(d, key) => g.db = d
  BY KeyGetOwn DEF AtRest
<1>2. CASE g.ret = "not found"
  <2>1. r.db = e /\ r.ret = "ok"
    <3> HIDE DEF g
    <3> QED BY <1>2 DEF GetOrCreate, Ret, g
  <2>2. AtRest(g.db) /\ key \notin DOMAIN g.db.keys
    <3> HIDE DEF g
    <3> QED BY <1>1, <1>2 DEF AtRest
  <2>3. /\ Filling(e, key)
        /\ type # "list" => AtRest(e)
        /\ Others(g.db, e, key)
        /\ key \in DOMAIN e.keys
        /\ e.keys[key].type = type
        /\ e.keys[key].value = EmptyValue(type)
        /\ e.keys[key].expires = 0
    <3> HIDE DEF g
    <3> QED BY <2>2, CreateOwn
  <2>4. Others(d, e, key)
    <3> HIDE DEF g, e
    <3> QED BY <1>1, <2>3, OthersAgain
  <2>5. ~(key \in DOMAIN d.keys /\ ~Expired(d, key))
    <3>1. ASSUME key \in DOMAIN d.keys, ~Expired(d, key) PROVE FALSE
      <4>1. g.ret = "ok"
        BY <3>1 DEF KeyGet, Ret
      <4> QED BY <4>1, <1>2
    <3> QED BY <3>1
  <2> HIDE DEF r, e, g
  <2> QED BY <2>1, <2>3, <2>4, <2>5 DEF r
<1>3. CASE g.ret # "not found"
  <2>1. g.ret = "ok" /\ g.db = d /\ key \in DOMAIN d.keys
    <3> HIDE DEF g
    <3> QED BY <1>1, <1>3
  <2>2. \/ d.keys[key].type # type /\ r.ret = "wrong type" /\ r.db = d
        \/ d.keys[key].type = type /\ r = g
    <3> HIDE DEF g
    <3> QED BY <1>3 DEF GetOrCreate, Fail, g
  <2>3. Filling(d, key)
    BY AtRestFilling
  <2>4. Others(d, d, key)
    BY DEF Others
  <2> HIDE DEF g, r
  <2> QED BY <2>1, <2>2, <2>3, <2>4 DEF r
<1> QED BY <1>2, <1>3

(* The entry that a key has gets another expiry or version. *)
LEMMA SameValueOwn ==
  ASSUME NEW d, AtRest(d), NEW key \in DOMAIN d.keys, NEW expires, NEW version
  PROVE  LET e == KeySet(d, key, d.keys[key].type, d.keys[key].value, expires, version)
         IN /\ AtRest(e)
            /\ Others(d, e, key)
            /\ key \in DOMAIN e.keys
            /\ e.keys[key].type = d.keys[key].type
            /\ e.keys[key].value = d.keys[key].value
            /\ Agree(e.heap, d.heap, StringsOf(d.keys[key].type, d.keys[key].value))
<1> DEFINE type == d.keys[key].type
           value == d.keys[key].value
           held == ValueStrings(d, key)
           none == {}
           left == (none \cup held) \ StringsOf(type, value)
           empty == (none \ {key}) \cup BareOf(key, type, value)
           e == KeySet(d, key, type, value, expires, version)
<1>1. IsValue(d.heap, type, value) /\ ~(type = "list" /\ value = <<>>)
  BY DEF AtRest, Own, Keeps
<1>2. held = StringsOf(type, value)
  BY DEF ValueStrings
<1>3. /\ Own(d, none, none)
      /\ StringsOf(type, value) \subseteq none \cup held
      /\ left = {} /\ empty = {}
      /\ MaySet(d, none, none, key, type, value, left, empty)
      /\ Usable(d, none, key) = StringsOf(type, value)
  BY <1>1, <1>2 DEF AtRest, BareOf, MaySet, Usable
<1> HIDE DEF type, value, none, e, left, empty
<1>4. /\ Own(e, left, empty)
      /\ Others(d, e, key)
      /\ key \in DOMAIN e.keys
      /\ e.keys[key].type = type
      /\ e.keys[key].value = value
      /\ Agree(e.heap, d.heap, Usable(d, none, key))
  BY <1>3, KeySetOwn DEF e
<1> HIDE DEF held
<1>5. AtRest(e)
  BY <1>3, <1>4 DEF AtRest
<1>6. Agree(e.heap, d.heap, StringsOf(type, value))
  BY <1>3, <1>4
<1> QED BY <1>4, <1>5, <1>6 DEF e, type, value

LEMMA ObjectsOwn ==
  ASSUME NEW d, AtRest(d), NEW key, NEW type \in Aggregates,
         NEW update, NEW create, NEW expires
  PROVE  LET r == Objects(d, key, type, update, create, expires)
         IN /\ r.ret = "ok" => /\ key \in DOMAIN r.db.keys
                               /\ r.db.keys[key].type = type
                               /\ Filling(r.db, key)
                               /\ ~create \/ type # "list" => AtRest(r.db)
            /\ r.ret # "ok" => AtRest(r.db)
            /\ Others(d, r.db, key)
<1> DEFINE r == Objects(d, key, type, update, create, expires)
           g == IF create THEN GetOrCreate(d, key, type) ELSE KeyGet(d, key)
           e == g.db
           created == key \notin DOMAIN d.keys \/ Expired(d, key)
           f == KeySet(e, key, type, e.keys[key].value, expires, e.keys[key].version + 1)
<1>1. /\ g.ret = "ok" => /\ key \in DOMAIN e.keys
                         /\ Filling(e, key)
                         /\ create => e.keys[key].type = type
                         /\ ~create \/ type # "list" => AtRest(e)
      /\ g.ret # "ok" => AtRest(e)
      /\ Others(d, e, key)
      /\ ~created => e = d
  <2>1. CASE create
    <3>1. g = GetOrCreate(d, key, type)
      BY <2>1
    <3> HIDE DEF g
    <3> QED BY <2>1, <3>1, GetOrCreateOwn
  <2>2. CASE ~create
    <3>1. g = KeyGet(d, key)
      BY <2>2
    <3> HIDE DEF g
    <3>2. /\ Own(e, {}, {})
          /\ g.ret = "ok" => e = d /\ key \in DOMAIN d.keys
          /\ Others(d, e, key)
          /\ ~created => e = d
      BY <3>1, KeyGetOwn DEF AtRest
    <3>3. Filling(e, key)
      BY <3>2, AtRestFilling DEF AtRest
    <3> QED BY <2>2, <3>2, <3>3 DEF AtRest
  <2> QED BY <2>1, <2>2
<1>2. CASE g.ret # "ok"
  <2>1. r.ret = g.ret /\ r.db = e
    <3> HIDE DEF g
    <3> QED BY <1>2 DEF Objects, Then, Fail, g
  <2> HIDE DEF r, g
  <2> QED BY <1>1, <1>2, <2>1 DEF r
<1>3. CASE g.ret = "ok" /\ e.keys[key].type # type
  <2>1. r.ret = "wrong type" /\ r.db = e
    <3> HIDE DEF g
    <3> QED BY <1>3 DEF Objects, Then, Fail, g
  <2> HIDE DEF r, g
  <2> QED BY <1>1, <1>3, <2>1 DEF r
<1>4. CASE g.ret = "ok" /\ e.keys[key].type = type /\ (~update \/ created)
  <2>1. r.ret = "ok" /\ r.db = e
    <3> HIDE DEF g
    <3> QED BY <1>4 DEF Objects, Then, Ret, g
  <2> HIDE DEF r, g
  <2> QED BY <1>1, <1>4, <2>1 DEF r
<1>5. CASE g.ret = "ok" /\ e.keys[key].type = type /\ update /\ ~created
  <2>1. r.ret = "ok" /\ r.db = f
    <3> HIDE DEF g
    <3> QED BY <1>5 DEF Objects, Then, Ret, g
  <2>2. AtRest(e) /\ key \in DOMAIN e.keys
    <3> HIDE DEF g
    <3> QED BY <1>1, <1>5
  <2>3. AtRest(f) /\ Others(e, f, key) /\ key \in DOMAIN f.keys /\ f.keys[key].type = type
    <3> HIDE DEF g
    <3> QED BY <1>5, <2>2, SameValueOwn
  <2> HIDE DEF r, f
  <2>4. Others(d, f, key)
    <3> HIDE DEF g
    <3> QED BY <1>1, <2>3, OthersAgain
  <2>5. Filling(f, key)
    BY <2>3, AtRestFilling
  <2> QED BY <2>1, <2>3, <2>4, <2>5 DEF r
<1> HIDE DEF r, g
<1> QED BY <1>2, <1>3, <1>4, <1>5 DEF r

(* A lookup for reading does not change a key that is found. *)
LEMMA ObjectsRead ==
  ASSUME NEW d, AtRest(d), NEW key, NEW type \in Aggregates, NEW expires
  PROVE  LET r == Objects(d, key, type, FALSE, FALSE, expires)
         IN /\ r.ret \in {"ok", "wrong type"} => r.db = d /\ key \in DOMAIN d.keys
            /\ r.ret = "ok" => d.keys[key].type = type
            /\ key \in DOMAIN d.keys /\ ~Expired(d, key) => r.db = d
<1> DEFINE r == Objects(d, key, type, FALSE, FALSE, expires)
           g == KeyGet(d, key)
<1>1. /\ g.ret = "ok" => g.db = d /\ key \in DOMAIN d.keys
      /\ g.ret # "ok" => g.ret = "not found"
      /\ key \in DOMAIN d.keys /\ ~Expired(d, key) => g.db = d
  BY KeyGetOwn DEF AtRest
<1>2. /\ g.ret # "ok" => r.ret = g.ret
      /\ g.ret = "ok" => r.ret \in {"ok", "wrong type"}
      /\ r.ret = "ok" => g.db.keys[key].type = type
      /\ r.db = g.db
  <2> HIDE DEF g
  <2> QED BY DEF Objects, Then, Fail, Ret, g
<1> HIDE DEF r, g
<1> QED BY <1>1, <1>2 DEF r

(* One that creates a key finds it empty, and for ever. *)
LEMMA ObjectsNew ==
  ASSUME NEW d, AtRest(d), NEW key, key \notin DOMAIN d.keys, NEW type \in Aggregates,
         NEW update, NEW expires
  PROVE  LET r == Objects(d, key, type, update, TRUE, expires)
         IN /\ r.ret = "ok"
            /\ r.db.keys[key].expires = 0
<1> DEFINE r == Objects(d, key, type, update, TRUE, expires)
           g == GetOrCreate(d, key, type)
<1>1. /\ g.ret = "ok"
      /\ g.db.keys[key].type = type
      /\ g.db.keys[key].expires = 0
  BY GetOrCreateOwn
<1>2. r = Ret(g.db, <<>>)
  <2> HIDE DEF g
  <2> QED BY <1>1 DEF Objects, Then, g
<1>3. r.ret = "ok" /\ r.db = g.db
  <2> HIDE DEF g, r
  <2> QED BY <1>2 DEF Ret
<1> HIDE DEF r, g
<1> QED BY <1>1, <1>3 DEF r

(* Only the keys and the strings matter. *)
LEMMA SameOwn ==
  ASSUME NEW d, AtRest(d), NEW e, IsDatabase(e), e.keys = d.keys, e.heap = d.heap
  PROVE  AtRest(e)
BY DEF AtRest, Own

LEMMA ArgumentOwn ==
  ASSUME NEW d, AtRest(d)
  PROVE  /\ AtRest(Argument(d))
         /\ Argument(d).keys = d.keys /\ Argument(d).heap = d.heap
<1>1. IsDatabase(d)
  BY DEF AtRest, Own
<1>2. IsDatabase(Argument(d)) /\ Argument(d).keys = d.keys /\ Argument(d).heap = d.heap
  <2> DEFINE none == FALSE
  <2>1. Argument(d) = [d EXCEPT !.erange = none]
    BY DEF Argument
  <2> HIDE DEF none
  <2> QED BY <1>1, <2>1 DEF IsDatabase
<1> QED BY <1>2, SameOwn

LEMMA KeyGetRest ==
  ASSUME NEW d, AtRest(d), NEW key
  PROVE  LET r == KeyGet(d, key)
         IN /\ AtRest(r.db)
            /\ r.ret = "ok" => r.db = d /\ key \in DOMAIN d.keys
            /\ r.ret # "ok" => r.ret = "not found" /\ key \notin DOMAIN r.db.keys
            /\ Others(d, r.db, key)
BY KeyGetOwn DEF AtRest

LEMMA DeleteWithValueRest ==
  ASSUME NEW d, AtRest(d), NEW key
  PROVE  LET r == DeleteWithValue(d, key)
         IN /\ AtRest(r.db)
            /\ r.ret \in {"ok", "not found"}
            /\ Others(d, r.db, key)
            /\ key \notin DOMAIN r.db.keys
<1> DEFINE r == DeleteWithValue(d, key)
           none == {}
           left == none \ {key}
<1>1. Own(d, none, none)
  BY DEF AtRest
<1>2. left = none
  OBVIOUS
<1> HIDE DEF none
<1>3. /\ Own(r.db, none, left)
      /\ r.ret \in {"ok", "not found"}
      /\ Others(d, r.db, key)
      /\ key \notin DOMAIN r.db.keys
  BY <1>1, DeleteWithValueOwn
<1> HIDE DEF r, left
<1>4. AtRest(r.db)
  BY <1>2, <1>3 DEF AtRest, none
<1> QED BY <1>3, <1>4 DEF r

LEMMA KeyExpiresOwn ==
  ASSUME NEW d, AtRest(d), NEW key, NEW expires
  PROVE  AtRest(KeyExpires(d, key, expires).db)
<1> DEFINE r == KeyExpires(d, key, expires)
           g == KeyGet(d, key)
           e == KeySet(d, key, d.keys[key].type, d.keys[key].value, expires, d.keys[key].version + 1)
<1>1. AtRest(g.db) /\ (g.ret = "ok" => g.db = d /\ key \in DOMAIN d.keys)
  BY KeyGetRest
<1>2. CASE g.ret = "ok"
  <2>1. r.db = e
    <3> HIDE DEF g
    <3> QED BY <1>1, <1>2 DEF KeyExpires, Then, Ret, g
  <2>2. AtRest(e)
    <3> HIDE DEF g
    <3> QED BY <1>1, <1>2, SameValueOwn
  <2> HIDE DEF e, r
  <2> QED BY <2>1, <2>2 DEF r
<1>3. CASE g.ret # "ok"
  <2>1. r.db = g.db
    <3> HIDE DEF g
    <3> QED BY <1>3 DEF KeyExpires, Then, Fail, g
  <2> HIDE DEF g, r
  <2> QED BY <1>1, <2>1 DEF r
<1> QED BY <1>2, <1>3

LEMMA PersistOwn ==
  ASSUME NEW d, AtRest(d), NEW key
  PROVE  AtRest(Persist(d, key).db)
<1> DEFINE r == Persist(d, key)
           g == KeyGet(d, key)
<1>1. AtRest(g.db)
  BY KeyGetRest
<1>2. r.db \in {g.db, KeyExpires(g.db, key, 0).db}
  <2> HIDE DEF g
  <2> QED BY DEF Persist, Then, Fail, Ret, g
<1> HIDE DEF g, r
<1>3. AtRest(KeyExpires(g.db, key, 0).db)
  BY <1>1, KeyExpiresOwn
<1> QED BY <1>1, <1>2, <1>3 DEF r

DelStep(c, r, key) ==
    LET one == DeleteWithValue(r.db, key)
    IN Ret(one.db, IF one.ret = "ok" THEN <<r.out[1] + 1>> ELSE r.out)
DelHolds(c, i, r) == AtRest(r.db)
DelLoop == INSTANCE Loops WITH Step <- DelStep, Holds <- DelHolds

LEMMA DelOwn ==
  ASSUME NEW d, AtRest(d), NEW n \in Nat, NEW keys, DOMAIN keys = 1 .. n
  PROVE  AtRest(Del(d, keys).db)
<1>1. Del(d, keys) = DelLoop!Loop(0, Ret(d, <<0>>), keys)
  BY DEF Del, DelLoop!Loop, FoldLeft, MapThenFoldSet,
         DelStep, DelLoop!Greatest, Max
<1>2. DelHolds(0, 0, Ret(d, <<0>>))
  BY DEF DelHolds, Ret
<1>3. ASSUME NEW i \in 1 .. n, NEW r, DelHolds(0, i - 1, r)
      PROVE  DelHolds(0, i, DelStep(0, r, keys[i]))
  <2>1. AtRest(DeleteWithValue(r.db, keys[i]).db)
    BY <1>3, DeleteWithValueRest DEF DelHolds
  <2> QED BY <2>1 DEF DelHolds, DelStep, Ret
<1>4. DelHolds(0, n, DelLoop!Loop(0, Ret(d, <<0>>), keys))
  BY <1>2, <1>3, DelLoop!LoopKeeps, Inductive
<1> QED BY <1>1, <1>4 DEF DelHolds

(* A sequence with one element more or less *)
Inserted(t, s, i, e) ==
    /\ Len(t) = Len(s) + 1
    /\ \A j \in 1 .. Len(s) + 1 :
         t[j] = IF j < i THEN s[j] ELSE IF j = i THEN e ELSE s[j - 1]
Removed(t, s, i) ==
    /\ Len(t) = Len(s) - 1
    /\ \A j \in 1 .. Len(s) - 1 : t[j] = IF j < i THEN s[j] ELSE s[j + 1]

LEMMA InsertFacts ==
  ASSUME NEW S, NEW s \in Seq(S), NEW i \in 1 .. Len(s) + 1, NEW e \in S
  PROVE  InsertAt(s, i, e) \in Seq(S) /\ Inserted(InsertAt(s, i, e), s, i, e)
<1> DEFINE a == SubSeq(s, 1, i - 1)
           b == SubSeq(s, i, Len(s))
<1>1. /\ a \in Seq(S) /\ Len(a) = i - 1 /\ \A j \in 1 .. i - 1 : a[j] = s[j]
      /\ b \in Seq(S) /\ Len(b) = Len(s) - i + 1 /\ \A j \in 1 .. Len(s) - i + 1 : b[j] = s[i + j - 1]
  OBVIOUS
<1>2. <<e>> \in Seq(S) /\ Len(<<e>>) = 1 /\ <<e>>[1] = e
  OBVIOUS
<1> HIDE DEF a, b
<1> DEFINE c == a \o <<e>>
<1>3. /\ c \in Seq(S) /\ Len(c) = i /\ \A j \in 1 .. i : c[j] = IF j < i THEN a[j] ELSE e
  <2> DEFINE l == <<e>>
  <2>1. l \in Seq(S) /\ Len(l) = 1 /\ l[1] = e
    BY <1>2
  <2> HIDE DEF l
  <2>2. /\ a \o l \in Seq(S) /\ Len(a \o l) = Len(a) + Len(l)
        /\ \A j \in 1 .. Len(a) + Len(l) :
              (a \o l)[j] = IF j <= Len(a) THEN a[j] ELSE l[j - Len(a)]
    BY <1>1, <2>1, ConcatProperties
  <2>3. c = a \o l
    BY DEF l
  <2> HIDE DEF c
  <2>4. Len(a) + Len(l) = i /\ \A j \in 1 .. i : j <= Len(a) <=> j < i
    BY <1>1, <2>1
  <2>5. \A j \in 1 .. i : j < i \/ j - Len(a) = 1
    BY <1>1, <2>4
  <2> QED BY <2>1, <2>2, <2>3, <2>4, <2>5
<1> HIDE DEF c
<1>4. /\ c \o b \in Seq(S) /\ Len(c \o b) = Len(s) + 1
      /\ \A j \in 1 .. Len(s) + 1 : (c \o b)[j] = IF j <= i THEN c[j] ELSE b[j - i]
  <2> DEFINE t == c \o b
  <2>1. /\ t \in Seq(S) /\ Len(t) = Len(c) + Len(b)
        /\ \A j \in 1 .. Len(c) + Len(b) : t[j] = IF j <= Len(c) THEN c[j] ELSE b[j - Len(c)]
    BY <1>1, <1>3, ConcatProperties
  <2>2. Len(c) = i /\ Len(b) = Len(s) - i + 1 /\ Len(c) + Len(b) = Len(s) + 1
    BY <1>1, <1>3
  <2> HIDE DEF t
  <2>3. Len(t) = Len(s) + 1 /\ \A j \in 1 .. Len(s) + 1 : t[j] = IF j <= i THEN c[j] ELSE b[j - i]
    BY <2>1, <2>2
  <2> QED BY <2>1, <2>3 DEF t
<1> DEFINE t == c \o b
<1>5. t = InsertAt(s, i, e)
  BY DEF InsertAt, a, b, c
<1> HIDE DEF t
<1>6. ASSUME NEW j \in 1 .. Len(s) + 1
      PROVE  t[j] = IF j < i THEN s[j] ELSE IF j = i THEN e ELSE s[j - 1]
  <2>1. t[j] = IF j <= i THEN c[j] ELSE b[j - i]
    BY <1>4 DEF t
  <2>2. CASE j < i
    <3>1. j \in 1 .. i /\ j \in 1 .. i - 1
      BY <2>2
    <3> QED BY <1>1, <1>3, <2>1, <2>2, <3>1
  <2>3. CASE j = i
    <3>1. j \in 1 .. i
      BY <2>3
    <3> QED BY <1>3, <2>1, <2>3, <3>1
  <2>4. CASE j > i
    <3>1. j - i \in 1 .. Len(s) - i + 1 /\ i + (j - i) - 1 = j - 1
      BY <2>4
    <3> QED BY <1>1, <2>1, <2>4, <3>1
  <2> QED BY <2>2, <2>3, <2>4
<1> QED BY <1>4, <1>5, <1>6 DEF Inserted, t

LEMMA RemoveFacts ==
  ASSUME NEW S, NEW s \in Seq(S), NEW i \in 1 .. Len(s)
  PROVE  RemoveAt(s, i) \in Seq(S) /\ Removed(RemoveAt(s, i), s, i)
<1> DEFINE a == SubSeq(s, 1, i - 1)
           b == SubSeq(s, i + 1, Len(s))
<1>1. /\ a \in Seq(S) /\ Len(a) = i - 1 /\ \A j \in 1 .. i - 1 : a[j] = s[j]
      /\ b \in Seq(S) /\ Len(b) = Len(s) - i /\ \A j \in 1 .. Len(s) - i : b[j] = s[i + j]
  OBVIOUS
<1> HIDE DEF a, b
<1>4. /\ a \o b \in Seq(S) /\ Len(a \o b) = Len(s) - 1
      /\ \A j \in 1 .. Len(s) - 1 : (a \o b)[j] = IF j < i THEN a[j] ELSE b[j - (i - 1)]
  <2> DEFINE t == a \o b
  <2>1. /\ t \in Seq(S) /\ Len(t) = Len(a) + Len(b)
        /\ \A j \in 1 .. Len(a) + Len(b) : t[j] = IF j <= Len(a) THEN a[j] ELSE b[j - Len(a)]
    BY <1>1, ConcatProperties
  <2>2. Len(a) = i - 1 /\ Len(b) = Len(s) - i /\ Len(a) + Len(b) = Len(s) - 1
    BY <1>1
  <2> HIDE DEF t
  <2>3. Len(t) = Len(s) - 1 /\ \A j \in 1 .. Len(s) - 1 : t[j] = IF j < i THEN a[j] ELSE b[j - (i - 1)]
    BY <2>1, <2>2
  <2> QED BY <2>1, <2>3 DEF t
<1> DEFINE t == a \o b
<1>5. t = RemoveAt(s, i)
  BY DEF RemoveAt, a, b
<1> HIDE DEF t
<1>6. ASSUME NEW j \in 1 .. Len(s) - 1
      PROVE  t[j] = IF j < i THEN s[j] ELSE s[j + 1]
  <2>1. t[j] = IF j < i THEN a[j] ELSE b[j - (i - 1)]
    BY <1>4 DEF t
  <2>2. CASE j < i
    <3>1. j \in 1 .. i - 1
      BY <2>2
    <3> QED BY <1>1, <2>1, <2>2, <3>1
  <2>4. CASE j >= i
    <3>1. j - (i - 1) \in 1 .. Len(s) - i /\ i + (j - (i - 1)) = j + 1
      BY <2>4
    <3> QED BY <1>1, <2>1, <2>4, <3>1
  <2> QED BY <2>2, <2>4
<1> QED BY <1>4, <1>5, <1>6 DEF Removed, t

-----------------------------------------------------------------------------
(* Lists *)
IsListAt(d, key) == key \in DOMAIN d.keys /\ d.keys[key].type = "list"

LEMMA ListFacts ==
  ASSUME NEW d, NEW key, Filling(d, key), IsListAt(d, key)
  PROVE  /\ Value(d, key) \in Seq(Nat)
         /\ IsInjective(Value(d, key))
         /\ ListStrings(Value(d, key)) \subseteq DOMAIN d.heap
         /\ AtRest(d) => Value(d, key) # <<>>
BY DEF Filling, AtRest, Own, IsListAt, Keeps, HeldBy, IsValue, IsList, StringsOf, Value

(* An element more *)
LEMMA ListPutOwn ==
  ASSUME NEW d, NEW key, Filling(d, key), IsListAt(d, key), NEW s, NEW position \in Int,
         \/ position \in 0 .. Len(Value(d, key))
         \/ -position - 1 \in 0 .. Len(Value(d, key))
  PROVE  /\ AtRest(ListPut(d, key, s, position))
         /\ IsListAt(ListPut(d, key, s, position), key)
         /\ Len(Value(ListPut(d, key, s, position), key)) = Len(Value(d, key)) + 1
         /\ Others(d, ListPut(d, key, s, position), key)
<1> DEFINE list == Value(d, key)
           i == IF position < 0 THEN Len(list) + position + 2 ELSE position + 1
           page == StringPage(d)
           new == InsertAt(list, i, page)
           e == SetValue(SetString(d, s), key, new)
<1>1. ListPut(d, key, s, position) = e
  BY DEF ListPut
<1>2. list \in Seq(Nat) /\ IsInjective(list) /\ ListStrings(list) \subseteq DOMAIN d.heap
  BY ListFacts
<1>3. Len(list) \in Nat /\ DOMAIN list = 1 .. Len(list)
  BY <1>2
<1>4. i \in 1 .. Len(list) + 1
  BY <1>3
<1>5. page \in Nat \ DOMAIN d.heap
  BY StringPageFacts DEF Filling, Own
<1>6. new \in Seq(Nat) /\ Inserted(new, list, i, page)
  BY <1>2, <1>4, <1>5, InsertFacts
<1>7. \A j \in 1 .. Len(list) : list[j] # page
  BY <1>2, <1>3, <1>5 DEF ListStrings, Range
<1> HIDE DEF list, i, page, new
<1>8. DOMAIN new = 1 .. Len(list) + 1
  BY <1>3, <1>6 DEF Inserted
<1>9. ListStrings(new) = ListStrings(list) \cup {page}
  <2>1. ASSUME NEW j \in 1 .. Len(list) + 1 PROVE new[j] \in ListStrings(list) \cup {page}
    <3>1. CASE j < i
      <4>1. j \in 1 .. Len(list) /\ new[j] = list[j]
        BY <1>3, <1>4, <1>6, <3>1 DEF Inserted
      <4> QED BY <1>3, <4>1 DEF ListStrings, Range
    <3>2. CASE j = i
      BY <1>6, <3>2 DEF Inserted
    <3>3. CASE j > i
      <4>1. j - 1 \in 1 .. Len(list) /\ new[j] = list[j - 1]
        BY <1>3, <1>4, <1>6, <3>3 DEF Inserted
      <4> QED BY <1>3, <4>1 DEF ListStrings, Range
    <3> QED BY <1>3, <1>4, <3>1, <3>2, <3>3
  <2>2. ASSUME NEW j \in 1 .. Len(list) PROVE list[j] \in ListStrings(new)
    <3>1. CASE j < i
      <4>1. j \in 1 .. Len(list) + 1 /\ new[j] = list[j]
        BY <1>3, <1>4, <1>6, <3>1 DEF Inserted
      <4> QED BY <1>8, <4>1 DEF ListStrings, Range
    <3>2. CASE j >= i
      <4>1. j + 1 \in 1 .. Len(list) + 1 /\ new[j + 1] = list[j]
        BY <1>3, <1>4, <1>6, <3>2 DEF Inserted
      <4> QED BY <1>8, <4>1 DEF ListStrings, Range
    <3> QED BY <1>3, <1>4, <3>1, <3>2
  <2>3. page \in ListStrings(new)
    <3>1. new[i] = page
      BY <1>3, <1>4, <1>6 DEF Inserted
    <3> QED BY <1>4, <1>8, <3>1 DEF ListStrings, Range
  <2> QED BY <1>3, <1>8, <2>1, <2>2, <2>3 DEF ListStrings, Range
<1>10. IsInjective(new)
  <2> SUFFICES ASSUME NEW j \in 1 .. Len(list) + 1, NEW k \in 1 .. Len(list) + 1, j < k, new[j] = new[k]
               PROVE  FALSE
    BY <1>3, <1>8 DEF IsInjective
  <2> DEFINE at(n) == IF n < i THEN n ELSE n - 1
  <2>1. \A n \in 1 .. Len(list) + 1 : n # i => at(n) \in 1 .. Len(list) /\ new[n] = list[at(n)]
    BY <1>3, <1>4, <1>6 DEF Inserted
  <2>2. new[i] = page
    BY <1>3, <1>4, <1>6 DEF Inserted
  <2>3. j # i /\ k # i
    BY <1>7, <2>1, <2>2
  <2>4. at(j) # at(k)
    BY <1>3, <1>4, <2>3
  <2>5. at(j) \in 1 .. Len(list) /\ at(k) \in 1 .. Len(list) /\ list[at(j)] = list[at(k)]
    BY <2>1, <2>3
  <2> HIDE DEF at
  <2> QED BY <1>2, <1>3, <2>4, <2>5 DEF IsInjective
<1>11. new # <<>>
  BY <1>3, <1>6 DEF Inserted
<1>12. LET type == d.keys[key].type
       IN /\ IsValue(SetString(d, s).heap, type, new)
          /\ StringsOf(type, new) = StringsOf(type, d.keys[key].value) \cup {page}
  BY <1>6, <1>9, <1>10 DEF IsListAt, IsValue, IsList, StringsOf, Types, list, Value
<1>13. /\ d.keys[key].type # "list" \/ new # <<>> => AtRest(e)
       /\ Others(d, e, key)
       /\ Newly(d, e, key, new)
  BY <1>12, ValueGrows DEF IsListAt, page
<1> HIDE DEF e
<1> QED BY <1>1, <1>6, <1>11, <1>13 DEF Newly, IsListAt, Value, Inserted, list

(* An element less, and the key with the last one *)
LEMMA ListTakeOwn ==
  ASSUME NEW d, NEW key, AtRest(d), IsListAt(d, key), NEW position \in Int,
         \/ position \in 0 .. Len(Value(d, key)) - 1
         \/ -position - 1 \in 0 .. Len(Value(d, key)) - 1
  PROVE  LET e == ListTake(d, key, position)
         IN /\ AtRest(e)
            /\ Others(d, e, key)
            /\ IF Len(Value(d, key)) = 1 THEN key \notin DOMAIN e.keys
               ELSE IsListAt(e, key) /\ Len(Value(e, key)) = Len(Value(d, key)) - 1
<1> DEFINE list == Value(d, key)
           i == IF position < 0 THEN Len(list) + position + 1 ELSE position + 1
           new == RemoveAt(list, i)
           gone == {list[i]}
           f == DeleteStrings(d, gone)
           e == ListTake(d, key, position)
<1>1. e = IF Len(list) = 1 THEN KeyDelete(f, key) ELSE SetValue(f, key, new)
  BY DEF ListTake
<1>2. Filling(d, key)
  BY AtRestFilling
<1>3. list \in Seq(Nat) /\ IsInjective(list)
  BY <1>2, ListFacts
<1>4. Len(list) \in Nat /\ DOMAIN list = 1 .. Len(list)
  BY <1>3
<1>5. i \in 1 .. Len(list)
  BY <1>4
<1>6. new \in Seq(Nat) /\ Removed(new, list, i)
  BY <1>3, <1>5, RemoveFacts
<1>7. d.keys[key].type = "list" /\ key \in DOMAIN d.keys
      /\ StringsOf(d.keys[key].type, d.keys[key].value) = ListStrings(list)
  BY DEF IsListAt, StringsOf, Value
<1>8. CASE Len(list) = 1
  <2>1. ListStrings(list) = gone
    BY <1>4, <1>5, <1>8 DEF ListStrings, Range
  <2>2. e = KeyDelete(DeleteStrings(d, StringsOf(d.keys[key].type, d.keys[key].value)), key)
    <3> HIDE DEF e, list, gone
    <3> QED BY <1>1, <1>7, <1>8, <2>1
  <2>3. AtRest(e) /\ Others(d, e, key) /\ key \notin DOMAIN e.keys
    <3> HIDE DEF e
    <3> QED BY <1>2, <1>7, <2>2, ValueGoes
  <2> HIDE DEF e
  <2> QED BY <1>8, <2>3 DEF e
<1>9. CASE Len(list) # 1
  <2> HIDE DEF list, i, new
  <2>1. DOMAIN new = 1 .. Len(list) - 1
    BY <1>4, <1>5, <1>6 DEF Removed
  <2> DEFINE at(n) == IF n < i THEN n ELSE n + 1
  <2>2. \A n \in 1 .. Len(list) - 1 :
           at(n) \in 1 .. Len(list) /\ at(n) # i /\ new[n] = list[at(n)]
    BY <1>4, <1>5, <1>6 DEF Removed
  <2>3. \A n, m \in 1 .. Len(list) - 1 : n # m => at(n) # at(m)
    BY <1>4, <1>5
  <2>4. \A k \in 1 .. Len(list) : k # i => \E n \in 1 .. Len(list) - 1 : at(n) = k
    <3> SUFFICES ASSUME NEW k \in 1 .. Len(list), k # i
                 PROVE  \E n \in 1 .. Len(list) - 1 : at(n) = k
      OBVIOUS
    <3>1. CASE k < i
      <4>1. k \in 1 .. Len(list) - 1 /\ at(k) = k
        BY <1>4, <1>5, <3>1
      <4> QED BY <4>1
    <3>2. CASE k > i
      <4>1. k - 1 \in 1 .. Len(list) - 1 /\ at(k - 1) = k
        BY <1>4, <1>5, <3>2
      <4> QED BY <4>1
    <3> QED BY <1>4, <1>5, <3>1, <3>2
  <2> HIDE DEF at
  <2>5. IsInjective(new)
    BY <1>3, <1>4, <2>1, <2>2, <2>3 DEF IsInjective
  <2>6. ListStrings(new) = ListStrings(list) \ gone
    <3>1. ASSUME NEW n \in 1 .. Len(list) - 1 PROVE new[n] \in ListStrings(list) \ gone
      <4>1. list[at(n)] # list[i]
        BY <1>3, <1>4, <1>5, <2>2 DEF IsInjective
      <4> QED BY <1>4, <2>2, <4>1 DEF ListStrings, Range
    <3>2. ASSUME NEW k \in 1 .. Len(list), list[k] \notin gone PROVE list[k] \in ListStrings(new)
      <4>1. k # i
        BY <3>2
      <4>2. PICK n \in 1 .. Len(list) - 1 : at(n) = k
        BY <2>4, <4>1
      <4> QED BY <2>1, <2>2, <4>2 DEF ListStrings, Range
    <3> HIDE DEF gone
    <3> QED BY <1>4, <2>1, <3>1, <3>2 DEF ListStrings, Range
  <2>7. gone \subseteq ListStrings(list)
    BY <1>4, <1>5 DEF ListStrings, Range
  <2>8. new # <<>>
    BY <1>4, <1>5, <1>6, <1>9 DEF Removed
  <2> HIDE DEF gone
  <2>9. LET type == d.keys[key].type
        IN /\ IsValue(d.heap, type, new)
           /\ StringsOf(type, new) = StringsOf(type, d.keys[key].value) \ gone
           /\ gone \subseteq StringsOf(type, d.keys[key].value)
    BY <1>6, <1>7, <2>5, <2>6, <2>7 DEF IsValue, IsList, StringsOf, Types
  <2> DEFINE g == SetValue(f, key, new)
  <2>10. /\ d.keys[key].type # "list" \/ new # <<>> => AtRest(g)
         /\ Others(d, g, key)
         /\ Newly(d, g, key, new)
    BY <1>2, <1>7, <2>9, ValueShrinks
  <2>11. e = g
    <3> HIDE DEF e
    <3> QED BY <1>1, <1>9
  <2> HIDE DEF g, e
  <2>12. AtRest(e) /\ Others(d, e, key) /\ IsListAt(e, key) /\ Value(e, key) = new
    BY <1>7, <2>8, <2>10, <2>11 DEF Newly, IsListAt, Value
  <2> QED BY <1>6, <1>9, <2>12 DEF Removed, list, e
<1> QED BY <1>8, <1>9

LEMMA ListObjectsOwn ==
  ASSUME NEW d, AtRest(d), NEW key, NEW update, NEW create
  PROVE  LET r == ListObjects(d, key, update, create)
         IN /\ r.ret = "ok" => Filling(r.db, key) /\ IsListAt(r.db, key) /\ (~create => AtRest(r.db))
            /\ r.ret # "ok" => AtRest(r.db)
            /\ Others(d, r.db, key)
<1>1. "list" \in Aggregates
  BY DEF Aggregates
<1> QED BY <1>1, ObjectsOwn DEF ListObjects, IsListAt

(* A list that is there has elements. *)
LEMMA ListLength ==
  ASSUME NEW d, AtRest(d), NEW key, IsListAt(d, key)
  PROVE  /\ Value(d, key) \in Seq(Nat)
         /\ Len(Value(d, key)) \in Nat \ {0}
         /\ DOMAIN Value(d, key) = 1 .. Len(Value(d, key))
<1>1. Value(d, key) \in Seq(Nat) /\ Value(d, key) # <<>>
  BY ListFacts, AtRestFilling
<1> QED BY <1>1

PushStep(c, e, s) == ListPut(e, c[1], s, IF c[2] THEN 0 ELSE -1)
PushHolds(c, i, e) ==
    /\ Filling(e, c[1])
    /\ IsListAt(e, c[1])
    /\ i > 0 => AtRest(e)
PushLoop == INSTANCE Loops WITH Step <- PushStep, Holds <- PushHolds

LEMMA PushLoopOwn ==
  ASSUME NEW d, AtRest(d), NEW c, NEW create, NEW n \in Nat \ {0}, NEW values, DOMAIN values = 1 .. n
  PROVE  AtRest(Push(d, c[1], create, c[2], values).db)
<1> DEFINE key == c[1]
           o == ListObjects(d, c[1], TRUE, create)
           r == Push(d, c[1], create, c[2], values)
           end == PushLoop!Loop(c, o.db, values)
<1>1. /\ o.ret = "ok" => Filling(o.db, key) /\ IsListAt(o.db, key)
      /\ o.ret # "ok" => AtRest(o.db)
  BY ListObjectsOwn
<1>2. CASE o.ret = "ok"
  <2> HIDE DEF o
  <2>1. r.db = end
    BY <1>2 DEF Push, Then, Ret, o, PushLoop!Loop, FoldLeft, MapThenFoldSet, PushStep, PushLoop!Greatest, Max
  <2>2. PushHolds(c, 0, o.db)
    BY <1>1, <1>2 DEF PushHolds
  <2>3. ASSUME NEW i \in 1 .. n, NEW e, PushHolds(c, i - 1, e)
        PROVE  PushHolds(c, i, PushStep(c, e, values[i]))
    <3> DEFINE position == IF c[2] THEN 0 ELSE -1
    <3>1. Filling(e, key) /\ IsListAt(e, key)
      BY <2>3 DEF PushHolds
    <3>2. Len(Value(e, key)) \in Nat
      BY <3>1, ListFacts
    <3>3. position \in Int /\ (position \in 0 .. Len(Value(e, key)) \/ -position - 1 \in 0 .. Len(Value(e, key)))
      BY <3>2
    <3> HIDE DEF position
    <3>4. AtRest(ListPut(e, key, values[i], position)) /\ IsListAt(ListPut(e, key, values[i], position), key)
      BY <3>1, <3>3, ListPutOwn
    <3> QED BY <3>4, AtRestFilling DEF PushHolds, PushStep, position
  <2>4. PushHolds(c, n, end)
    BY <2>2, <2>3, PushLoop!LoopKeeps, Inductive
  <2> HIDE DEF end, r
  <2> QED BY <2>1, <2>4 DEF PushHolds, r
<1>3. CASE o.ret # "ok"
  <2>1. r.db = o.db
    <3> HIDE DEF o
    <3> QED BY <1>3 DEF Push, Then, Fail, o
  <2> HIDE DEF r, o
  <2> QED BY <1>1, <1>3, <2>1 DEF r
<1> QED BY <1>2, <1>3

LEMMA PushOwn ==
  ASSUME NEW d, AtRest(d), NEW key, NEW create, NEW left,
         NEW n \in Nat \ {0}, NEW values, DOMAIN values = 1 .. n
  PROVE  AtRest(Push(d, key, create, left, values).db)
<1> DEFINE c == <<key, left>>
<1>1. c[1] = key /\ c[2] = left
  OBVIOUS
<1> HIDE DEF c
<1>2. AtRest(Push(d, c[1], create, c[2], values).db)
  BY PushLoopOwn
<1> QED BY <1>1, <1>2

LEMMA PopOwn ==
  ASSUME NEW d, AtRest(d), NEW key, NEW left
  PROVE  LET r == Pop(d, key, left)
         IN /\ AtRest(r.db)
            /\ r.ret = "ok" => DOMAIN r.out = 1 .. 1
<1> DEFINE o == ListObjects(d, key, TRUE, FALSE)
           position == IF left THEN 0 ELSE -1
           r == Pop(d, key, left)
<1>1. /\ o.ret = "ok" => IsListAt(o.db, key) /\ AtRest(o.db)
      /\ o.ret # "ok" => AtRest(o.db)
  BY ListObjectsOwn
<1>2. CASE o.ret = "ok"
  <2>1. r.db = ListTake(o.db, key, position) /\ DOMAIN r.out = 1 .. 1
    <3> HIDE DEF o
    <3> QED BY <1>2 DEF Pop, Then, Ret, o
  <2> HIDE DEF o
  <2>2. Len(Value(o.db, key)) \in Nat \ {0}
    BY <1>1, <1>2, ListLength
  <2>3. /\ position \in Int
        /\ \/ position \in 0 .. Len(Value(o.db, key)) - 1
           \/ -position - 1 \in 0 .. Len(Value(o.db, key)) - 1
    BY <2>2
  <2> HIDE DEF position
  <2>4. AtRest(ListTake(o.db, key, position))
    BY <1>1, <1>2, <2>3, ListTakeOwn
  <2> HIDE DEF r
  <2> QED BY <2>1, <2>4 DEF r
<1>3. CASE o.ret # "ok"
  <2>1. r.db = o.db /\ r.ret = o.ret
    <3> HIDE DEF o
    <3> QED BY <1>3 DEF Pop, Then, Fail, o
  <2> HIDE DEF o, r
  <2> QED BY <1>1, <1>3, <2>1 DEF r
<1> QED BY <1>2, <1>3

LEMMA RpoplpushOwn ==
  ASSUME NEW d, AtRest(d), NEW source, NEW destination
  PROVE  AtRest(Rpoplpush(d, source, destination).db)
<1> DEFINE popped == Pop(d, source, FALSE)
           pushed == Push(popped.db, destination, TRUE, TRUE, popped.out)
           r == Rpoplpush(d, source, destination)
<1>1. AtRest(popped.db) /\ (popped.ret = "ok" => DOMAIN popped.out = 1 .. 1)
  BY PopOwn
<1>2. CASE popped.ret = "ok"
  <2>1. r.db = pushed.db
    <3> HIDE DEF popped
    <3> QED BY <1>2 DEF Rpoplpush, Then, Ret, Fail, popped
  <2> HIDE DEF popped
  <2>2. AtRest(pushed.db)
    <3>1. DOMAIN popped.out = 1 .. 1 /\ 1 \in Nat \ {0}
      BY <1>1, <1>2
    <3> QED BY <1>1, <3>1, PushOwn
  <2> HIDE DEF pushed, r
  <2> QED BY <2>1, <2>2 DEF r
<1>3. CASE popped.ret # "ok"
  <2>1. r.db = popped.db
    <3> HIDE DEF popped
    <3> QED BY <1>3 DEF Rpoplpush, Then, Fail, popped
  <2> HIDE DEF popped, r
  <2> QED BY <1>1, <2>1 DEF r
<1> QED BY <1>2, <1>3

LEMMA LinsertOwn ==
  ASSUME NEW d, AtRest(d), NEW key, NEW after, NEW pivot, NEW s
  PROVE  AtRest(Linsert(d, key, after, pivot, s).db)
<1> DEFINE o == ListObjects(d, key, TRUE, FALSE)
           list == Value(o.db, key)
           at == {i \in DOMAIN list : o.db.heap[list[i]] = pivot}
           position == Min(at) - 1 + (IF after THEN 1 ELSE 0)
           r == Linsert(d, key, after, pivot, s)
<1>1. /\ o.ret = "ok" => IsListAt(o.db, key) /\ AtRest(o.db)
      /\ o.ret # "ok" => AtRest(o.db)
  BY ListObjectsOwn
<1>2. CASE o.ret = "ok" /\ at # {}
  <2>1. r.db = ListPut(o.db, key, s, position)
    <3> HIDE DEF o
    <3> QED BY <1>2 DEF Linsert, Then, Ret, o
  <2> HIDE DEF o
  <2>2. Len(list) \in Nat \ {0} /\ DOMAIN list = 1 .. Len(list)
    BY <1>1, <1>2, ListLength
  <2>3. at \subseteq 1 .. Len(list) /\ at \in SUBSET Nat /\ at # {}
    BY <1>2, <2>2
  <2> HIDE DEF at
  <2>4. Min(at) \in at
    BY <2>3, LeastFacts
  <2>5. position \in Int /\ position \in 0 .. Len(list)
    <3> DEFINE m == Min(at)
    <3>1. m \in 1 .. Len(list)
      BY <2>3, <2>4
    <3> HIDE DEF m, list
    <3>2. position = m - 1 + (IF after THEN 1 ELSE 0)
      BY DEF m
    <3> HIDE DEF position
    <3> QED BY <2>2, <3>1, <3>2
  <2> HIDE DEF position
  <2>6. AtRest(ListPut(o.db, key, s, position))
    BY <1>1, <1>2, <2>5, AtRestFilling, ListPutOwn
  <2> HIDE DEF r
  <2> QED BY <2>1, <2>6 DEF r
<1>3. CASE ~(o.ret = "ok" /\ at # {})
  <2>1. r.db = o.db
    <3> HIDE DEF o
    <3> QED BY <1>3 DEF Linsert, Then, Fail, o
  <2> HIDE DEF o, r
  <2> QED BY <1>1, <2>1 DEF r
<1> QED BY <1>2, <1>3

(* LREM removes what it finds as often as it is to. *)
LremLoopStep(c, r, i) == LremStep(c[1], c[2], c[3], r)
LremHolds(c, i, r) ==
    AtRest(r.db) /\ (c[1] \in DOMAIN r.db.keys => IsListAt(r.db, c[1]))
LremLoop == INSTANCE Loops WITH Step <- LremLoopStep, Holds <- LremHolds

LEMMA GreatestFacts ==
  ASSUME NEW n \in Nat, NEW S \in SUBSET (1 .. n), S # {}
  PROVE  Max(S) \in S
<1> DEFINE T == {n - x : x \in S}
<1>1. T \in SUBSET Nat /\ T # {}
  <2>1. \A x \in S : n - x \in Nat
    OBVIOUS
  <2> QED BY <2>1
<1>2. PICK t \in T : \A u \in T : t <= u
  <2> HIDE DEF T
  <2> QED BY <1>1, LeastNatural
<1>3. PICK x \in S : t = n - x
  BY <1>2
<1>4. \A y \in S : x >= y
  <2>1. ASSUME NEW y \in S PROVE x >= y
    <3>1. n - y \in T
      OBVIOUS
    <3>2. n - x <= n - y
      BY <1>2, <1>3, <3>1
    <3> QED BY <3>2
  <2> QED BY <2>1
<1> QED BY <1>4 DEF Max

LEMMA LremStepOwn ==
  ASSUME NEW key, NEW s, NEW direction, NEW r, AtRest(r.db),
         key \in DOMAIN r.db.keys => IsListAt(r.db, key)
  PROVE  LET t == LremStep(key, s, direction, r)
         IN /\ AtRest(t.db)
            /\ key \in DOMAIN t.db.keys => IsListAt(t.db, key)
<1> DEFINE list == Value(r.db, key)
           found == IF key \in DOMAIN r.db.keys
                      THEN Search(r.db, list, s, r.pos, direction) ELSE {}
           at == CHOOSE p \in found : TRUE
           t == LremStep(key, s, direction, r)
<1>1. CASE found = {}
  <2>1. t = r
    BY <1>1 DEF LremStep
  <2> HIDE DEF t
  <2> QED BY <2>1 DEF t
<1>2. CASE found # {}
  <2>1. t.db = ListTake(r.db, key, at)
    BY <1>2 DEF LremStep
  <2>2. IsListAt(r.db, key)
    BY <1>2
  <2>3. Len(list) \in Nat \ {0} /\ DOMAIN list = 1 .. Len(list)
    BY <2>2, ListLength
  <2>4. at \in found
    BY <1>2
  <2>5. at \in 0 .. Len(list) - 1
    <3> DEFINE places == {i \in DOMAIN list : r.db.heap[list[i]] = s
                            /\ IF direction > 0 THEN i - 1 >= r.pos ELSE i - 1 <= r.pos}
    <3>1. found = Search(r.db, list, s, r.pos, direction)
      BY <1>2
    <3>2. places # {} /\ at = (IF direction > 0 THEN Min(places) ELSE Max(places)) - 1
      BY <2>4, <3>1 DEF Search
    <3>3. places \in SUBSET (1 .. Len(list)) /\ places \in SUBSET Nat
      BY <2>3
    <3> HIDE DEF places, at, found
    <3>4. Min(places) \in places /\ Max(places) \in places
      BY <2>3, <3>2, <3>3, LeastFacts, GreatestFacts
    <3>5. PICK m \in places : at = m - 1
      BY <3>2, <3>4
    <3>6. m \in 1 .. Len(list)
      BY <3>3
    <3> HIDE DEF list
    <3> QED BY <2>3, <3>5, <3>6
  <2>6. at \in Int
    <3> HIDE DEF at
    <3> QED BY <2>3, <2>5
  <2> HIDE DEF at, found
  <2>7. /\ AtRest(ListTake(r.db, key, at))
        /\ key \notin DOMAIN ListTake(r.db, key, at).keys \/ IsListAt(ListTake(r.db, key, at), key)
    BY <2>2, <2>5, <2>6, ListTakeOwn
  <2> HIDE DEF t
  <2> QED BY <2>1, <2>7 DEF t
<1> QED BY <1>1, <1>2

LEMMA LremLoopOwn ==
  ASSUME NEW d, AtRest(d), NEW c, NEW maxcount \in Nat
  PROVE  AtRest(Lrem(d, c[1], c[3], maxcount, c[2]).db)
<1> DEFINE key == c[1]
           o == ListObjects(d, c[1], FALSE, FALSE)
           size == Len(Value(o.db, c[1]))
           n == IF maxcount = 0 THEN size ELSE maxcount
           first == [db |-> o.db, count |-> 0, pos |-> IF c[3] > 0 THEN 0 ELSE size - 1]
           seq == [i \in 1 .. n |-> i]
           r == Lrem(d, c[1], c[3], maxcount, c[2])
           end == LremLoop!Loop(c, first, seq)
<1>1. /\ o.ret = "ok" => IsListAt(o.db, key) /\ AtRest(o.db)
      /\ o.ret # "ok" => AtRest(o.db)
  BY ListObjectsOwn
<1>2. CASE o.ret = "ok"
  <2> HIDE DEF o
  <2>1. r.db = end.db
    BY <1>2 DEF Lrem, Then, Ret, Fail, o, LremLoop!Loop, FoldLeft, MapThenFoldSet, LremLoopStep, LremLoop!Greatest, Max
  <2>2. size \in Nat
    BY <1>1, <1>2, ListLength
  <2> HIDE DEF size
  <2>3. n \in Nat /\ DOMAIN seq = 1 .. n
    BY <2>2
  <2> HIDE DEF n, seq
  <2>4. first.db = o.db
    OBVIOUS
  <2> HIDE DEF first
  <2>5. LremHolds(c, 0, first)
    BY <1>1, <1>2, <2>4 DEF LremHolds
  <2>6. ASSUME NEW i \in 1 .. n, NEW e, LremHolds(c, i - 1, e)
        PROVE  LremHolds(c, i, LremLoopStep(c, e, seq[i]))
    BY <2>6, LremStepOwn DEF LremHolds, LremLoopStep
  <2>7. LremHolds(c, n, end)
    BY <2>3, <2>5, <2>6, LremLoop!LoopKeeps, Inductive
  <2> HIDE DEF end, r
  <2> QED BY <2>1, <2>7 DEF LremHolds, r
<1>3. CASE o.ret # "ok"
  <2>1. r.db = o.db
    <3> HIDE DEF o
    <3> QED BY <1>3 DEF Lrem, Then, Fail, o
  <2> HIDE DEF r, o
  <2> QED BY <1>1, <1>3, <2>1 DEF r
<1> QED BY <1>2, <1>3

LEMMA LremOwn ==
  ASSUME NEW d, AtRest(d), NEW key, NEW direction, NEW maxcount \in Nat, NEW s
  PROVE  AtRest(Lrem(d, key, direction, maxcount, s).db)
<1> DEFINE c == <<key, s, direction>>
<1>1. c[1] = key /\ c[2] = s /\ c[3] = direction
  OBVIOUS
<1> HIDE DEF c
<1>2. AtRest(Lrem(d, c[1], c[3], maxcount, c[2]).db)
  BY LremLoopOwn
<1> QED BY <1>1, <1>2

LEMMA LsetOwn ==
  ASSUME NEW d, AtRest(d), NEW key, NEW index \in Int, NEW s
  PROVE  AtRest(Lset(d, key, index, s).db)
<1> DEFINE o == ListObjects(d, key, TRUE, FALSE)
           size == Len(Value(o.db, key))
           i == IF index < 0 THEN index + size ELSE index
           e == ListPut(o.db, key, s, i + 1)
           r == Lset(d, key, index, s)
<1>1. /\ o.ret = "ok" => IsListAt(o.db, key) /\ AtRest(o.db)
      /\ o.ret # "ok" => AtRest(o.db)
  BY ListObjectsOwn
<1>2. CASE o.ret = "ok" /\ i \in 0 .. size - 1
  <2>1. r.db = ListTake(e, key, i)
    <3> HIDE DEF o
    <3> QED BY <1>2 DEF Lset, Then, Ret, o
  <2>2. size \in Nat
    <3> HIDE DEF o
    <3> QED BY <1>1, <1>2, ListLength
  <2>3. i \in Int /\ i + 1 \in Int /\ i + 1 \in 0 .. size
    <3> HIDE DEF size
    <3> QED BY <1>2, <2>2
  <2> HIDE DEF i, o
  <2> DEFINE p == i + 1
  <2>4. p \in Int /\ p \in 0 .. size
    BY <2>3
  <2> HIDE DEF p
  <2>5. LET f == ListPut(o.db, key, s, p)
        IN AtRest(f) /\ IsListAt(f, key) /\ Len(Value(f, key)) = size + 1
    BY <1>1, <1>2, <2>4, AtRestFilling, ListPutOwn
  <2>6. AtRest(e) /\ IsListAt(e, key) /\ Len(Value(e, key)) = size + 1
    BY <2>5 DEF p
  <2> HIDE DEF e
  <2>7. i \in 0 .. Len(Value(e, key)) - 1
    <3> HIDE DEF size
    <3> QED BY <1>2, <2>2, <2>3, <2>6
  <2>8. AtRest(ListTake(e, key, i))
    BY <2>3, <2>6, <2>7, ListTakeOwn
  <2> HIDE DEF r
  <2> QED BY <2>1, <2>8 DEF r
<1>3. CASE ~(o.ret = "ok" /\ i \in 0 .. size - 1)
  <2>1. r.db = o.db
    <3> HIDE DEF o
    <3> QED BY <1>3 DEF Lset, Then, Fail, o
  <2> HIDE DEF o, r
  <2> QED BY <1>1, <2>1 DEF r
<1> QED BY <1>2, <1>3

(* LTRIM takes elements from either end. *)
TrimStep(c, e, i) == ListTake(e, c[1], c[2])
TrimHolds(c, i, e) ==
    AtRest(e) /\ IsListAt(e, c[1]) /\ Len(Value(e, c[1])) = c[3] - i
TrimLoop == INSTANCE Loops WITH Step <- TrimStep, Holds <- TrimHolds

LEMMA TrimLoopOwn ==
  ASSUME NEW c, NEW e, AtRest(e), IsListAt(e, c[1]), Len(Value(e, c[1])) = c[3],
         c[3] \in Nat, NEW n \in Nat, n < c[3], c[2] \in {0, -1}, NEW seq, DOMAIN seq = 1 .. n
  PROVE  LET f == TrimLoop!Loop(c, e, seq)
         IN AtRest(f) /\ IsListAt(f, c[1]) /\ Len(Value(f, c[1])) = c[3] - n
<1>1. TrimHolds(c, 0, e)
  BY DEF TrimHolds
<1>2. ASSUME NEW i \in 1 .. n, NEW f, TrimHolds(c, i - 1, f)
      PROVE  TrimHolds(c, i, TrimStep(c, f, seq[i]))
  <2> DEFINE k == Len(Value(f, c[1]))
  <2>1. AtRest(f) /\ IsListAt(f, c[1]) /\ k = c[3] - (i - 1)
    BY <1>2 DEF TrimHolds
  <2> HIDE DEF k
  <2>2. /\ c[2] \in Int /\ k \in Nat /\ k # 1
        /\ c[2] \in 0 .. k - 1 \/ -c[2] - 1 \in 0 .. k - 1
        /\ k - 1 = c[3] - i
    BY <2>1
  <2>3. LET g == ListTake(f, c[1], c[2])
        IN AtRest(g) /\ IsListAt(g, c[1]) /\ Len(Value(g, c[1])) = k - 1
    BY <2>1, <2>2, ListTakeOwn DEF k
  <2> QED BY <2>2, <2>3 DEF TrimHolds, TrimStep
<1>3. TrimHolds(c, n, TrimLoop!Loop(c, e, seq))
  BY <1>1, <1>2, TrimLoop!LoopKeeps, Inductive
<1> QED BY <1>3 DEF TrimHolds

LEMMA LargerOfTwo ==
  ASSUME NEW a \in Int, NEW b \in Int
  PROVE  Max({a, b}) \in {a, b} /\ Max({a, b}) >= a /\ Max({a, b}) >= b
<1> DEFINE S == {a, b}
<1>1. \E x \in S : \A y \in S : x >= y
  <2>1. CASE a >= b
    <3>1. \A y \in S : a >= y
      BY <2>1
    <3> QED BY <3>1
  <2>2. CASE b >= a
    <3>1. \A y \in S : b >= y
      BY <2>2
    <3> QED BY <3>1
  <2> QED BY <2>1, <2>2
<1>2. a \in S /\ b \in S
  OBVIOUS
<1> HIDE DEF S
<1>3. Max(S) \in S /\ \A y \in S : Max(S) >= y
  BY <1>1 DEF Max
<1> QED BY <1>2, <1>3 DEF S

LEMMA LtrimOwn ==
  ASSUME NEW d, AtRest(d), NEW key, NEW start \in Int, NEW stop \in Int
  PROVE  AtRest(Ltrim(d, key, start, stop).db)
<1> DEFINE o == ListObjects(d, key, TRUE, FALSE)
           size == Len(Value(o.db, key))
           from == ListStart(start, size)
           to == ListStop(stop, size)
           fore == [i \in 1 .. from |-> i]
           aft == [i \in 1 .. size - 1 - to |-> i]
           c == <<key, 0, size>>
           e == TrimLoop!Loop(c, o.db, fore)
           b == <<key, -1, size - from>>
           f == TrimLoop!Loop(b, e, aft)
           r == Ltrim(d, key, start, stop)
<1>1. /\ o.ret = "ok" => IsListAt(o.db, key) /\ AtRest(o.db)
      /\ o.ret # "ok" => AtRest(o.db)
  BY ListObjectsOwn
<1>2. CASE o.ret = "ok" /\ ~(from > to)
  <2>1. r.db = f
    <3>0. c[1] = key /\ c[2] = 0 /\ b[1] = key /\ b[2] = -1
      OBVIOUS
    <3> HIDE DEF o, c, b
    <3> QED BY <1>2, <3>0 DEF Ltrim, Then, Ret, o, TrimLoop!Loop, FoldLeft, MapThenFoldSet, TrimStep, TrimLoop!Greatest, Max
  <2>2. size \in Nat \ {0}
    <3> HIDE DEF o
    <3> QED BY <1>1, <1>2, ListLength
  <2>3. from \in Nat /\ to \in Int /\ from <= to /\ to <= size - 1
    <3> HIDE DEF size
    <3>1. from \in Nat
      <4> DEFINE t == start + size
      <4>1. t \in Int /\ 0 \in Int
        BY <2>2
      <4> HIDE DEF t, size
      <4>2. Max({t, 0}) \in {t, 0} /\ Max({t, 0}) >= 0
        BY <4>1, LargerOfTwo
      <4>3. from = IF start < 0 THEN Max({t, 0}) ELSE start
        BY DEF ListStart, t
      <4> HIDE DEF from
      <4> QED BY <4>1, <4>2, <4>3
    <3>2. to \in Int /\ to <= size - 1
      BY <2>2 DEF ListStop
    <3> HIDE DEF from, to
    <3> QED BY <1>2, <3>1, <3>2
  <2> DEFINE k == size - 1 - to
  <2>4. k \in Nat /\ from < size /\ k < size - from /\ size - from \in Nat
    <3> HIDE DEF size, from, to
    <3> QED BY <2>2, <2>3
  <2>5. c[1] = key /\ c[2] = 0 /\ c[3] = size /\ b[1] = key /\ b[2] = -1 /\ b[3] = size - from
    OBVIOUS
  <2>6. DOMAIN fore = 1 .. from /\ DOMAIN aft = 1 .. k
    OBVIOUS
  <2> HIDE DEF o, from, to, fore, aft, c, b, k, r
  <2>7. AtRest(e) /\ IsListAt(e, key) /\ Len(Value(e, key)) = size - from
    BY <1>1, <1>2, <2>2, <2>3, <2>4, <2>5, <2>6, TrimLoopOwn
  <2> HIDE DEF e
  <2>8. AtRest(f)
    BY <2>4, <2>5, <2>6, <2>7, TrimLoopOwn
  <2> HIDE DEF f
  <2> QED BY <2>1, <2>8 DEF r
<1>3. CASE o.ret = "ok" /\ from > to
  <2>1. r.db = DeleteWithValue(o.db, key).db
    <3> HIDE DEF o
    <3> QED BY <1>3 DEF Ltrim, Then, Fail, o
  <2> HIDE DEF o, r
  <2>2. AtRest(DeleteWithValue(o.db, key).db)
    BY <1>1, <1>3, DeleteWithValueRest
  <2> QED BY <2>1, <2>2 DEF r
<1>4. CASE o.ret # "ok"
  <2>1. r.db = o.db
    <3> HIDE DEF o
    <3> QED BY <1>4 DEF Ltrim, Then, Fail, o
  <2> HIDE DEF o, r
  <2> QED BY <1>1, <1>4, <2>1 DEF r
<1> QED BY <1>2, <1>3, <1>4

-----------------------------------------------------------------------------
(* Strings *)
(* A key that is new, for a string that is new *)
LEMMA NewStringOwn ==
  ASSUME NEW d, AtRest(d), NEW key, key \notin DOMAIN d.keys, NEW s, NEW expires, NEW version
  PROVE  LET e == KeySet(SetString(d, s), key, "string", StringPage(d), expires, version)
         IN /\ AtRest(e)
            /\ Others(d, e, key)
            /\ key \in DOMAIN e.keys
            /\ e.keys[key].type = "string"
<1> DEFINE f == SetString(d, s)
           page == StringPage(d)
           e == KeySet(f, key, "string", page, expires, version)
           none == {}
           loose == {page}
<1>1. Own(f, none \cup {page}, none) /\ f.keys = d.keys /\ page \in Nat \ DOMAIN d.heap
  BY SetStringOwn DEF AtRest
<1>2. none \cup {page} = loose
  OBVIOUS
<1>3. Own(f, loose, none)
  <2> HIDE DEF f, page, none, loose
  <2> QED BY <1>1, <1>2
<1>4. ValueStrings(f, key) = none
  <2> HIDE DEF f
  <2> QED BY <1>1 DEF ValueStrings
<1>5. StringsOf("string", page) = loose
  BY DEF StringsOf
<1>6. IsValue(f.heap, "string", page)
  BY DEF IsValue, Types
<1>7. BareOf(key, "string", page) = none
  BY DEF BareOf
<1>8. MaySet(f, loose, none, key, "string", page, none, none)
  <2>1. loose \subseteq loose \cup none /\ none = (loose \cup none) \ loose /\ none = (none \ {key}) \cup none
    OBVIOUS
  <2> HIDE DEF f, page, none, loose
  <2> QED BY <1>3, <1>4, <1>5, <1>6, <1>7, <2>1 DEF MaySet
<1> HIDE DEF f, page, none, loose
<1>9. /\ Own(e, none, none)
      /\ Others(f, e, key)
      /\ key \in DOMAIN e.keys
      /\ e.keys[key].type = "string"
  BY <1>8, KeySetOwn
<1> HIDE DEF e
<1>10. AtRest(e) /\ Others(d, e, key)
  BY <1>1, <1>9 DEF AtRest, none, Others
<1> QED BY <1>9, <1>10 DEF e, f, page

(* A key's string written over *)
LEMMA WriteOwn ==
  ASSUME NEW d, AtRest(d), NEW key \in DOMAIN d.keys, d.keys[key].type = "string",
         NEW page, page = d.keys[key].value, NEW s
  PROVE  AtRest([d EXCEPT !.heap = Put(@, page, s)])
<1> DEFINE e == [d EXCEPT !.heap = Put(@, page, s)]
           none == {}
           h == Put(d.heap, page, s)
<1>1. IsDatabase(d) /\ IsHeap(d.heap)
  BY DEF AtRest, Own
<1>2. e = [keys |-> d.keys, heap |-> h, now |-> d.now, given |-> d.given, erange |-> d.erange]
  <2> HIDE DEF h
  <2>1. e = [d EXCEPT !.heap = h]
    BY DEF h
  <2> HIDE DEF e
  <2> QED BY <1>1, <2>1 DEF IsDatabase
<1>3. e.keys = d.keys /\ e.heap = h /\ IsDatabase(e)
  <2> HIDE DEF h, e
  <2> QED BY <1>2 DEF IsDatabase
<1>4. StringsOf(d.keys[key].type, d.keys[key].value) = {page} /\ page \in HeldBy(d.keys[key])
  BY DEF HeldBy, StringsOf
<1>5. Keeps(d.heap, key, d.keys[key])
  BY DEF AtRest, Own
<1>6. page \in DOMAIN d.heap /\ page # d.keys[key].string
  BY <1>4, <1>5 DEF Keeps
<1>7. IsFunction(h) /\ DOMAIN h = DOMAIN d.heap /\ \A p \in DOMAIN d.heap \ {page} : h[p] = d.heap[p]
  <2>1. IsFunction(h) /\ DOMAIN h = DOMAIN d.heap \cup {page}
    BY PutDomain
  <2>2. \A p \in DOMAIN d.heap \ {page} : h[p] = d.heap[p]
    BY PutFacts
  <2>3. DOMAIN d.heap \cup {page} = DOMAIN d.heap
    BY <1>6
  <2> HIDE DEF h
  <2> QED BY <2>1, <2>2, <2>3
<1> HIDE DEF h
<1>8. Keeps(h, key, d.keys[key])
  <2>1. IsValue(h, d.keys[key].type, d.keys[key].value)
    BY DEF IsValue, Types
  <2>2. d.keys[key].string \in DOMAIN d.heap \ {page}
    BY <1>5, <1>6 DEF Keeps, HeldBy
  <2> QED BY <1>5, <1>7, <2>1, <2>2 DEF Keeps
<1>9. Changes(d, none, e, key, none, none)
  <2>1. Own(d, none, none)
    BY DEF AtRest
  <2>2. IsHeap(h)
    BY <1>1, <1>7 DEF IsHeap
  <2>3. ASSUME NEW k \in DOMAIN d.keys \ {key}, NEW p \in HeldBy(d.keys[k])
        PROVE  p \in DOMAIN h /\ h[p] = d.heap[p]
    <3>1. page \notin HeldBy(d.keys[k])
      BY <1>4, <2>1 DEF Own
    <3>2. p \in DOMAIN d.heap \ {page}
      BY <3>1, <2>1 DEF Own, Keeps
    <3> QED BY <1>7, <3>2
  <2>4. \A k \in DOMAIN d.keys \ {key} : HeldBy(d.keys[key]) \cap HeldBy(d.keys[k]) = {}
    BY <2>1 DEF Own
  <2>5. \A p \in DOMAIN d.heap :
          p \in HeldBy(d.keys[key]) \/ \E k \in DOMAIN d.keys \ {key} : p \in HeldBy(d.keys[k])
    BY <2>1 DEF Own
  <2>6. IsFunction(d.keys)
    BY <2>1 DEF Own
  <2> HIDE DEF e
  <2> QED BY <1>3, <1>7, <1>8, <2>2, <2>3, <2>4, <2>5, <2>6 DEF Changes
<1>10. Own(e, none, none)
  <2> HIDE DEF e, none
  <2>1. Own(d, none, none)
    BY DEF AtRest, none
  <2> QED BY <1>9, <2>1, OwnChange
<1> QED BY <1>10 DEF AtRest

LEMMA StringObjectsOwn ==
  ASSUME NEW d, AtRest(d), NEW key
  PROVE  LET r == StringObjects(d, key)
         IN /\ AtRest(r.db)
            /\ r.ret = "ok" => r.db = d /\ key \in DOMAIN d.keys /\ d.keys[key].type = "string"
            /\ r.ret = "not found" => key \notin DOMAIN r.db.keys
<1> DEFINE g == KeyGet(d, key)
           r == StringObjects(d, key)
<1>1. /\ AtRest(g.db)
      /\ g.ret = "ok" => g.db = d /\ key \in DOMAIN d.keys
      /\ g.ret # "ok" => g.ret = "not found" /\ key \notin DOMAIN g.db.keys
  BY KeyGetRest
<1>2. r = IF g.ret = "ok"
            THEN IF g.db.keys[key].type = "string" THEN Ret(g.db, <<>>) ELSE Fail(g.db, "wrong type")
            ELSE Fail(g.db, g.ret)
  BY DEF StringObjects, Then
<1>3. r.db = g.db
  <2> HIDE DEF g, r
  <2> QED BY <1>2 DEF Ret, Fail
<1>4. /\ r.ret = "ok" => g.ret = "ok" /\ g.db.keys[key].type = "string"
      /\ r.ret = "not found" => g.ret # "ok"
  <2> HIDE DEF g, r
  <2> QED BY <1>2 DEF Ret, Fail
<1> HIDE DEF g, r
<1> QED BY <1>1, <1>3, <1>4 DEF r

LEMMA SetOwn ==
  ASSUME NEW d, AtRest(d), NEW key, NEW s, NEW nx, NEW expires
  PROVE  LET r == Set(d, key, s, nx, expires)
         IN /\ AtRest(r.db)
            /\ Others(d, r.db, key)
<1> DEFINE g == KeyGet(d, key)
           r == Set(d, key, s, nx, expires)
           version == IF g.ret = "ok" THEN g.db.keys[key].version ELSE Rand(g.db)
           e == IF g.ret = "ok" THEN DeleteWithValue(g.db, key).db ELSE g.db
           f == KeySet(SetString(e, s), key, "string", StringPage(e), expires, version + 1)
<1>1. /\ AtRest(g.db)
      /\ g.ret # "ok" => key \notin DOMAIN g.db.keys
      /\ Others(d, g.db, key)
  BY KeyGetRest
<1>2. r.db = IF g.ret = "ok" /\ nx THEN g.db ELSE f
  <2> HIDE DEF g
  <2> QED BY DEF Set, Ret, Fail, g
<1> HIDE DEF g
<1>3. AtRest(DeleteWithValue(g.db, key).db) /\ Others(g.db, DeleteWithValue(g.db, key).db, key)
      /\ key \notin DOMAIN DeleteWithValue(g.db, key).db.keys
  BY <1>1, DeleteWithValueRest
<1>4. AtRest(e) /\ Others(d, e, key) /\ key \notin DOMAIN e.keys
  <2>1. CASE g.ret = "ok"
    <3>1. e = DeleteWithValue(g.db, key).db
      BY <2>1
    <3> HIDE DEF e
    <3> QED BY <1>1, <1>3, <3>1, OthersAgain
  <2>2. CASE g.ret # "ok"
    BY <1>1, <2>2
  <2> QED BY <2>1, <2>2
<1> DEFINE v == version + 1
<1> HIDE DEF e, v
<1>5. AtRest(KeySet(SetString(e, s), key, "string", StringPage(e), expires, v))
      /\ Others(e, KeySet(SetString(e, s), key, "string", StringPage(e), expires, v), key)
  BY <1>4, NewStringOwn
<1>6. AtRest(f) /\ Others(e, f, key)
  BY <1>5 DEF v
<1> HIDE DEF f, r
<1> QED BY <1>1, <1>2, <1>4, <1>6, OthersAgain DEF r

LEMMA SetGenericOwn ==
  ASSUME NEW d, AtRest(d), NEW key, NEW s, NEW flags, NEW after
  PROVE  AtRest(SetGeneric(d, key, s, flags, after).db)
<1> DEFINE g == KeyGet(d, key)
           expires == IF after = 0 THEN 0 ELSE d.now + after
           w == Set(d, key, s, FALSE, expires)
           r == SetGeneric(d, key, s, flags, after)
<1>1. AtRest(g.db)
  BY KeyGetRest
<1>2. r.db \in {g.db, w.db}
  <2> HIDE DEF g, w
  <2> QED BY DEF SetGeneric, Fail, g, w
<1> HIDE DEF expires
<1>3. AtRest(w.db)
  BY SetOwn
<1> HIDE DEF g, w, r
<1> QED BY <1>1, <1>2, <1>3 DEF r

LEMMA GetOwn ==
  ASSUME NEW d, AtRest(d), NEW key
  PROVE  AtRest(Get(d, key).db)
<1> DEFINE o == StringObjects(d, key)
           r == Get(d, key)
<1>1. AtRest(o.db)
  BY StringObjectsOwn
<1>2. r.db = o.db
  <2> HIDE DEF o
  <2> QED BY DEF Get, Then, Ret, Fail, o
<1> HIDE DEF o, r
<1> QED BY <1>1, <1>2 DEF r

(* What a function leaves, returns and yields *)
IsResult(r) == r = [db |-> r.db, ret |-> r.ret, out |-> r.out]

LEMMA SetResult ==
  ASSUME NEW d, NEW key, NEW s, NEW nx, NEW expires
  PROVE  IsResult(Set(d, key, s, nx, expires))
<1> DEFINE g == KeyGet(d, key)
<1> HIDE DEF g
<1> QED BY DEF Set, Ret, Fail, IsResult, g

LEMMA GetsetOwn ==
  ASSUME NEW d, AtRest(d), NEW key, NEW s
  PROVE  AtRest(Getset(d, key, s).db)
<1> DEFINE g == Get(d, key)
           w == Set(g.db, key, s, FALSE, 0)
           r == Getset(d, key, s)
<1>1. AtRest(g.db)
  BY GetOwn
<1>2. r.db \in {g.db, w.db}
  <2>1. w = [db |-> w.db, ret |-> w.ret, out |-> w.out]
    <3> HIDE DEF g
    <3> DEFINE nx == FALSE
    <3> HIDE DEF nx
    <3>1. IsResult(Set(g.db, key, s, nx, 0))
      BY SetResult
    <3> QED BY <3>1 DEF IsResult, nx
  <2>2. r = IF g.ret = "wrong type" THEN g ELSE [w EXCEPT !.out = g.out]
    BY DEF Getset
  <2> HIDE DEF g, w, r
  <2> QED BY <2>1, <2>2
<1> HIDE DEF g
<1>3. AtRest(w.db)
  BY <1>1, SetOwn
<1> HIDE DEF w, r
<1> QED BY <1>1, <1>2, <1>3 DEF r

MsetStep(c, r, p) == Set(r.db, p[1], p[2], FALSE, 0)
MsetHolds(c, i, r) == AtRest(r.db)
MsetLoop == INSTANCE Loops WITH Step <- MsetStep, Holds <- MsetHolds

LEMMA MsetOwn ==
  ASSUME NEW d, AtRest(d), NEW n \in Nat, NEW pairs, DOMAIN pairs = 1 .. n
  PROVE  AtRest(Mset(d, pairs).db)
<1>1. Mset(d, pairs) = MsetLoop!Loop(0, Ret(d, <<>>), pairs)
  BY DEF Mset, MsetLoop!Loop, FoldLeft, MapThenFoldSet,
         MsetStep, MsetLoop!Greatest, Max
<1>2. MsetHolds(0, 0, Ret(d, <<>>))
  BY DEF MsetHolds, Ret
<1>3. ASSUME NEW i \in 1 .. n, NEW r, MsetHolds(0, i - 1, r)
      PROVE  MsetHolds(0, i, MsetStep(0, r, pairs[i]))
  <2> DEFINE nx == FALSE
             key == pairs[i][1]
             s == pairs[i][2]
             w == Set(r.db, key, s, nx, 0)
  <2>1. MsetStep(0, r, pairs[i]) = w
    BY DEF MsetStep
  <2> HIDE DEF nx, key, s
  <2>2. AtRest(w.db)
    BY <1>3, SetOwn DEF MsetHolds
  <2> HIDE DEF w
  <2> QED BY <2>1, <2>2 DEF MsetHolds
<1>4. MsetHolds(0, n, MsetLoop!Loop(0, Ret(d, <<>>), pairs))
  BY <1>2, <1>3, MsetLoop!LoopKeeps, Inductive
<1> QED BY <1>1, <1>4 DEF MsetHolds

LookStep(c, r, p) ==
    Then(r, LAMBDA e : LET f == KeyGet(e, p[1])
                       IN IF f.ret = "not found" THEN Ret(f.db, <<>>) ELSE Fail(f.db, "not found"))
LookLoop == INSTANCE Loops WITH Step <- LookStep, Holds <- MsetHolds
NxStep(c, r, p) == Then(r, LAMBDA e : Set(e, p[1], p[2], TRUE, 0))
NxHolds(c, i, r) == AtRest(r.db) /\ IsResult(r)
NxLoop == INSTANCE Loops WITH Step <- NxStep, Holds <- NxHolds

LEMMA LookLoopOwn ==
  ASSUME NEW d, AtRest(d), NEW n \in Nat, NEW pairs, DOMAIN pairs = 1 .. n
  PROVE  AtRest(LookLoop!Loop(0, Ret(d, <<>>), pairs).db)
<1>1. MsetHolds(0, 0, Ret(d, <<>>))
  BY DEF MsetHolds, Ret
<1>2. ASSUME NEW i \in 1 .. n, NEW r, MsetHolds(0, i - 1, r)
      PROVE  MsetHolds(0, i, LookStep(0, r, pairs[i]))
  <2> DEFINE key == pairs[i][1]
             g == KeyGet(r.db, key)
             t == LookStep(0, r, pairs[i])
  <2>1. t.db \in {r.db, g.db}
    <3> HIDE DEF g
    <3> QED BY DEF LookStep, Then, Ret, Fail, g
  <2> HIDE DEF key
  <2>2. AtRest(g.db)
    BY <1>2, KeyGetRest DEF MsetHolds
  <2> HIDE DEF g, t
  <2> QED BY <1>2, <2>1, <2>2 DEF MsetHolds, t
<1>3. MsetHolds(0, n, LookLoop!Loop(0, Ret(d, <<>>), pairs))
  BY <1>1, <1>2, LookLoop!LoopKeeps, Inductive
<1> QED BY <1>3 DEF MsetHolds

LEMMA NxLoopOwn ==
  ASSUME NEW d, AtRest(d), NEW n \in Nat, NEW pairs, DOMAIN pairs = 1 .. n
  PROVE  AtRest(NxLoop!Loop(0, Ret(d, <<>>), pairs).db) /\ IsResult(NxLoop!Loop(0, Ret(d, <<>>), pairs))
<1>1. NxHolds(0, 0, Ret(d, <<>>))
  BY DEF NxHolds, Ret, IsResult
<1>2. ASSUME NEW i \in 1 .. n, NEW r, NxHolds(0, i - 1, r)
      PROVE  NxHolds(0, i, NxStep(0, r, pairs[i]))
  <2> DEFINE key == pairs[i][1]
             s == pairs[i][2]
             nx == TRUE
             w == Set(r.db, key, s, nx, 0)
             t == NxStep(0, r, pairs[i])
  <2>1. t.db \in {r.db, w.db}
    <3> HIDE DEF w
    <3> QED BY DEF NxStep, Then, Fail, w
  <2> HIDE DEF key, s, nx
  <2>2. AtRest(w.db) /\ IsResult(w)
    BY <1>2, SetOwn, SetResult DEF NxHolds
  <2>3. IsResult(t)
    <3>1. t = IF r.ret = "ok" THEN w ELSE Fail(r.db, r.ret)
      BY DEF NxStep, Then, key, s, nx
    <3> HIDE DEF w, t
    <3> QED BY <2>2, <3>1 DEF Fail, IsResult
  <2> HIDE DEF w, t
  <2> QED BY <1>2, <2>1, <2>2, <2>3 DEF NxHolds, t
<1>3. NxHolds(0, n, NxLoop!Loop(0, Ret(d, <<>>), pairs))
  BY <1>1, <1>2, NxLoop!LoopKeeps, Inductive
<1> QED BY <1>3 DEF NxHolds

LEMMA MsetnxOwn ==
  ASSUME NEW d, AtRest(d), NEW n \in Nat, NEW pairs, DOMAIN pairs = 1 .. n
  PROVE  AtRest(Msetnx(d, pairs).db)
<1> DEFINE looked == LookLoop!Loop(0, Ret(d, <<>>), pairs)
           end == NxLoop!Loop(0, Ret(looked.db, <<>>), pairs)
           r == Msetnx(d, pairs)
<1>1. r = Then(looked, LAMBDA e : [NxLoop!Loop(0, Ret(e, <<>>), pairs) EXCEPT !.out = <<1>>])
  BY DEF Msetnx, LookLoop!Loop, FoldLeft, MapThenFoldSet,
         LookStep, LookLoop!Greatest, Max, NxLoop!Loop, NxStep, NxLoop!Greatest
<1>2. AtRest(looked.db)
  BY LookLoopOwn
<1> HIDE DEF looked
<1>3. AtRest(end.db) /\ IsResult(end)
  BY <1>2, NxLoopOwn
<1>4. r.db = IF looked.ret = "ok" THEN [end EXCEPT !.out = <<1>>].db ELSE looked.db
  <2> HIDE DEF r, end
  <2> QED BY <1>1 DEF Then, Fail, end
<1> HIDE DEF end, r
<1>5. [end EXCEPT !.out = <<1>>].db = end.db
  BY <1>3 DEF IsResult
<1> QED BY <1>2, <1>3, <1>4, <1>5 DEF r

(* APPEND and SETRANGE write a string over, or make one. *)
LEMMA AppendOwn ==
  ASSUME NEW d, AtRest(d), NEW key, NEW s
  PROVE  AtRest(AppendTo(d, key, s).db)
<1> DEFINE o == StringObjects(d, key)
           page == Value(d, key)
           f == KeySet(d, key, "string", page, 0, d.keys[key].version + 1)
           new == f.heap[page] \o s
           g == [f EXCEPT !.heap = Put(@, page, @[page] \o s)]
           made == KeySet(SetString(o.db, s), key, "string", StringPage(o.db), 0, Rand(o.db))
           r == AppendTo(d, key, s)
<1>1. /\ AtRest(o.db)
      /\ o.ret = "ok" => o.db = d /\ key \in DOMAIN d.keys /\ d.keys[key].type = "string"
      /\ o.ret = "not found" => key \notin DOMAIN o.db.keys
  BY StringObjectsOwn
<1>2. CASE o.ret = "not found"
  <2>1. r.db = made
    <3> HIDE DEF o
    <3> QED BY <1>2 DEF AppendTo, Ret, o
  <2>2. AtRest(made)
    <3> DEFINE version == Rand(o.db)
    <3> HIDE DEF o, version
    <3>1. AtRest(KeySet(SetString(o.db, s), key, "string", StringPage(o.db), 0, version))
      BY <1>1, <1>2, NewStringOwn
    <3> QED BY <3>1 DEF version
  <2> HIDE DEF made, r
  <2> QED BY <2>1, <2>2 DEF r
<1>3. CASE o.ret = "ok"
  <2>1. r.db = g
    <3> HIDE DEF o
    <3> QED BY <1>1, <1>3 DEF AppendTo, Then, Ret, o
  <2> DEFINE version == d.keys[key].version + 1
  <2>2. page = d.keys[key].value
    BY DEF Value
  <2>3. AtRest(f) /\ key \in DOMAIN f.keys /\ f.keys[key].type = "string" /\ f.keys[key].value = page
    <3> HIDE DEF o, version, page
    <3>1. LET e == KeySet(d, key, d.keys[key].type, d.keys[key].value, 0, version)
          IN AtRest(e) /\ key \in DOMAIN e.keys /\ e.keys[key].type = d.keys[key].type
             /\ e.keys[key].value = d.keys[key].value
      BY <1>1, <1>3, SameValueOwn
    <3> QED BY <1>1, <1>3, <2>2, <3>1 DEF version
  <2> HIDE DEF f, page
  <2> DEFINE t == f.heap[page] \o s
  <2>4. g = [f EXCEPT !.heap = Put(@, page, t)]
    OBVIOUS
  <2> HIDE DEF t, g
  <2>5. AtRest(g)
    BY <2>3, <2>4, WriteOwn
  <2> HIDE DEF r
  <2> QED BY <2>1, <2>5 DEF r
<1>4. CASE o.ret \notin {"ok", "not found"}
  <2>1. r.db = o.db
    <3> HIDE DEF o
    <3> QED BY <1>4 DEF AppendTo, Then, Fail, o
  <2> HIDE DEF o, r
  <2> QED BY <1>1, <2>1 DEF r
<1> QED BY <1>2, <1>3, <1>4

LEMMA SetrangeOwn ==
  ASSUME NEW d, AtRest(d), NEW key, NEW offset, NEW s
  PROVE  AtRest(Setrange(d, key, offset, s).db)
<1> DEFINE o == StringObjects(d, key)
           page == d.keys[key].value
           new == Overwritten(d.heap[page], offset, s)
           f == KeySet(d, key, "string", page, d.keys[key].expires, d.keys[key].version + 1)
           g == [f EXCEPT !.heap = Put(@, page, new)]
           w == Set(o.db, key, [i \in 1 .. offset |-> 0], FALSE, 0)
           more == AppendTo(w.db, key, s)
           r == Setrange(d, key, offset, s)
<1>1. /\ AtRest(o.db)
      /\ o.ret = "ok" => o.db = d /\ key \in DOMAIN d.keys /\ d.keys[key].type = "string"
      /\ o.ret = "not found" => key \notin DOMAIN o.db.keys
  BY StringObjectsOwn
<1>2. CASE Len(s) + offset > MaxBytes
  <2>1. r.db = d
    BY <1>2 DEF Setrange, Fail
  <2> HIDE DEF r
  <2> QED BY <2>1 DEF r
<1>3. CASE ~(Len(s) + offset > MaxBytes) /\ o.ret = "not found"
  <2>1. r.db \in {w.db, more.db}
    <3> HIDE DEF o, w
    <3>1. r = Then(w, LAMBDA e : AppendTo(e, key, s))
      BY <1>3 DEF Setrange, o, w
    <3> HIDE DEF r
    <3> QED BY <3>1 DEF Then, Fail
  <2>2. AtRest(w.db)
    <3> DEFINE zeros == [i \in 1 .. offset |-> 0]
               nx == FALSE
    <3> HIDE DEF o, zeros, nx
    <3>1. AtRest(Set(o.db, key, zeros, nx, 0).db)
      BY <1>1, SetOwn
    <3> QED BY <3>1 DEF zeros, nx
  <2> HIDE DEF w, r
  <2>3. AtRest(more.db)
    BY <2>2, AppendOwn
  <2> HIDE DEF more
  <2> QED BY <2>1, <2>2, <2>3 DEF r
<1>4. CASE ~(Len(s) + offset > MaxBytes) /\ o.ret = "ok"
  <2>1. r.db = g
    <3> HIDE DEF o
    <3> QED BY <1>1, <1>4 DEF Setrange, Then, Ret, o
  <2> DEFINE version == d.keys[key].version + 1
             expires == d.keys[key].expires
  <2>2. AtRest(f) /\ key \in DOMAIN f.keys /\ f.keys[key].type = "string" /\ f.keys[key].value = page
    <3>0. key \in DOMAIN d.keys
      BY <1>1, <1>4
    <3> HIDE DEF o, version, expires
    <3>1. LET e == KeySet(d, key, d.keys[key].type, d.keys[key].value, expires, version)
          IN AtRest(e) /\ key \in DOMAIN e.keys /\ e.keys[key].type = d.keys[key].type
             /\ e.keys[key].value = d.keys[key].value
      BY <3>0, SameValueOwn
    <3> QED BY <1>1, <1>4, <3>1 DEF version, expires
  <2> HIDE DEF f, page, new
  <2>4. g = [f EXCEPT !.heap = Put(@, page, new)]
    OBVIOUS
  <2> HIDE DEF g
  <2>5. AtRest(g)
    BY <2>2, <2>4, WriteOwn
  <2> HIDE DEF r
  <2> QED BY <2>1, <2>5 DEF r
<1>5. CASE ~(Len(s) + offset > MaxBytes) /\ o.ret \notin {"ok", "not found"}
  <2>1. r.db = o.db
    <3> HIDE DEF o
    <3> QED BY <1>5 DEF Setrange, Then, Fail, o
  <2> HIDE DEF o, r
  <2> QED BY <1>1, <2>1 DEF r
<1> QED BY <1>2, <1>3, <1>4, <1>5

LEMMA GetrangeOwn ==
  ASSUME NEW d, AtRest(d), NEW key, NEW start, NEW stop
  PROVE  AtRest(Getrange(d, key, start, stop).db)
<1> DEFINE g == Get(d, key)
           r == Getrange(d, key, start, stop)
<1>1. AtRest(g.db)
  BY GetOwn
<1>2. r.db = g.db
  <2> HIDE DEF g
  <2> QED BY DEF Getrange, Then, Ret, Fail, g
<1> HIDE DEF g, r
<1> QED BY <1>1, <1>2 DEF r

LEMMA SetbitOwn ==
  ASSUME NEW d, AtRest(d), NEW key, NEW n, NEW on
  PROVE  AtRest(Setbit(d, key, n, on).db)
<1> DEFINE at == n \div 8
           g == Getrange(d, key, at, at)
           byte == IF g.out = <<>> THEN <<>> ELSE g.out[1]
           bit == (IF byte = <<>> THEN 0 ELSE byte[1]) + (on - BitOf(byte, n)) * 2 ^ (7 - (n % 8))
           w == Setrange(g.db, key, at, <<bit>>)
           r == Setbit(d, key, n, on)
<1>1. AtRest(g.db)
  <2> HIDE DEF at
  <2> QED BY GetrangeOwn
<1>2. r.db \in {d, g.db, w.db}
  <2> HIDE DEF g
  <2>1. r = IF at >= MaxBytes THEN Fail(d, "invalid parameters")
            ELSE IF g.ret = "wrong type" THEN g
            ELSE Then(w, LAMBDA f : Ret(f, <<BitOf(byte, n)>>))
    BY DEF Setbit, g
  <2> HIDE DEF r, w, at, byte
  <2> QED BY <2>1 DEF Then, Ret, Fail
<1> DEFINE bytes == <<bit>>
<1>3. w = Setrange(g.db, key, at, bytes)
  OBVIOUS
<1> HIDE DEF at, g, bit, byte, bytes, w, r
<1>4. AtRest(w.db)
  BY <1>1, <1>3, SetrangeOwn
<1> QED BY <1>1, <1>2, <1>4 DEF r

LEMMA IncrementedOwn ==
  ASSUME NEW d, AtRest(d), NEW s, NEW n
  PROVE  LET r == Incremented(d, s, n)
         IN /\ AtRest(r.db)
            /\ r.db.keys = d.keys
            /\ r.db.heap = d.heap
            /\ IsResult(r)
<1> DEFINE erange == d.erange \/ (Number(s).valid /\ ~InRange(Number(s).value))
           e == [d EXCEPT !.erange = erange]
           r == Incremented(d, s, n)
<1>1. r = IF ~Number(s).valid \/ e.erange THEN Fail(e, "not a number")
          ELSE IF ~InRange(Number(s).value + n) THEN Fail(e, "overflow")
          ELSE Ret(e, <<Number(s).value + n>>)
  BY DEF Incremented
<1>2. IsDatabase(d)
  BY DEF AtRest, Own
<1>3. IsDatabase(e) /\ e.keys = d.keys /\ e.heap = d.heap
  <2> HIDE DEF erange
  <2> QED BY <1>2 DEF IsDatabase
<1> HIDE DEF e, r
<1>4. r.db = e /\ IsResult(r)
  BY <1>1 DEF Ret, Fail, IsResult
<1>5. AtRest(e)
  BY <1>3, SameOwn
<1> QED BY <1>3, <1>4, <1>5 DEF r

LEMMA IncrOwn ==
  ASSUME NEW d, AtRest(d), NEW key, NEW n
  PROVE  AtRest(Incr(d, key, n).db)
<1> DEFINE o == StringObjects(d, key)
           i == Incremented(o.db, Content(o.db, key), n)
           made == Set(o.db, key, Format(n), TRUE, 0)
           w == Set(i.db, key, Format(i.out[1]), FALSE, o.db.keys[key].expires)
           r == Incr(d, key, n)
<1>1. AtRest(o.db)
  BY StringObjectsOwn
<1>2. r.db \in {o.db, made.db, i.db, w.db}
  <2>1. r = IF o.ret = "not found"
              THEN IF Ret(o.db, <<n>>).ret # "ok" THEN Ret(o.db, <<n>>)
                   ELSE [Set(o.db, key, Format(Ret(o.db, <<n>>).out[1]), TRUE, 0) EXCEPT !.out = Ret(o.db, <<n>>).out]
            ELSE IF o.ret = "ok"
              THEN IF i.ret # "ok" THEN i ELSE [w EXCEPT !.out = i.out]
            ELSE Fail(o.db, o.ret)
    BY DEF Incr, Then
  <2> HIDE DEF r
  <2>2. Ret(o.db, <<n>>).ret = "ok" /\ Ret(o.db, <<n>>).out[1] = n
    BY DEF Ret
  <2>3. IsResult(made) /\ IsResult(w)
    <3> DEFINE s == Format(n)
               t == Format(i.out[1])
               nx == TRUE
               xx == FALSE
               expires == o.db.keys[key].expires
    <3> HIDE DEF o, i, s, t, nx, xx, expires
    <3>1. IsResult(Set(o.db, key, s, nx, 0)) /\ IsResult(Set(i.db, key, t, xx, expires))
      BY SetResult
    <3> QED BY <3>1 DEF s, t, nx, xx, expires
  <2>4. r = IF o.ret = "not found" THEN [made EXCEPT !.out = Ret(o.db, <<n>>).out]
            ELSE IF o.ret = "ok"
              THEN IF i.ret # "ok" THEN i ELSE [w EXCEPT !.out = i.out]
            ELSE Fail(o.db, o.ret)
    <3> HIDE DEF o, i
    <3> QED BY <2>1, <2>2
  <2> HIDE DEF o, i, made, w
  <2> QED BY <2>3, <2>4 DEF IsResult, Fail
<1>3. AtRest(made.db)
  <2> DEFINE s == Format(n)
             nx == TRUE
  <2> HIDE DEF o, s, nx
  <2>1. AtRest(Set(o.db, key, s, nx, 0).db)
    BY <1>1, SetOwn
  <2> QED BY <2>1 DEF s, nx
<1>4. AtRest(i.db)
  <2> DEFINE s == Content(o.db, key)
  <2> HIDE DEF o, s
  <2>1. AtRest(Incremented(o.db, s, n).db)
    BY <1>1, IncrementedOwn
  <2> QED BY <2>1 DEF s
<1>5. AtRest(w.db)
  <2> DEFINE s == Format(i.out[1])
             nx == FALSE
             expires == o.db.keys[key].expires
  <2> HIDE DEF o, i, s, nx, expires
  <2>1. AtRest(Set(i.db, key, s, nx, expires).db)
    BY <1>4, SetOwn
  <2> QED BY <2>1 DEF s, nx, expires
<1> HIDE DEF o, i, made, w, r
<1> QED BY <1>1, <1>2, <1>3, <1>4, <1>5 DEF r

BitopStep(c, r, key) ==
    LET one == OrElse(Get(r.db, key), <<>>)
    IN IF r.ret # "ok" THEN r ELSE Then(one, LAMBDA e : Ret(e, r.out \o one.out))
BitopLoop == INSTANCE Loops WITH Step <- BitopStep, Holds <- MsetHolds

LEMMA BitopLoopOwn ==
  ASSUME NEW d, AtRest(d), NEW n \in Nat, NEW keys, DOMAIN keys = 1 .. n
  PROVE  AtRest(BitopLoop!Loop(0, Ret(d, <<>>), keys).db)
<1>1. MsetHolds(0, 0, Ret(d, <<>>))
  BY DEF MsetHolds, Ret
<1>2. ASSUME NEW i \in 1 .. n, NEW r, MsetHolds(0, i - 1, r)
      PROVE  MsetHolds(0, i, BitopStep(0, r, keys[i]))
  <2> DEFINE key == keys[i]
             g == Get(r.db, key)
             t == BitopStep(0, r, keys[i])
  <2>1. t.db \in {r.db, g.db}
    <3> HIDE DEF g
    <3> QED BY DEF BitopStep, OrElse, Then, Ret, Fail, g
  <2> HIDE DEF key
  <2>2. AtRest(g.db)
    BY <1>2, GetOwn DEF MsetHolds
  <2> HIDE DEF g, t
  <2> QED BY <1>2, <2>1, <2>2 DEF MsetHolds, t
<1>3. MsetHolds(0, n, BitopLoop!Loop(0, Ret(d, <<>>), keys))
  BY <1>1, <1>2, BitopLoop!LoopKeeps, Inductive
<1> QED BY <1>3 DEF MsetHolds

LEMMA BitopOwn ==
  ASSUME NEW d, AtRest(d), NEW op, NEW target, NEW n \in Nat, NEW keys, DOMAIN keys = 1 .. n
  PROVE  AtRest(Bitop(d, op, target, keys).db)
<1> DEFINE strings == BitopLoop!Loop(0, Ret(d, <<>>), keys)
           result == BitOperation(op, strings.out)
           w == Set(strings.db, target, result, FALSE, 0)
           r == Bitop(d, op, target, keys)
<1>1. r = Then(strings, LAMBDA e : [Set(e, target, result, FALSE, 0) EXCEPT !.out = <<Len(result)>>])
  BY DEF Bitop, BitopLoop!Loop, FoldLeft, MapThenFoldSet,
         BitopStep, BitopLoop!Greatest, Max
<1>2. AtRest(strings.db)
  BY BitopLoopOwn
<1> HIDE DEF strings, r
<1>3. AtRest(w.db) /\ IsResult(w)
  <2> DEFINE nx == FALSE
  <2> HIDE DEF nx, result
  <2>1. AtRest(Set(strings.db, target, result, nx, 0).db) /\ IsResult(Set(strings.db, target, result, nx, 0))
    BY <1>2, SetOwn, SetResult
  <2> QED BY <2>1 DEF nx
<1>4. r = IF strings.ret = "ok" THEN [w EXCEPT !.out = <<Len(result)>>] ELSE Fail(strings.db, strings.ret)
  BY <1>1 DEF Then
<1> HIDE DEF w, result
<1>5. r.db \in {w.db, strings.db}
  BY <1>3, <1>4 DEF IsResult, Fail
<1> QED BY <1>2, <1>3, <1>5 DEF r

-----------------------------------------------------------------------------
(* Sets *)
IsSetAt(d, key) == key \in DOMAIN d.keys /\ d.keys[key].type = "set"

LEMMA SetObjectsOwn ==
  ASSUME NEW d, AtRest(d), NEW key, NEW update, NEW create
  PROVE  LET r == SetObjects(d, key, update, create)
         IN /\ r.ret = "ok" => IsSetAt(r.db, key)
            /\ AtRest(r.db)
            /\ Others(d, r.db, key)
<1>1. "set" \in Aggregates
  BY DEF Aggregates
<1> DEFINE zero == 0
<1> HIDE DEF zero
<1>2. LET r == Objects(d, key, "set", update, create, zero)
      IN /\ r.ret = "ok" => /\ key \in DOMAIN r.db.keys
                            /\ r.db.keys[key].type = "set"
                            /\ AtRest(r.db)
         /\ r.ret # "ok" => AtRest(r.db)
         /\ Others(d, r.db, key)
  BY <1>1, ObjectsOwn
<1> QED BY <1>2 DEF SetObjects, IsSetAt, zero

LEMMA SetFacts ==
  ASSUME NEW d, NEW key, AtRest(d), IsSetAt(d, key)
  PROVE  /\ IsSet(d.heap, Value(d, key))
         /\ SetStrings(Value(d, key)) \subseteq DOMAIN d.heap
         /\ StringsOf(d.keys[key].type, d.keys[key].value) = SetStrings(Value(d, key))
         /\ IsHeap(d.heap)
         /\ IsDatabase(d)
BY DEF AtRest, Own, IsSetAt, Keeps, HeldBy, IsValue, StringsOf, Value

LEMMA SetPutOwn ==
  ASSUME NEW d, NEW key, AtRest(d), IsSetAt(d, key), NEW m \in Name
  PROVE  /\ AtRest(SetPut(d, key, m))
         /\ IsSetAt(SetPut(d, key, m), key)
         /\ Others(d, SetPut(d, key, m), key)
         /\ SetPut(d, key, m).keys[key].expires = d.keys[key].expires
<1> DEFINE set == Value(d, key)
           page == StringPage(d)
           v == Put(set, m, page)
           f == SetString(d, m)
           e == SetValue(f, key, v)
<1>1. CASE m \in Members(d, key)
  BY <1>1 DEF SetPut, Others
<1>2. CASE m \notin Members(d, key)
  <2>1. SetPut(d, key, m) = e
    BY <1>2 DEF SetPut
  <2>2. /\ IsSet(d.heap, set) /\ SetStrings(set) \subseteq DOMAIN d.heap
        /\ StringsOf(d.keys[key].type, d.keys[key].value) = SetStrings(set)
        /\ IsHeap(d.heap) /\ IsDatabase(d)
    BY SetFacts
  <2>3. page \in Nat \ DOMAIN d.heap
    BY <2>2, StringPageFacts
  <2>4. IsFunction(v) /\ DOMAIN v = DOMAIN set \cup {m}
    BY PutDomain
  <2>5. v[m] = page /\ \A x \in DOMAIN set \ {m} : v[x] = set[x]
    BY PutFacts
  <2>6. m \notin DOMAIN set
    BY <1>2 DEF Members
  <2>7. f.heap = Put(d.heap, page, m)
    BY <2>2, SetStringFacts
  <2>8. f.heap[page] = m /\ \A p \in DOMAIN d.heap : f.heap[p] = d.heap[p]
    <3>1. f.heap[page] = m /\ \A p \in DOMAIN d.heap \ {page} : f.heap[p] = d.heap[p]
      BY <2>7, PutFacts
    <3> HIDE DEF page, f
    <3> QED BY <2>3, <3>1
  <2> HIDE DEF v, f, page, set
  <2>9. IsSet(f.heap, v)
    <3>1. IsFiniteSet(DOMAIN v)
      <4>1. IsFiniteSet(DOMAIN set)
        BY <2>2 DEF IsSet
      <4> QED BY <2>4, <4>1, FS_AddElement
    <3>2. ASSUME NEW x \in DOMAIN set PROVE x \in Name /\ f.heap[v[x]] = x
      <4>1. x \in Name /\ d.heap[set[x]] = x /\ v[x] = set[x]
        BY <2>2, <2>5, <2>6 DEF IsSet
      <4>2. set[x] \in DOMAIN d.heap
        BY <2>2 DEF SetStrings, Range
      <4> QED BY <2>8, <4>1, <4>2
    <3> QED BY <2>4, <2>5, <2>8, <3>1, <3>2 DEF IsSet
  <2>10. SetStrings(v) = SetStrings(set) \cup {page}
    BY <2>4, <2>5, <2>6 DEF SetStrings, Range
  <2>11. LET type == d.keys[key].type
         IN /\ IsValue(SetString(d, m).heap, type, v)
            /\ StringsOf(type, v) = StringsOf(type, d.keys[key].value) \cup {StringPage(d)}
    BY <2>2, <2>9, <2>10 DEF IsSetAt, IsValue, StringsOf, Types, f, page
  <2>12. Filling(d, key) /\ key \in DOMAIN d.keys
    BY AtRestFilling DEF IsSetAt
  <2>13. /\ d.keys[key].type # "list" \/ v # <<>> => AtRest(e)
         /\ Others(d, e, key)
         /\ Newly(d, e, key, v)
    BY <2>11, <2>12, ValueGrows DEF f
  <2> HIDE DEF e
  <2> QED BY <2>1, <2>13 DEF IsSetAt, Newly
<1> QED BY <1>1, <1>2

LEMMA SetTakeOwn ==
  ASSUME NEW d, NEW key, AtRest(d), IsSetAt(d, key), NEW m \in Members(d, key)
  PROVE  /\ AtRest(SetTake(d, key, m))
         /\ key \in DOMAIN SetTake(d, key, m).keys => IsSetAt(SetTake(d, key, m), key)
         /\ Others(d, SetTake(d, key, m), key)
<1> DEFINE set == Value(d, key)
           gone == {set[m]}
           left == DOMAIN set \ {m}
           v == Restrict(set, left)
           f == DeleteStrings(d, gone)
           e == SetTake(d, key, m)
<1>1. e = IF left = {} THEN KeyDelete(f, key) ELSE SetValue(f, key, v)
  BY DEF SetTake, Members
<1>2. /\ IsSet(d.heap, set)
      /\ StringsOf(d.keys[key].type, d.keys[key].value) = SetStrings(set)
  BY SetFacts
<1>3. Filling(d, key) /\ key \in DOMAIN d.keys
  BY AtRestFilling DEF IsSetAt
<1>4. m \in DOMAIN set
  BY DEF Members
<1>5. CASE left = {}
  <2>1. SetStrings(set) = gone
    BY <1>4, <1>5 DEF SetStrings, Range
  <2>2. e = KeyDelete(DeleteStrings(d, StringsOf(d.keys[key].type, d.keys[key].value)), key)
    <3> HIDE DEF e, set, gone
    <3> QED BY <1>1, <1>2, <1>5, <2>1
  <2> HIDE DEF e
  <2>3. AtRest(e) /\ Others(d, e, key) /\ key \notin DOMAIN e.keys
    BY <1>3, <2>2, ValueGoes
  <2> QED BY <2>3 DEF e
<1>6. CASE left # {}
  <2>1. /\ IsFunction(v) /\ DOMAIN v = left
        /\ \A x \in left : v[x] = set[x]
    <3> HIDE DEF set, left
    <3> QED BY RestrictFacts
  <2> HIDE DEF v
  <2>2. \A x \in DOMAIN set : x # m => set[x] # set[m]
    BY <1>2, <1>4 DEF IsSet
  <2>3. SetStrings(v) = SetStrings(set) \ gone
    <3> HIDE DEF set
    <3> QED BY <1>4, <2>1, <2>2 DEF SetStrings, Range
  <2>4. IsSet(d.heap, v)
    <3>1. IsFiniteSet(left)
      <4>1. IsFiniteSet(DOMAIN set) /\ left \subseteq DOMAIN set
        BY <1>2 DEF IsSet
      <4> HIDE DEF left
      <4> QED BY <4>1, FS_Subset
    <3> HIDE DEF set
    <3> QED BY <1>2, <2>1, <3>1 DEF IsSet
  <2>5. gone \subseteq SetStrings(set)
    BY <1>4 DEF SetStrings, Range
  <2> HIDE DEF set, gone
  <2>6. LET type == d.keys[key].type
        IN /\ IsValue(d.heap, type, v)
           /\ StringsOf(type, v) = StringsOf(type, d.keys[key].value) \ gone
           /\ gone \subseteq StringsOf(type, d.keys[key].value)
    BY <1>2, <2>3, <2>4, <2>5 DEF IsSetAt, IsValue, StringsOf, Types
  <2> DEFINE g == SetValue(f, key, v)
  <2>7. /\ d.keys[key].type # "list" \/ v # <<>> => AtRest(g)
        /\ Others(d, g, key)
        /\ Newly(d, g, key, v)
    BY <1>3, <2>6, ValueShrinks
  <2>8. e = g
    <3> HIDE DEF e
    <3> QED BY <1>1, <1>6
  <2> HIDE DEF g, e
  <2> QED BY <2>7, <2>8 DEF IsSetAt, Newly, e
<1> QED BY <1>5, <1>6

(* Members, as a command gives them or as they are read from a set *)
AreNames(s, n) == DOMAIN s = 1 .. n /\ \A i \in 1 .. n : s[i] \in Name

LEMMA SetToSeqFacts ==
  ASSUME NEW S, IsFiniteSet(S)
  PROVE  /\ Cardinality(S) \in Nat
         /\ DOMAIN SetToSeq(S) = 1 .. Cardinality(S)
         /\ SetToSeq(S) \in [1 .. Cardinality(S) -> S]
<1>1. Cardinality(S) \in Nat /\ ExistsBijection(1 .. Cardinality(S), S)
  BY FS_CardinalityType
<1> DEFINE n == Cardinality(S)
<1>2. \E f \in [1 .. n -> S] : IsInjective(f)
  <2>1. PICK f : f \in Bijection(1 .. n, S)
    BY <1>1 DEF ExistsBijection
  <2> QED BY <2>1 DEF Bijection, Injection
<1>3. SetToSeq(S) \in [1 .. n -> S]
  BY <1>2 DEF SetToSeq
<1> HIDE DEF n
<1> QED BY <1>1, <1>3 DEF n

LEMMA NamesListed ==
  ASSUME NEW S, IsFiniteSet(S), \A m \in S : m \in Name
  PROVE  Cardinality(S) \in Nat /\ AreNames(SetToSeq(S), Cardinality(S))
<1>1. /\ Cardinality(S) \in Nat
      /\ DOMAIN SetToSeq(S) = 1 .. Cardinality(S)
      /\ SetToSeq(S) \in [1 .. Cardinality(S) -> S]
  BY SetToSeqFacts
<1> DEFINE n == Cardinality(S)
<1> HIDE DEF n
<1>2. DOMAIN SetToSeq(S) = 1 .. n /\ SetToSeq(S) \in [1 .. n -> S]
  BY <1>1 DEF n
<1>3. AreNames(SetToSeq(S), n)
  BY <1>2 DEF AreNames
<1> QED BY <1>1, <1>3 DEF n

PutStep(c, e, m) == SetPut(e, c, m)
PutHolds(c, i, e) == AtRest(e) /\ IsSetAt(e, c)
PutLoop == INSTANCE Loops WITH Step <- PutStep, Holds <- PutHolds

LEMMA SaddOwn ==
  ASSUME NEW d, AtRest(d), NEW key, NEW n \in Nat, NEW members, AreNames(members, n)
  PROVE  AtRest(Sadd(d, key, members).db)
<1> DEFINE o == SetObjects(d, key, TRUE, TRUE)
           r == Sadd(d, key, members)
           end == PutLoop!Loop(key, o.db, members)
<1>1. AtRest(o.db) /\ (o.ret = "ok" => IsSetAt(o.db, key))
  BY SetObjectsOwn
<1>2. CASE o.ret = "ok"
  <2> HIDE DEF o
  <2>1. r.db = end
    BY <1>2 DEF Sadd, Then, Ret, o, PutLoop!Loop, FoldLeft, MapThenFoldSet, PutStep, PutLoop!Greatest, Max
  <2>2. PutHolds(key, 0, o.db)
    BY <1>1, <1>2 DEF PutHolds
  <2>3. ASSUME NEW i \in 1 .. n, NEW e, PutHolds(key, i - 1, e)
        PROVE  PutHolds(key, i, PutStep(key, e, members[i]))
    <3>1. members[i] \in Name
      BY DEF AreNames
    <3> QED BY <2>3, <3>1, SetPutOwn DEF PutHolds, PutStep
  <2>4. DOMAIN members = 1 .. n
    BY DEF AreNames
  <2>5. PutHolds(key, n, end)
    BY <2>2, <2>3, <2>4, PutLoop!LoopKeeps, Inductive
  <2> HIDE DEF end, r
  <2> QED BY <2>1, <2>5 DEF PutHolds, r
<1>3. CASE o.ret # "ok"
  <2>1. r.db = o.db
    <3> HIDE DEF o
    <3> QED BY <1>3 DEF Sadd, Then, Fail, o
  <2> HIDE DEF r, o
  <2> QED BY <1>1, <2>1 DEF r
<1> QED BY <1>2, <1>3

SremStep(c, e, m) ==
    IF c \in DOMAIN e.keys /\ m \in Members(e, c) THEN SetTake(e, c, m) ELSE e
SremHolds(c, i, e) == AtRest(e) /\ (c \in DOMAIN e.keys => IsSetAt(e, c))
SremLoop == INSTANCE Loops WITH Step <- SremStep, Holds <- SremHolds

LEMMA SremOwn ==
  ASSUME NEW d, AtRest(d), NEW key, NEW n \in Nat, NEW members, DOMAIN members = 1 .. n
  PROVE  AtRest(Srem(d, key, members).db)
<1> DEFINE o == SetObjects(d, key, TRUE, FALSE)
           r == Srem(d, key, members)
           end == SremLoop!Loop(key, o.db, members)
<1>1. AtRest(o.db) /\ (o.ret = "ok" => IsSetAt(o.db, key))
  BY SetObjectsOwn
<1>2. CASE o.ret = "ok"
  <2> HIDE DEF o
  <2>1. r.db = end
    BY <1>2 DEF Srem, Then, Ret, o, SremLoop!Loop, FoldLeft, MapThenFoldSet, SremStep, SremLoop!Greatest, Max
  <2>2. SremHolds(key, 0, o.db)
    BY <1>1, <1>2 DEF SremHolds
  <2>3. ASSUME NEW i \in 1 .. n, NEW e, SremHolds(key, i - 1, e)
        PROVE  SremHolds(key, i, SremStep(key, e, members[i]))
    <3> DEFINE m == members[i]
    <3> HIDE DEF m
    <3>1. CASE key \in DOMAIN e.keys /\ m \in Members(e, key)
      BY <2>3, <3>1, SetTakeOwn DEF SremHolds, SremStep, m
    <3>2. CASE ~(key \in DOMAIN e.keys /\ m \in Members(e, key))
      BY <2>3, <3>2 DEF SremHolds, SremStep, m
    <3> QED BY <3>1, <3>2
  <2>4. SremHolds(key, n, end)
    BY <2>2, <2>3, SremLoop!LoopKeeps, Inductive
  <2> HIDE DEF end, r
  <2> QED BY <2>1, <2>4 DEF SremHolds, r
<1>3. CASE o.ret # "ok"
  <2>1. r.db = o.db
    <3> HIDE DEF o
    <3> QED BY <1>3 DEF Srem, Then, Fail, o
  <2> HIDE DEF r, o
  <2> QED BY <1>1, <2>1 DEF r
<1> QED BY <1>2, <1>3

LEMMA MembersAreNames ==
  ASSUME NEW d, AtRest(d), NEW key, IsSetAt(d, key)
  PROVE  /\ IsFiniteSet(Members(d, key))
         /\ \A m \in Members(d, key) : m \in Name
<1>1. IsSet(d.heap, Value(d, key))
  BY SetFacts
<1> QED BY <1>1 DEF Members, IsSet

LEMMA SmoveOwn ==
  ASSUME NEW d, AtRest(d), NEW source, NEW destination, NEW m
  PROVE  AtRest(Smove(d, source, destination, m).db)
<1> DEFINE q == SetObjects(d, destination, FALSE, FALSE)
           o == SetObjects(q.db, source, TRUE, FALSE)
           t == SetTake(o.db, source, m)
           p == SetObjects(t, destination, TRUE, TRUE)
           e == SetPut(p.db, destination, m)
           r == Smove(d, source, destination, m)
<1>1. AtRest(q.db)
  BY SetObjectsOwn
<1>2. /\ q.ret = "wrong type" => r.db = q.db
      /\ q.ret # "wrong type" /\ o.ret # "ok" => r.db = o.db
      /\ q.ret # "wrong type" /\ o.ret = "ok" /\ m \notin Members(o.db, source) => r.db = o.db
      /\ q.ret # "wrong type" /\ o.ret = "ok" /\ m \in Members(o.db, source)
           => \/ p.ret # "ok" /\ r.db = p.db
              \/ p.ret = "ok" /\ r.db \in {d, e}
  <2> HIDE DEF q, o, t, p
  <2>1. r = IF q.ret = "wrong type" THEN q
            ELSE IF o.ret = "ok"
              THEN IF m \notin Members(o.db, source) THEN Fail(o.db, "not found")
                   ELSE IF p.ret = "ok"
                     THEN IF m \in Members(p.db, destination) THEN Fail(d, "aborted") ELSE Ret(e, <<1>>)
                     ELSE Fail(p.db, p.ret)
            ELSE Fail(o.db, o.ret)
    BY DEF Smove, Then, q, o, t, p
  <2> HIDE DEF r, e
  <2> QED BY <2>1 DEF Ret, Fail
<1> HIDE DEF q
<1>3. AtRest(o.db) /\ (o.ret = "ok" => IsSetAt(o.db, source))
  BY <1>1, SetObjectsOwn
<1> HIDE DEF o, r
<1>4. ASSUME o.ret = "ok", m \in Members(o.db, source)
      PROVE  AtRest(p.db) /\ (p.ret = "ok" => AtRest(e))
  <2>1. AtRest(t) /\ m \in Name
    BY <1>3, <1>4, SetTakeOwn, MembersAreNames
  <2> HIDE DEF t
  <2>2. AtRest(p.db) /\ (p.ret = "ok" => IsSetAt(p.db, destination))
    BY <2>1, SetObjectsOwn
  <2> HIDE DEF p
  <2> QED BY <2>1, <2>2, SetPutOwn
<1> HIDE DEF t, p, e
<1>5. AtRest(r.db)
  BY <1>1, <1>2, <1>3, <1>4
<1> QED BY <1>5 DEF r

LEMMA SpopOwn ==
  ASSUME NEW d, AtRest(d), NEW key, NEW r \in Spop(d, key)
  PROVE  AtRest(r.db)
<1> DEFINE o == SetObjects(d, key, TRUE, FALSE)
<1>1. AtRest(o.db) /\ (o.ret = "ok" => IsSetAt(o.db, key))
  BY SetObjectsOwn
<1>2. \/ r = o
      \/ o.ret = "ok" /\ \E m \in Members(o.db, key) : r = Ret(SetTake(o.db, key, m), <<m>>)
  <2> HIDE DEF o
  <2> QED BY DEF Spop, o
<1> HIDE DEF o
<1>3. CASE r = o
  BY <1>1, <1>3
<1>4. CASE o.ret = "ok" /\ \E m \in Members(o.db, key) : r = Ret(SetTake(o.db, key, m), <<m>>)
  <2>1. PICK m \in Members(o.db, key) : r = Ret(SetTake(o.db, key, m), <<m>>)
    BY <1>4
  <2>2. AtRest(SetTake(o.db, key, m))
    BY <1>1, <1>4, SetTakeOwn
  <2>3. r.db = SetTake(o.db, key, m)
    BY <2>1 DEF Ret
  <2> QED BY <2>2, <2>3
<1> QED BY <1>2, <1>3, <1>4

(* The sets that the *STORE commands read *)
FiniteNames == {S \in SUBSET Name : IsFiniteSet(S)}
SourcesStep(c, r, key) ==
    LET add(o, out, k) ==
          CASE o.ret = "ok" -> Ret(o.db, Append(out, Members(o.db, k)))
            [] o.ret = "not found" /\ ~c -> Ret(o.db, out)
            [] OTHER -> o
    IN IF r.ret # "ok" THEN r ELSE add(SetObjects(r.db, key, FALSE, FALSE), r.out, key)
SourcesHolds(c, i, r) ==
    /\ AtRest(r.db)
    /\ r.ret = "ok" => r.out \in Seq(FiniteNames) /\ (c => Len(r.out) = i)
SourcesLoop == INSTANCE Loops WITH Step <- SourcesStep, Holds <- SourcesHolds

LEMMA SourcesOwn ==
  ASSUME NEW d, AtRest(d), NEW required, NEW n \in Nat, NEW keys, DOMAIN keys = 1 .. n
  PROVE  LET r == Sources(d, keys, required)
         IN /\ AtRest(r.db)
            /\ r.ret = "ok" => r.out \in Seq(FiniteNames) /\ (required => Len(r.out) = n)
<1>1. Sources(d, keys, required) = SourcesLoop!Loop(required, Ret(d, <<>>), keys)
  BY DEF Sources, SourcesLoop!Loop, FoldLeft, MapThenFoldSet, SourcesStep, SourcesLoop!Greatest, Max
<1>2. SourcesHolds(required, 0, Ret(d, <<>>))
  <2>1. <<>> \in Seq(FiniteNames) /\ Len(<<>>) = 0
    OBVIOUS
  <2> QED BY <2>1 DEF SourcesHolds, Ret
<1>3. ASSUME NEW i \in 1 .. n, NEW r, SourcesHolds(required, i - 1, r)
      PROVE  SourcesHolds(required, i, SourcesStep(required, r, keys[i]))
  <2> DEFINE key == keys[i]
             o == SetObjects(r.db, key, FALSE, FALSE)
             t == SourcesStep(required, r, keys[i])
  <2>1. CASE r.ret # "ok"
    <3>1. t = r
      BY <2>1 DEF SourcesStep
    <3> HIDE DEF t
    <3> QED BY <1>3, <2>1, <3>1 DEF SourcesHolds, t
  <2>2. CASE r.ret = "ok"
    <3>1. t = CASE o.ret = "ok" -> Ret(o.db, Append(r.out, Members(o.db, key)))
                [] o.ret = "not found" /\ ~required -> Ret(o.db, r.out)
                [] OTHER -> o
      BY <2>2 DEF SourcesStep
    <3>2. AtRest(o.db) /\ (o.ret = "ok" => IsSetAt(o.db, key))
      <4> DEFINE update == FALSE
      <4>1. AtRest(r.db)
        BY <1>3 DEF SourcesHolds
      <4> HIDE DEF update
      <4> QED BY <4>1, SetObjectsOwn
    <3> HIDE DEF o, t, key
    <3>3. CASE o.ret = "ok"
      <4>1. Members(o.db, key) \in FiniteNames
        BY <3>2, <3>3, MembersAreNames DEF FiniteNames
      <4> DEFINE new == Append(r.out, Members(o.db, key))
      <4>2. r.out \in Seq(FiniteNames) /\ (required => Len(r.out) = i - 1)
        BY <1>3, <2>2 DEF SourcesHolds
      <4>3. new \in Seq(FiniteNames) /\ Len(new) = Len(r.out) + 1
        BY <4>1, <4>2
      <4>4. required => Len(new) = i
        BY <4>2, <4>3
      <4>5. t.db = o.db /\ t.ret = "ok" /\ t.out = new
        BY <3>1, <3>3 DEF Ret
      <4> HIDE DEF new
      <4> QED BY <3>2, <4>3, <4>4, <4>5 DEF SourcesHolds, t
    <3>4. CASE o.ret = "not found" /\ ~required
      <4>1. t.db = o.db /\ t.ret = "ok" /\ t.out = r.out
        BY <3>1, <3>4 DEF Ret
      <4> QED BY <1>3, <2>2, <3>2, <3>4, <4>1 DEF SourcesHolds, t
    <3>5. CASE o.ret # "ok" /\ ~(o.ret = "not found" /\ ~required)
      <4>1. t = o
        BY <3>1, <3>5
      <4> QED BY <3>2, <3>5, <4>1 DEF SourcesHolds, t
    <3> QED BY <3>3, <3>4, <3>5
  <2> QED BY <2>1, <2>2
<1>4. SourcesHolds(required, n, SourcesLoop!Loop(required, Ret(d, <<>>), keys))
  BY <1>2, <1>3, SourcesLoop!LoopKeeps, Inductive
<1> QED BY <1>1, <1>4 DEF SourcesHolds

(* What is to be stored *)
IsFound(r) == AtRest(r.db) /\ (r.ret = "ok" => r.out[1] \in FiniteNames)

LEMMA StoredOwn ==
  ASSUME NEW r, IsFound(r), NEW target
  PROVE  AtRest(Stored(r, target).db)
<1> DEFINE s == SetToSeq(r.out[1])
           n == Cardinality(r.out[1])
           t == Stored(r, target)
<1>1. CASE r.ret # "ok"
  <2>1. t.db = r.db
    BY <1>1 DEF Stored, Fail
  <2> HIDE DEF t
  <2> QED BY <2>1 DEF IsFound, t
<1>2. CASE r.ret = "ok"
  <2>1. t = Sadd(r.db, target, s)
    BY <1>2 DEF Stored
  <2>2. n \in Nat /\ AreNames(s, n)
    BY <1>2, NamesListed DEF IsFound, FiniteNames
  <2> HIDE DEF s, n
  <2>3. AtRest(Sadd(r.db, target, s).db)
    BY <2>2, SaddOwn DEF IsFound
  <2> QED BY <2>1, <2>3
<1> QED BY <1>1, <1>2

LEMMA SdiffFound ==
  ASSUME NEW d, AtRest(d), NEW keys, keys \in Seq(Range(keys)), keys # <<>>
  PROVE  IsFound(Sdiff(d, keys))
<1> DEFINE one == <<Head(keys)>>
           more == Tail(keys)
           p == Sources(d, one, TRUE)
           q == Sources(p.db, more, FALSE)
           diff == p.out[1] \ UNION Range(q.out)
           r == Sdiff(d, keys)
<1>1. DOMAIN one = 1 .. 1 /\ Len(keys) - 1 \in Nat /\ DOMAIN more = 1 .. Len(keys) - 1
  OBVIOUS
<1>2. AtRest(p.db) /\ (p.ret = "ok" => p.out \in Seq(FiniteNames) /\ Len(p.out) = 1)
  <2> DEFINE yes == TRUE
             n == 1
  <2>1. n \in Nat /\ DOMAIN one = 1 .. n
    BY <1>1
  <2> HIDE DEF yes, one, n
  <2>2. LET s == Sources(d, one, yes)
        IN AtRest(s.db) /\ (s.ret = "ok" => s.out \in Seq(FiniteNames) /\ (yes => Len(s.out) = n))
    BY <2>1, SourcesOwn
  <2> QED BY <2>2 DEF yes, n
<1>3. r = IF p.ret # "ok" THEN p ELSE IF q.ret # "ok" THEN q
          ELSE IF diff = {} THEN Fail(q.db, "not found") ELSE Ret(q.db, <<diff>>)
  BY DEF Sdiff
<1>4. AtRest(q.db)
  <2> DEFINE no == FALSE
  <2> HIDE DEF no, more, p
  <2>1. AtRest(Sources(p.db, more, no).db)
    BY <1>1, <1>2, SourcesOwn
  <2> QED BY <2>1 DEF no
<1> HIDE DEF p, q, r
<1>5. p.ret = "ok" => diff \in FiniteNames
  <2> SUFFICES ASSUME p.ret = "ok" PROVE diff \in FiniteNames
    OBVIOUS
  <2>1. p.out[1] \in FiniteNames
    BY <1>2
  <2>2. diff \subseteq p.out[1] /\ diff \in SUBSET Name
    BY <2>1 DEF FiniteNames
  <2> HIDE DEF diff
  <2>3. IsFiniteSet(diff)
    BY <2>1, <2>2, FS_Subset DEF FiniteNames
  <2> QED BY <2>2, <2>3 DEF FiniteNames
<1> HIDE DEF diff
<1>6. r.db \in {p.db, q.db} /\ (r.ret = "ok" => p.ret = "ok" /\ r.out[1] = diff)
  BY <1>3 DEF Ret, Fail
<1> QED BY <1>2, <1>4, <1>5, <1>6 DEF IsFound, r

LEMMA SinterFound ==
  ASSUME NEW d, AtRest(d), NEW n \in Nat \ {0}, NEW keys, DOMAIN keys = 1 .. n
  PROVE  IsFound(Sinter(d, keys))
<1> DEFINE p == Sources(d, keys, TRUE)
           all == {m \in p.out[1] : \A i \in DOMAIN p.out : m \in p.out[i]}
           r == Sinter(d, keys)
<1>1. AtRest(p.db) /\ (p.ret = "ok" => p.out \in Seq(FiniteNames) /\ Len(p.out) = n)
  <2> DEFINE yes == TRUE
  <2> HIDE DEF yes
  <2>1. LET s == Sources(d, keys, yes)
        IN AtRest(s.db) /\ (s.ret = "ok" => s.out \in Seq(FiniteNames) /\ (yes => Len(s.out) = n))
    BY SourcesOwn
  <2> QED BY <2>1 DEF yes
<1>2. r = IF p.ret # "ok" THEN p
          ELSE IF {} \in Range(p.out) THEN Fail(p.db, "not found")
          ELSE IF all = {} THEN Fail(d, "aborted") ELSE Ret(p.db, <<all>>)
  BY DEF Sinter
<1> HIDE DEF p, r
<1>3. p.ret = "ok" => all \in FiniteNames
  <2> SUFFICES ASSUME p.ret = "ok" PROVE all \in FiniteNames
    OBVIOUS
  <2>1. p.out[1] \in FiniteNames
    BY <1>1
  <2>2. all \subseteq p.out[1] /\ all \in SUBSET Name
    BY <2>1 DEF FiniteNames
  <2> HIDE DEF all
  <2>3. IsFiniteSet(all)
    BY <2>1, <2>2, FS_Subset DEF FiniteNames
  <2> QED BY <2>2, <2>3 DEF FiniteNames
<1> HIDE DEF all
<1>4. r.db \in {p.db, d} /\ (r.ret = "ok" => p.ret = "ok" /\ r.out[1] = all)
  BY <1>2 DEF Ret, Fail
<1> QED BY <1>1, <1>3, <1>4 DEF IsFound, r

LEMMA SdiffstoreOwn ==
  ASSUME NEW d, AtRest(d), NEW target, NEW keys, keys \in Seq(Range(keys)), keys # <<>>
  PROVE  AtRest(Sdiffstore(d, target, keys).db)
<1> DEFINE e == DeleteWithValue(d, target).db
           s == Sdiff(e, keys)
<1>1. AtRest(e)
  BY DeleteWithValueRest
<1>2. Sdiffstore(d, target, keys) = Stored(s, target)
  BY DEF Sdiffstore
<1> HIDE DEF e
<1>3. IsFound(s)
  BY <1>1, SdiffFound
<1> HIDE DEF s
<1> QED BY <1>2, <1>3, StoredOwn

LEMMA SinterstoreOwn ==
  ASSUME NEW d, AtRest(d), NEW target, NEW n \in Nat \ {0}, NEW keys, DOMAIN keys = 1 .. n
  PROVE  AtRest(Sinterstore(d, target, keys).db)
<1> DEFINE e == DeleteWithValue(d, target).db
           s == Sinter(e, keys)
           t == Stored(s, target)
           r == Sinterstore(d, target, keys)
<1>1. AtRest(e)
  BY DeleteWithValueRest
<1>2. r = IF t.ret = "aborted" THEN Fail(d, "aborted") ELSE t
  BY DEF Sinterstore
<1> HIDE DEF e
<1>3. IsFound(s)
  BY <1>1, SinterFound
<1> HIDE DEF s
<1>4. AtRest(t.db)
  BY <1>3, StoredOwn
<1> HIDE DEF t, r
<1>5. r.db \in {d, t.db}
  BY <1>2 DEF Fail
<1> QED BY <1>4, <1>5 DEF r

(* A key that does not expire is there after any key is read. *)
Stays(d, e, t) == t \in DOMAIN e.keys /\ e.keys[t] = d.keys[t]

LEMMA ReadStays ==
  ASSUME NEW d, AtRest(d), NEW t, t \in DOMAIN d.keys, d.keys[t].expires = 0,
         NEW key, NEW type \in Aggregates, NEW expires
  PROVE  Stays(d, Objects(d, key, type, FALSE, FALSE, expires).db, t)
<1> DEFINE r == Objects(d, key, type, FALSE, FALSE, expires)
<1>1. key \in DOMAIN d.keys /\ ~Expired(d, key) => r.db = d
  BY ObjectsRead
<1>2. Others(d, r.db, key)
  <2> DEFINE no == FALSE
  <2> HIDE DEF no
  <2>1. Others(d, Objects(d, key, type, no, no, expires).db, key)
    BY ObjectsOwn
  <2> QED BY <2>1 DEF no
<1> HIDE DEF r
<1>3. CASE key = t
  BY <1>1, <1>3 DEF Expired, Stays, r
<1>4. CASE key # t
  BY <1>2, <1>4 DEF Others, Stays, r
<1> QED BY <1>3, <1>4

(* SUNIONSTORE adds the members of its sources, one by one, to its target. *)
IsTarget(d, target) == IsSetAt(d, target) /\ d.keys[target].expires = 0
UnionPutHolds(c, i, e) == AtRest(e) /\ IsTarget(e, c)
UnionPutLoop == INSTANCE Loops WITH Step <- PutStep, Holds <- UnionPutHolds
UnionStep(c, r, key) ==
    LET union(o, k) ==
          CASE o.ret = "not found" -> Ret(o.db, <<>>)
            [] o.ret = "ok" /\ Members(o.db, k) = {} -> Fail(o.db, "not found")
            [] OTHER -> Then(o, LAMBDA e : Ret(UnionPutLoop!Loop(c, e, SetToSeq(Members(e, k))), <<>>))
    IN IF r.ret # "ok" THEN r ELSE union(SetObjects(r.db, key, FALSE, FALSE), key)
UnionHolds(c, i, r) ==
    AtRest(r.db) /\ (r.ret = "ok" => IsTarget(r.db, c))
UnionLoop == INSTANCE Loops WITH Step <- UnionStep, Holds <- UnionHolds

LEMMA UnionPutOwn ==
  ASSUME NEW d, AtRest(d), NEW target, IsTarget(d, target),
         NEW n \in Nat, NEW members, AreNames(members, n)
  PROVE  LET e == UnionPutLoop!Loop(target, d, members) IN AtRest(e) /\ IsTarget(e, target)
<1>1. UnionPutHolds(target, 0, d)
  BY DEF UnionPutHolds
<1>2. ASSUME NEW i \in 1 .. n, NEW e, UnionPutHolds(target, i - 1, e)
      PROVE  UnionPutHolds(target, i, PutStep(target, e, members[i]))
  <2>1. members[i] \in Name
    BY DEF AreNames
  <2> QED BY <1>2, <2>1, SetPutOwn DEF UnionPutHolds, IsTarget, PutStep
<1>3. DOMAIN members = 1 .. n
  BY DEF AreNames
<1>4. UnionPutHolds(target, n, UnionPutLoop!Loop(target, d, members))
  BY <1>1, <1>2, <1>3, UnionPutLoop!LoopKeeps, Inductive
<1> QED BY <1>4 DEF UnionPutHolds

LEMMA UnionStepOwn ==
  ASSUME NEW c, NEW i, NEW j, NEW r, UnionHolds(c, i, r), NEW key
  PROVE  UnionHolds(c, j, UnionStep(c, r, key))
<1> DEFINE o == SetObjects(r.db, key, FALSE, FALSE)
           s == SetToSeq(Members(o.db, key))
           n == Cardinality(Members(o.db, key))
           e == UnionPutLoop!Loop(c, o.db, s)
           t == UnionStep(c, r, key)
<1>1. CASE r.ret # "ok"
  <2>1. t = r
    BY <1>1 DEF UnionStep
  <2> HIDE DEF t
  <2> QED BY <2>1 DEF UnionHolds, t
<1>2. CASE r.ret = "ok"
  <2>1. AtRest(r.db) /\ IsTarget(r.db, c)
    BY <1>2 DEF UnionHolds
  <2>2. t = CASE o.ret = "not found" -> Ret(o.db, <<>>)
              [] o.ret = "ok" /\ Members(o.db, key) = {} -> Fail(o.db, "not found")
              [] OTHER -> IF o.ret = "ok" THEN Ret(e, <<>>) ELSE Fail(o.db, o.ret)
    BY <1>2 DEF UnionStep, Then
  <2>3. AtRest(o.db) /\ (o.ret = "ok" => IsSetAt(o.db, key))
    <3> DEFINE update == FALSE
    <3> HIDE DEF update
    <3> QED BY <2>1, SetObjectsOwn
  <2>4. IsTarget(o.db, c)
    <3> DEFINE zero == 0
               set == "set"
    <3>1. set \in Aggregates
      BY DEF Aggregates
    <3>2. o = Objects(r.db, key, set, FALSE, FALSE, zero)
      BY DEF SetObjects
    <3> HIDE DEF zero, set, o
    <3>3. c \in DOMAIN r.db.keys /\ r.db.keys[c].expires = 0
      BY <2>1 DEF IsTarget, IsSetAt
    <3>4. Stays(r.db, o.db, c)
      BY <2>1, <3>1, <3>2, <3>3, ReadStays
    <3> QED BY <2>1, <3>4 DEF IsTarget, IsSetAt, Stays
  <2> HIDE DEF o, t
  <2>5. CASE o.ret # "ok" \/ Members(o.db, key) = {}
    <3>1. t.db = o.db
      BY <2>2, <2>5 DEF Ret, Fail
    <3> QED BY <2>3, <2>4, <3>1 DEF UnionHolds, t
  <2>6. CASE ~(o.ret # "ok" \/ Members(o.db, key) = {})
    <3>1. t.db = e
      <4> HIDE DEF e
      <4> QED BY <2>2, <2>6 DEF Ret
    <3>2. n \in Nat /\ AreNames(s, n)
      BY <2>3, <2>6, MembersAreNames, NamesListed
    <3> HIDE DEF n, s
    <3>3. AtRest(e) /\ IsTarget(e, c)
      BY <2>3, <2>4, <3>2, UnionPutOwn
    <3> HIDE DEF e
    <3> QED BY <3>1, <3>3 DEF UnionHolds, t
  <2> QED BY <2>5, <2>6
<1> QED BY <1>1, <1>2

LEMMA SunionstoreOwn ==
  ASSUME NEW d, AtRest(d), NEW target, NEW n \in Nat, NEW keys, DOMAIN keys = 1 .. n
  PROVE  AtRest(Sunionstore(d, target, keys).db)
<1> DEFINE b == DeleteWithValue(d, target).db
           made == SetObjects(b, target, FALSE, TRUE)
           all == UnionLoop!Loop(target, made, keys)
           gone == DeleteWithValue(all.db, target).db
           r == Sunionstore(d, target, keys)
<1>1. AtRest(b) /\ target \notin DOMAIN b.keys
  BY DeleteWithValueRest
<1> HIDE DEF b
<1>2. AtRest(made.db) /\ (made.ret = "ok" => IsTarget(made.db, target))
  <2> DEFINE zero == 0
             set == "set"
             no == FALSE
             yes == TRUE
  <2>1. set \in Aggregates
    BY DEF Aggregates
  <2>2. AtRest(made.db) /\ (made.ret = "ok" => IsSetAt(made.db, target))
    <3> HIDE DEF no, yes
    <3>1. LET q == SetObjects(b, target, no, yes)
          IN AtRest(q.db) /\ (q.ret = "ok" => IsSetAt(q.db, target))
      BY <1>1, SetObjectsOwn
    <3> QED BY <3>1 DEF no, yes
  <2>3. made.db.keys[target].expires = 0
    <3>1. made = Objects(b, target, set, no, TRUE, zero)
      BY DEF SetObjects
    <3> HIDE DEF made, set, no, zero, yes
    <3>2. Objects(b, target, set, no, TRUE, zero).db.keys[target].expires = 0
      BY <1>1, <2>1, ObjectsNew
    <3> QED BY <3>1, <3>2
  <2> HIDE DEF made
  <2> QED BY <2>2, <2>3 DEF IsTarget
<1>3. r = Then(all, LAMBDA e : LET count == Cardinality(Members(e, target))
                               IN Ret(IF count = 0 THEN DeleteWithValue(e, target).db ELSE e, <<count>>))
  BY DEF Sunionstore, UnionLoop!Loop, FoldLeft, MapThenFoldSet,
         UnionStep, UnionLoop!Greatest, Max, UnionPutLoop!Loop, PutStep, UnionPutLoop!Greatest, b
<1> HIDE DEF made, r
<1>4. UnionHolds(target, 0, made)
  BY <1>2 DEF UnionHolds
<1>5. ASSUME NEW i \in 1 .. n, NEW s, UnionHolds(target, i - 1, s)
      PROVE  UnionHolds(target, i, UnionStep(target, s, keys[i]))
  BY <1>5, UnionStepOwn
<1>6. UnionHolds(target, n, all)
  BY <1>4, <1>5, UnionLoop!LoopKeeps, Inductive
<1> HIDE DEF all
<1>7. AtRest(all.db)
  BY <1>6 DEF UnionHolds
<1>8. AtRest(gone)
  BY <1>7, DeleteWithValueRest
<1>9. r.db \in {all.db, gone}
  <2> HIDE DEF gone
  <2> QED BY <1>3 DEF Then, Ret, Fail, gone
<1> HIDE DEF gone
<1> QED BY <1>7, <1>8, <1>9 DEF r

(* A database with strings that are to be held *)
Holding(d, loose) == Own(d, loose, {})

LEMMA ValueTakesUp ==
  ASSUME NEW d, NEW loose, Holding(d, loose), NEW key \in DOMAIN d.keys, d.keys[key].type # "list",
         NEW s, NEW v,
         LET type == d.keys[key].type
         IN /\ IsValue(SetString(d, s).heap, type, v)
            /\ StringsOf(type, v) = StringsOf(type, d.keys[key].value) \cup loose \cup {StringPage(d)}
  PROVE  LET e == SetValue(SetString(d, s), key, v)
         IN /\ AtRest(e)
            /\ Others(d, e, key)
            /\ Newly(d, e, key, v)
<1> DEFINE f == SetString(d, s)
           page == StringPage(d)
           e == SetValue(f, key, v)
           type == d.keys[key].type
           held == StringsOf(type, d.keys[key].value)
           bare == {}
           empty == (bare \ {key}) \cup BareOf(key, type, v)
           more == loose \cup {page}
<1>0. Own(d, loose, bare)
  BY DEF Holding
<1>a. empty = {}
  BY DEF BareOf
<1> HIDE DEF bare, empty
<1>1. Own(f, more, bare) /\ f.keys = d.keys
  BY <1>0, SetStringOwn
<1>2. Own(f, more, bare) /\ f.keys = d.keys /\ key \in DOMAIN f.keys
      /\ f.keys[key].type = type /\ ValueStrings(f, key) = held
  <2> HIDE DEF f, more
  <2> QED BY <1>1 DEF ValueStrings
<1>3. IsValue(f.heap, type, v) /\ StringsOf(type, v) = held \cup more
  <2>1. StringsOf(type, v) = held \cup loose \cup {page}
    OBVIOUS
  <2> HIDE DEF held, page
  <2> QED BY <2>1
<1> HIDE DEF f, page, held, type, more
<1>4. (more \cup ValueStrings(f, key)) \ StringsOf(f.keys[key].type, v) = {}
  BY <1>2, <1>3
<1>5. /\ Own(e, (more \cup ValueStrings(f, key)) \ StringsOf(f.keys[key].type, v), empty)
      /\ Others(f, e, key)
      /\ key \in DOMAIN e.keys
      /\ e.keys[key].type = type
      /\ e.keys[key].value = v
      /\ e.keys[key].expires = f.keys[key].expires
  BY <1>2, <1>3, SetValueOwn DEF empty
<1> HIDE DEF e
<1>6. AtRest(e)
  BY <1>a, <1>4, <1>5 DEF AtRest
<1> QED BY <1>2, <1>5, <1>6 DEF Others, Newly, e, f, type

(* Some strings of a value are deleted, others are to be held again. *)
LEMMA ValueLoosens ==
  ASSUME NEW d, AtRest(d), NEW key \in DOMAIN d.keys, d.keys[key].type # "list",
         NEW gone, NEW keep, NEW v,
         LET type == d.keys[key].type
         IN /\ IsValue(d.heap, type, v)
            /\ StringsOf(type, d.keys[key].value) = StringsOf(type, v) \cup gone \cup keep
            /\ StringsOf(type, v) \cap (gone \cup keep) = {}
            /\ gone \cap keep = {}
  PROVE  LET e == SetValue(DeleteStrings(d, gone), key, v)
         IN /\ Holding(e, keep)
            /\ Others(d, e, key)
            /\ Newly(d, e, key, v)
            /\ DOMAIN e.heap = DOMAIN d.heap \ gone
            /\ Agree(e.heap, d.heap, DOMAIN d.heap \ gone)
<1> DEFINE f == SetValue(d, key, v)
           e == DeleteStrings(f, gone)
           type == d.keys[key].type
           held == StringsOf(type, d.keys[key].value)
           bare == {}
           empty == (bare \ {key}) \cup BareOf(key, type, v)
           both == gone \cup keep
<1>0. Own(d, {}, bare) /\ IsDatabase(d)
  BY DEF AtRest, Own
<1>a. empty = {}
  BY DEF BareOf
<1> HIDE DEF bare
<1>1. SetValue(DeleteStrings(d, gone), key, v) = e
  BY <1>0, SetValueDeleteStrings
<1>2. ValueStrings(d, key) = held
  BY DEF ValueStrings
<1>3. IsValue(d.heap, type, v) /\ StringsOf(type, v) = held \ both /\ both \subseteq held /\ both \ gone = keep
      /\ gone \subseteq both
  <2>1. held = StringsOf(type, v) \cup gone \cup keep /\ StringsOf(type, v) \cap both = {} /\ gone \cap keep = {}
    OBVIOUS
  <2> HIDE DEF held, type
  <2>2. StringsOf(type, v) = held \ both /\ both \subseteq held /\ both \ gone = keep
    BY <2>1
  <2> QED BY <2>2 DEF type
<1> HIDE DEF both
<1>4. StringsOf(type, v) \subseteq {} \cup ValueStrings(d, key)
      /\ ({} \cup ValueStrings(d, key)) \ StringsOf(type, v) = both
  <2> HIDE DEF type, held
  <2> QED BY <1>2, <1>3
<1>5. /\ Own(f, ({} \cup ValueStrings(d, key)) \ StringsOf(type, v), empty)
      /\ Others(d, f, key)
      /\ key \in DOMAIN f.keys
      /\ f.heap = d.heap
      /\ f.keys[key].type = type
      /\ f.keys[key].value = v
      /\ f.keys[key].expires = d.keys[key].expires
  <2> DEFINE none == {}
  <2>0. Own(d, none, bare)
    BY <1>0
  <2>1. IsValue(d.heap, d.keys[key].type, v)
        /\ StringsOf(d.keys[key].type, v) \subseteq none \cup ValueStrings(d, key)
    BY <1>3, <1>4
  <2> HIDE DEF none
  <2>2. /\ Own(f, (none \cup ValueStrings(d, key)) \ StringsOf(d.keys[key].type, v),
                  (bare \ {key}) \cup BareOf(key, d.keys[key].type, v))
        /\ Others(d, f, key)
        /\ key \in DOMAIN f.keys
        /\ f.heap = d.heap
        /\ f.keys[key].type = d.keys[key].type
        /\ f.keys[key].value = v
        /\ f.keys[key].expires = d.keys[key].expires
    BY <2>0, <2>1, SetValueOwn
  <2> HIDE DEF f
  <2> QED BY <2>2 DEF none
<1> HIDE DEF f, empty, held
<1>6. Own(f, both, empty)
  <2> HIDE DEF type
  <2> QED BY <1>4, <1>5
<1>7. /\ Own(e, both \ gone, empty)
      /\ e.keys = f.keys
      /\ DOMAIN e.heap = DOMAIN f.heap \ gone
      /\ Agree(e.heap, f.heap, DOMAIN f.heap \ gone)
  BY <1>3, <1>6, DeleteStringsOwn
<1> HIDE DEF e
<1>8. Holding(e, keep)
  <2>1. both \ gone = keep
    BY <1>3
  <2> QED BY <1>7, <2>1, <1>a DEF Holding
<1>9. /\ Others(d, e, key)
      /\ Newly(d, e, key, v)
      /\ DOMAIN e.heap = DOMAIN d.heap \ gone
      /\ Agree(e.heap, d.heap, DOMAIN d.heap \ gone)
  BY <1>5, <1>7 DEF Others, Newly
<1> QED BY <1>1, <1>8, <1>9

(* It does not matter what value a key has that gets another. *)
LEMMA ThroughValue ==
  ASSUME NEW e, IsDatabase(e), NEW key \in DOMAIN e.keys, NEW w, NEW s, NEW v
  PROVE  SetValue(SetString(SetValue(e, key, w), s), key, v) = SetValue(SetString(e, s), key, v)
<1> DEFINE g == SetString(e, s)
<1>1. SetString(SetValue(e, key, w), s) = SetValue(g, key, w)
  BY SetValueSetString
<1>2. IsDatabase(g) /\ g.keys = e.keys
  BY SetStringFacts
<1> HIDE DEF g
<1>3. SetValue(SetValue(g, key, w), key, v) = SetValue(g, key, v)
  BY <1>2, SetValueTwice
<1> QED BY <1>1, <1>3 DEF g

-----------------------------------------------------------------------------
(* Hashes, as functions of their strings *)
LEMMA HashGrows ==
  ASSUME NEW heap, NEW hash, IsHash(heap, hash), NEW f, f \notin DOMAIN hash,
         NEW p, NEW q, p \notin HashStrings(hash), q \notin HashStrings(hash), p # q,
         NEW new, Agree(new, heap, HashStrings(hash)), new[p] = f,
         NEW v, v = Put(hash, f, [string |-> p, value |-> q])
  PROVE  /\ IsHash(new, v)
         /\ HashStrings(v) = HashStrings(hash) \cup {p} \cup {q}
<1> DEFINE entry == [string |-> p, value |-> q]
<1>0. entry.string = p /\ entry.value = q /\ entry = [string |-> entry.string, value |-> entry.value]
  OBVIOUS
<1> HIDE DEF entry
<1>1. IsFunction(v) /\ DOMAIN v = DOMAIN hash \cup {f}
  <2>1. v = Put(hash, f, entry)
    BY DEF entry
  <2>2. IsFunction(Put(hash, f, entry)) /\ DOMAIN Put(hash, f, entry) = DOMAIN hash \cup {f}
    BY PutDomain
  <2> QED BY <2>1, <2>2
<1>2. v[f] = entry /\ \A x \in DOMAIN hash : v[x] = hash[x]
  <2>1. v = Put(hash, f, entry)
    BY DEF entry
  <2>2. v[f] = entry /\ \A x \in DOMAIN hash \ {f} : v[x] = hash[x]
    BY <2>1, PutFacts
  <2> QED BY <2>2
<1>3. \A x \in DOMAIN hash : /\ hash[x].string \in HashStrings(hash) /\ hash[x].value \in HashStrings(hash)
                             /\ hash[x].string \notin {p, q} /\ hash[x].value \notin {p, q}
  <2>1. \A x \in DOMAIN hash : hash[x].string \in HashStrings(hash) /\ hash[x].value \in HashStrings(hash)
    BY DEF HashStrings
  <2> QED BY <2>1
<1>4. HashStrings(v) = HashStrings(hash) \cup {p} \cup {q}
  <2>1. \A y : y \in HashStrings(v) <=> \E x \in DOMAIN v : y = v[x].string \/ y = v[x].value
    BY DEF HashStrings
  <2>2. \A y : y \in HashStrings(hash) <=> \E x \in DOMAIN hash : y = hash[x].string \/ y = hash[x].value
    BY DEF HashStrings
  <2>3. ASSUME NEW y PROVE y \in HashStrings(v) <=> y \in HashStrings(hash) \cup {p} \cup {q}
    BY <1>0, <1>1, <1>2, <2>1, <2>2
  <2> QED BY <2>3
<1>5. \A x \in DOMAIN v : v[x] = [string |-> v[x].string, value |-> v[x].value] /\ new[v[x].string] = x
  <2> SUFFICES ASSUME NEW x \in DOMAIN v
               PROVE  v[x] = [string |-> v[x].string, value |-> v[x].value] /\ new[v[x].string] = x
    OBVIOUS
  <2>1. CASE x = f
    BY <1>0, <1>2, <2>1
  <2>2. CASE x \in DOMAIN hash
    BY <1>2, <1>3, <2>2 DEF IsHash, Agree
  <2> QED BY <1>1, <2>1, <2>2
<1>6. \A x, y \in DOMAIN v : v[x].string # v[y].value /\ (v[x].value = v[y].value => x = y)
  <2> SUFFICES ASSUME NEW x \in DOMAIN v, NEW y \in DOMAIN v
               PROVE  v[x].string # v[y].value /\ (v[x].value = v[y].value => x = y)
    OBVIOUS
  <2>1. CASE x \in DOMAIN hash /\ y \in DOMAIN hash
    BY <1>2, <2>1 DEF IsHash
  <2>2. CASE x = f /\ y \in DOMAIN hash
    BY <1>0, <1>2, <1>3, <2>2
  <2>3. CASE y = f /\ x \in DOMAIN hash
    BY <1>0, <1>2, <1>3, <2>3
  <2>4. CASE x = f /\ y = f
    BY <1>0, <1>2, <2>4
  <2> QED BY <1>1, <2>1, <2>2, <2>3, <2>4
<1> QED BY <1>1, <1>4, <1>5, <1>6 DEF IsHash

LEMMA HashShrinks ==
  ASSUME NEW heap, NEW hash, IsHash(heap, hash), NEW f \in DOMAIN hash,
         NEW w, w = Restrict(hash, DOMAIN hash \ {f})
  PROVE  /\ IsHash(heap, w)
         /\ HashStrings(hash) = HashStrings(w) \cup {hash[f].string} \cup {hash[f].value}
         /\ hash[f].string \notin HashStrings(w)
         /\ hash[f].value \notin HashStrings(w)
         /\ hash[f].string # hash[f].value
         /\ DOMAIN w = DOMAIN hash \ {f}
<1> DEFINE left == DOMAIN hash \ {f}
<1>1. IsFunction(w) /\ DOMAIN w = left /\ \A x \in left : w[x] = hash[x]
  BY RestrictFacts
<1>2. \A x \in left : x \in DOMAIN hash /\ x # f
  OBVIOUS
<1>3. \A x \in DOMAIN hash : x = f \/ x \in left
  OBVIOUS
<1>4. IsHash(heap, w)
  <2> HIDE DEF left
  <2> QED BY <1>1, <1>2 DEF IsHash
<1>5. \A y : y \in HashStrings(w) <=> \E x \in left : y = hash[x].string \/ y = hash[x].value
  <2> HIDE DEF left
  <2> QED BY <1>1 DEF HashStrings
<1>6. \A y : y \in HashStrings(hash) <=> \E x \in DOMAIN hash : y = hash[x].string \/ y = hash[x].value
  BY DEF HashStrings
<1> HIDE DEF left
<1>7. HashStrings(hash) = HashStrings(w) \cup {hash[f].string} \cup {hash[f].value}
  <2>1. ASSUME NEW y
        PROVE  y \in HashStrings(hash) <=> y \in HashStrings(w) \cup {hash[f].string} \cup {hash[f].value}
    BY <1>2, <1>3, <1>5, <1>6
  <2> QED BY <2>1
<1>8. hash[f].string \notin HashStrings(w) /\ hash[f].value \notin HashStrings(w)
  BY <1>2, <1>5 DEF IsHash
<1>9. hash[f].string # hash[f].value
  BY DEF IsHash
<1> QED BY <1>1, <1>4, <1>7, <1>8, <1>9 DEF left

IsHashAt(d, key) == key \in DOMAIN d.keys /\ d.keys[key].type = "hash"

LEMMA HashObjectsOwn ==
  ASSUME NEW d, AtRest(d), NEW key, NEW update, NEW create
  PROVE  LET r == HashObjects(d, key, update, create)
         IN /\ r.ret = "ok" => IsHashAt(r.db, key)
            /\ AtRest(r.db)
<1> DEFINE hash == "hash"
           expires == ExpiresOf(d, key, create)
<1>1. hash \in Aggregates /\ hash # "list"
  BY DEF Aggregates
<1> HIDE DEF hash, expires
<1>2. LET r == Objects(d, key, hash, update, create, expires)
      IN /\ r.ret = "ok" => /\ key \in DOMAIN r.db.keys
                            /\ r.db.keys[key].type = hash
                            /\ AtRest(r.db)
         /\ r.ret # "ok" => AtRest(r.db)
  BY <1>1, ObjectsOwn
<1> QED BY <1>2 DEF HashObjects, IsHashAt, hash, expires

LEMMA HashFacts ==
  ASSUME NEW d, NEW key, AtRest(d), IsHashAt(d, key)
  PROVE  /\ IsHash(d.heap, Value(d, key))
         /\ HashStrings(Value(d, key)) \subseteq DOMAIN d.heap
         /\ StringsOf(d.keys[key].type, d.keys[key].value) = HashStrings(Value(d, key))
         /\ IsHeap(d.heap)
         /\ IsDatabase(d)
BY DEF AtRest, Own, IsHashAt, Keeps, HeldBy, IsValue, StringsOf, Value

LEMMA FieldSetOwn ==
  ASSUME NEW d, NEW key, AtRest(d), IsHashAt(d, key), NEW f, f \notin Fields(d, key), NEW s
  PROVE  AtRest(FieldSet(d, key, f, s)) /\ IsHashAt(FieldSet(d, key, f, s), key)
<1> DEFINE hash == Value(d, key)
           e == SetString(d, f)
           p == StringPage(d)
           q == StringPage(e)
           g == SetString(e, s)
           v == Put(hash, f, [string |-> p, value |-> q])
           h == SetValue(g, key, v)
           loose == {p}
<1>1. FieldSet(d, key, f, s) = h
  BY DEF FieldSet
<1>2. /\ IsHash(d.heap, hash) /\ HashStrings(hash) \subseteq DOMAIN d.heap
      /\ StringsOf(d.keys[key].type, d.keys[key].value) = HashStrings(hash)
      /\ IsHeap(d.heap) /\ IsDatabase(d)
  BY HashFacts
<1>3. f \notin DOMAIN hash
  BY DEF Fields
<1>4. /\ Holding(e, loose) /\ e.keys = d.keys /\ p \in Nat \ DOMAIN d.heap
      /\ DOMAIN e.heap = DOMAIN d.heap \cup {p}
      /\ e.heap[p] = f
      /\ Agree(e.heap, d.heap, DOMAIN d.heap)
  <2> DEFINE none == {}
  <2>1. Own(d, none, none)
    BY DEF AtRest
  <2> HIDE DEF none, e
  <2>2. /\ Own(SetString(d, f), none \cup {StringPage(d)}, none)
        /\ SetString(d, f).keys = d.keys
        /\ StringPage(d) \in Nat \ DOMAIN d.heap
        /\ DOMAIN SetString(d, f).heap = DOMAIN d.heap \cup {StringPage(d)}
        /\ SetString(d, f).heap[StringPage(d)] = f
        /\ Agree(SetString(d, f).heap, d.heap, DOMAIN d.heap)
    BY <2>1, SetStringOwn
  <2>3. none \cup {p} = loose
    BY DEF none
  <2> QED BY <2>2, <2>3 DEF Holding, none, e
<1> HIDE DEF p, loose, e
<1>5. IsHeap(e.heap) /\ IsDatabase(e)
  BY <1>4 DEF Holding, Own
<1>6. q \in Nat \ DOMAIN e.heap
  BY <1>5, StringPageFacts
<1>7. Agree(g.heap, e.heap, DOMAIN e.heap)
  <2>1. g.heap = Put(e.heap, q, s)
    BY <1>5, SetStringFacts
  <2>2. \A x \in DOMAIN e.heap \ {q} : g.heap[x] = e.heap[x]
    BY <2>1, PutFacts
  <2> HIDE DEF g, q
  <2> QED BY <1>6, <2>2 DEF Agree
<1> HIDE DEF q, v, g, hash, h
<1>8. /\ p \notin HashStrings(hash) /\ q \notin HashStrings(hash) /\ p # q
      /\ Agree(g.heap, d.heap, HashStrings(hash)) /\ g.heap[p] = f
  BY <1>2, <1>4, <1>6, <1>7 DEF Agree
<1>9. v = Put(hash, f, [string |-> p, value |-> q])
  BY DEF v
<1>10. IsHash(g.heap, v) /\ HashStrings(v) = HashStrings(hash) \cup {p} \cup {q}
  BY <1>2, <1>3, <1>8, <1>9, HashGrows
<1>11. LET type == e.keys[key].type
       IN /\ IsValue(SetString(e, s).heap, type, v)
          /\ StringsOf(type, v) = StringsOf(type, e.keys[key].value) \cup loose \cup {StringPage(e)}
  BY <1>2, <1>4, <1>10 DEF IsHashAt, IsValue, StringsOf, Types, g, q, loose
<1>12. key \in DOMAIN e.keys /\ e.keys[key].type = "hash"
  BY <1>4 DEF IsHashAt
<1>13. AtRest(SetValue(SetString(e, s), key, v)) /\ Newly(e, SetValue(SetString(e, s), key, v), key, v)
  BY <1>4, <1>11, <1>12, ValueTakesUp
<1>14. AtRest(h) /\ IsHashAt(h, key)
  BY <1>12, <1>13 DEF h, g, Newly, IsHashAt
<1> QED BY <1>1, <1>14

LEMMA FieldUpdateOwn ==
  ASSUME NEW d, NEW key, AtRest(d), IsHashAt(d, key), NEW f, f \in Fields(d, key), NEW s
  PROVE  AtRest(FieldUpdate(d, key, f, s)) /\ IsHashAt(FieldUpdate(d, key, f, s), key)
<1> DEFINE hash == Value(d, key)
           p == hash[f].string
           gone == {hash[f].value}
           keep == {p}
           e == DeleteStrings(d, gone)
           q == StringPage(e)
           w == Restrict(hash, DOMAIN hash \ {f})
           x == SetValue(e, key, w)
           v == Put(hash, f, [string |-> p, value |-> q])
           h == SetValue(SetString(e, s), key, v)
<1>2. /\ IsHash(d.heap, hash) /\ HashStrings(hash) \subseteq DOMAIN d.heap
      /\ StringsOf(d.keys[key].type, d.keys[key].value) = HashStrings(hash)
      /\ IsHeap(d.heap) /\ IsDatabase(d)
  BY HashFacts
<1>3. f \in DOMAIN hash
  BY DEF Fields
<1>4. IsDatabase(e) /\ e.keys = d.keys
  <2> HIDE DEF gone
  <2> QED BY <1>2, DeleteStringsFacts
<1>1. FieldUpdate(d, key, f, s) = h
  <2>1. hash[f] = [string |-> hash[f].string, value |-> hash[f].value]
    BY <1>2, <1>3 DEF IsHash
  <2>2. FieldUpdate(d, key, f, s)
          = SetValue(SetString(e, s), key, Put(Value(e, key), f, [hash[f] EXCEPT !.value = q]))
    BY DEF FieldUpdate
  <2>3. Value(e, key) = hash
    <3> HIDE DEF e
    <3> QED BY <1>4 DEF Value
  <2> HIDE DEF e, hash, q
  <2>4. [hash[f] EXCEPT !.value = q] = [string |-> p, value |-> q]
    BY <2>1
  <2> HIDE DEF p
  <2> QED BY <2>2, <2>3, <2>4
<1> HIDE DEF e, q, hash
<1>5. /\ IsHash(d.heap, w)
      /\ HashStrings(hash) = HashStrings(w) \cup {hash[f].string} \cup {hash[f].value}
      /\ hash[f].string \notin HashStrings(w)
      /\ hash[f].value \notin HashStrings(w)
      /\ hash[f].string # hash[f].value
      /\ DOMAIN w = DOMAIN hash \ {f}
  BY <1>2, <1>3, HashShrinks
<1> HIDE DEF w
<1>6. key \in DOMAIN d.keys /\ d.keys[key].type = "hash"
  BY DEF IsHashAt
<1>7. LET type == d.keys[key].type
      IN /\ IsValue(d.heap, type, w)
         /\ StringsOf(type, d.keys[key].value) = StringsOf(type, w) \cup gone \cup keep
         /\ StringsOf(type, w) \cap (gone \cup keep) = {}
         /\ gone \cap keep = {}
  <2>1. IsValue(d.heap, "hash", w) /\ StringsOf("hash", w) = HashStrings(w)
    BY <1>5 DEF IsValue, StringsOf, Types
  <2>2. /\ HashStrings(hash) = HashStrings(w) \cup gone \cup keep
        /\ HashStrings(w) \cap (gone \cup keep) = {}
        /\ gone \cap keep = {}
    BY <1>5
  <2> HIDE DEF gone, keep
  <2> QED BY <1>2, <1>6, <2>1, <2>2
<1>8. d.heap[p] = f /\ p \in DOMAIN d.heap /\ p \notin gone
  BY <1>2, <1>3, <1>5 DEF IsHash
<1> HIDE DEF gone, keep
<1>9. /\ Holding(x, keep)
      /\ Newly(d, x, key, w)
      /\ DOMAIN x.heap = DOMAIN d.heap \ gone
      /\ Agree(x.heap, d.heap, DOMAIN d.heap \ gone)
  <2> HIDE DEF e, x
  <2>1. LET y == SetValue(DeleteStrings(d, gone), key, w)
        IN /\ Holding(y, keep)
           /\ Others(d, y, key)
           /\ Newly(d, y, key, w)
           /\ DOMAIN y.heap = DOMAIN d.heap \ gone
           /\ Agree(y.heap, d.heap, DOMAIN d.heap \ gone)
    BY <1>6, <1>7, ValueLoosens
  <2> QED BY <2>1 DEF e, x
<1>10. /\ SetValue(SetString(x, s), key, v) = h
       /\ StringPage(x) = q
  <2> HIDE DEF v
  <2>1. key \in DOMAIN e.keys
    BY <1>4, <1>6
  <2>2. SetValue(SetString(SetValue(e, key, w), s), key, v) = SetValue(SetString(e, s), key, v)
    BY <1>4, <2>1, ThroughValue
  <2>3. x.heap = e.heap
    BY <1>4 DEF SetValue, IsDatabase
  <2>4. StringPage(x) = q
    <3> HIDE DEF x
    <3> QED BY <2>3 DEF StringPage, q
  <2> QED BY <2>2, <2>4
<1> HIDE DEF x, h
<1>11. key \in DOMAIN x.keys /\ x.keys[key].type = "hash" /\ x.keys[key].value = w
  BY <1>6, <1>9 DEF Newly
<1>12. IsHeap(x.heap) /\ IsDatabase(x) /\ HashStrings(w) \subseteq DOMAIN x.heap /\ p \in DOMAIN x.heap
  <2>1. IsHeap(x.heap) /\ IsDatabase(x)
    BY <1>9 DEF Holding, Own
  <2>2. HeldBy(x.keys[key]) \subseteq DOMAIN x.heap
    BY <1>9, <1>11 DEF Holding, Own, Keeps
  <2>3. HashStrings(w) \subseteq DOMAIN x.heap
    BY <1>11, <2>2 DEF HeldBy, StringsOf
  <2> QED BY <1>8, <1>9, <2>1, <2>3
<1>13. q \in Nat \ DOMAIN x.heap
  BY <1>10, <1>12, StringPageFacts
<1> DEFINE new == SetString(x, s).heap
<1>14. Agree(new, x.heap, DOMAIN x.heap)
  <2>1. new = Put(x.heap, q, s)
    BY <1>10, <1>12, SetStringFacts
  <2>2. \A y \in DOMAIN x.heap \ {q} : new[y] = x.heap[y]
    BY <2>1, PutFacts
  <2> HIDE DEF new
  <2> QED BY <1>13, <2>2 DEF Agree
<1> HIDE DEF new, p
<1>15. /\ p \notin HashStrings(w) /\ q \notin HashStrings(w) /\ p # q
       /\ Agree(new, d.heap, HashStrings(w)) /\ new[p] = f
  <2>1. p \notin HashStrings(w)
    BY <1>5 DEF p
  <2>2. q \notin HashStrings(w) /\ p # q
    BY <1>12, <1>13
  <2>3. Agree(new, d.heap, HashStrings(w)) /\ new[p] = f
    BY <1>8, <1>9, <1>12, <1>14 DEF Agree
  <2> QED BY <2>1, <2>2, <2>3
<1>16. v = Put(w, f, [string |-> p, value |-> q])
  <2> DEFINE entry == [string |-> p, value |-> q]
             u == Put(w, f, entry)
  <2> HIDE DEF entry
  <2>1. IsFunction(v) /\ DOMAIN v = DOMAIN hash \cup {f}
    BY PutDomain DEF entry
  <2>2. IsFunction(u) /\ DOMAIN u = DOMAIN w \cup {f}
    BY PutDomain
  <2>3. v = Put(hash, f, entry)
    BY DEF entry
  <2>4. v[f] = entry /\ \A y \in DOMAIN hash \ {f} : v[y] = hash[y]
    BY <2>3, PutFacts
  <2>5. u[f] = entry /\ \A y \in DOMAIN w \ {f} : u[y] = w[y]
    BY PutFacts
  <2>6. \A y \in DOMAIN hash \ {f} : w[y] = hash[y]
    <3> DEFINE left == DOMAIN hash \ {f}
    <3> HIDE DEF left
    <3>1. \A y \in left : Restrict(hash, left)[y] = hash[y]
      BY RestrictFacts
    <3> QED BY <3>1 DEF w, left
  <2> HIDE DEF u, v
  <2>7. DOMAIN u = DOMAIN v /\ \A y \in DOMAIN v : u[y] = v[y]
    BY <1>3, <1>5, <2>1, <2>2, <2>4, <2>5, <2>6
  <2>8. u = v
    BY <2>1, <2>2, <2>7 DEF IsFunction
  <2> QED BY <2>8 DEF u, entry
<1> HIDE DEF v
<1>17. f \notin DOMAIN w
  BY <1>5
<1>18. IsHash(new, v) /\ HashStrings(v) = HashStrings(w) \cup {p} \cup {q}
  BY <1>5, <1>15, <1>16, <1>17, HashGrows
<1>19. LET type == x.keys[key].type
       IN /\ IsValue(SetString(x, s).heap, type, v)
          /\ StringsOf(type, v) = StringsOf(type, x.keys[key].value) \cup keep \cup {StringPage(x)}
  BY <1>10, <1>11, <1>18 DEF IsValue, StringsOf, Types, new, keep
<1>20. AtRest(SetValue(SetString(x, s), key, v)) /\ Newly(x, SetValue(SetString(x, s), key, v), key, v)
  BY <1>9, <1>11, <1>19, ValueTakesUp
<1>21. AtRest(h) /\ IsHashAt(h, key)
  BY <1>10, <1>11, <1>20 DEF Newly, IsHashAt
<1> QED BY <1>1, <1>21

(* A function with y for x does not tell what it had for x before. *)
LEMMA PutAgain ==
  ASSUME NEW f, NEW x, x \in DOMAIN f, NEW y, NEW w, w = Restrict(f, DOMAIN f \ {x})
  PROVE  Put(w, x, y) = Put(f, x, y)
<1> DEFINE left == DOMAIN f \ {x}
           u == Put(w, x, y)
           v == Put(f, x, y)
<1>1. DOMAIN w = left /\ \A z \in left : w[z] = f[z]
  <2> HIDE DEF left
  <2>1. DOMAIN Restrict(f, left) = left /\ \A z \in left : Restrict(f, left)[z] = f[z]
    BY RestrictFacts
  <2> QED BY <2>1 DEF left
<1> HIDE DEF left
<1>2. IsFunction(u) /\ DOMAIN u = DOMAIN w \cup {x} /\ IsFunction(v) /\ DOMAIN v = DOMAIN f \cup {x}
  BY PutDomain
<1>3. /\ u[x] = y /\ \A z \in DOMAIN w \ {x} : u[z] = w[z]
      /\ v[x] = y /\ \A z \in DOMAIN f \ {x} : v[z] = f[z]
  BY PutFacts
<1> HIDE DEF u, v
<1>4. DOMAIN u = DOMAIN v /\ \A z \in DOMAIN v : u[z] = v[z]
  BY <1>1, <1>2, <1>3 DEF left
<1>5. u = v
  BY <1>2, <1>4 DEF IsFunction
<1> QED BY <1>5 DEF u, v

(* The hash without a field, whose strings are deleted *)
Without(d, key, f, w, gone) ==
    /\ w = Restrict(Value(d, key), Fields(d, key) \ {f})
    /\ gone = {Value(d, key)[f].string, Value(d, key)[f].value}

LEMMA FieldGone ==
  ASSUME NEW d, NEW key, AtRest(d), IsHashAt(d, key), NEW f, f \in Fields(d, key),
         NEW w, NEW gone, Without(d, key, f, w, gone)
  PROVE  LET e == SetValue(DeleteStrings(d, gone), key, w)
         IN /\ AtRest(e)
            /\ IsHashAt(e, key)
            /\ Others(d, e, key)
            /\ Fields(e, key) = Fields(d, key) \ {f}
            /\ Value(e, key) = w
<1> DEFINE hash == Value(d, key)
           none == {}
<1>1. /\ IsHash(d.heap, hash)
      /\ StringsOf(d.keys[key].type, d.keys[key].value) = HashStrings(hash)
  BY HashFacts
<1>2. f \in DOMAIN hash /\ w = Restrict(hash, DOMAIN hash \ {f}) /\ gone = {hash[f].string, hash[f].value}
  BY DEF Fields, Without
<1> HIDE DEF hash
<1>3. /\ IsHash(d.heap, w)
      /\ HashStrings(hash) = HashStrings(w) \cup {hash[f].string} \cup {hash[f].value}
      /\ hash[f].string \notin HashStrings(w)
      /\ hash[f].value \notin HashStrings(w)
      /\ DOMAIN w = DOMAIN hash \ {f}
  <2> DEFINE u == Restrict(hash, DOMAIN hash \ {f})
  <2>1. /\ IsHash(d.heap, u)
        /\ HashStrings(hash) = HashStrings(u) \cup {hash[f].string} \cup {hash[f].value}
        /\ hash[f].string \notin HashStrings(u)
        /\ hash[f].value \notin HashStrings(u)
        /\ hash[f].string # hash[f].value
        /\ DOMAIN u = DOMAIN hash \ {f}
    BY <1>1, <1>2, HashShrinks
  <2>2. u = w
    BY <1>2
  <2> HIDE DEF u
  <2> QED BY <2>1, <2>2
<1>4. key \in DOMAIN d.keys /\ d.keys[key].type = "hash"
  BY DEF IsHashAt
<1>5. LET type == d.keys[key].type
      IN /\ IsValue(d.heap, type, w)
         /\ StringsOf(type, d.keys[key].value) = StringsOf(type, w) \cup gone \cup none
         /\ StringsOf(type, w) \cap (gone \cup none) = {}
         /\ gone \cap none = {}
  <2>1. IsValue(d.heap, "hash", w) /\ StringsOf("hash", w) = HashStrings(w)
    BY <1>3 DEF IsValue, StringsOf, Types
  <2>2. /\ HashStrings(hash) = HashStrings(w) \cup gone \cup none
        /\ HashStrings(w) \cap (gone \cup none) = {}
        /\ gone \cap none = {}
    BY <1>2, <1>3
  <2> HIDE DEF none
  <2> QED BY <1>1, <1>4, <2>1, <2>2
<1> DEFINE e == SetValue(DeleteStrings(d, gone), key, w)
<1>6. /\ Holding(e, none)
      /\ Others(d, e, key)
      /\ Newly(d, e, key, w)
  <2> HIDE DEF none, e
  <2>1. LET y == SetValue(DeleteStrings(d, gone), key, w)
        IN /\ Holding(y, none)
           /\ Others(d, y, key)
           /\ Newly(d, y, key, w)
           /\ DOMAIN y.heap = DOMAIN d.heap \ gone
           /\ Agree(y.heap, d.heap, DOMAIN d.heap \ gone)
    BY <1>4, <1>5, ValueLoosens
  <2> QED BY <2>1 DEF e
<1> HIDE DEF e
<1>7. AtRest(e)
  BY <1>6 DEF Holding, AtRest
<1>8. Value(e, key) = w /\ Fields(e, key) = Fields(d, key) \ {f}
  BY <1>3, <1>6 DEF Newly, Value, Fields, hash
<1> QED BY <1>4, <1>6, <1>7, <1>8 DEF e, Newly, IsHashAt

LEMMA FieldDeleteOwn ==
  ASSUME NEW d, NEW key, AtRest(d), IsHashAt(d, key), NEW f, f \in Fields(d, key)
  PROVE  /\ AtRest(FieldDelete(d, key, f))
         /\ key \in DOMAIN FieldDelete(d, key, f).keys => IsHashAt(FieldDelete(d, key, f), key)
<1> DEFINE gone == {Value(d, key)[f].string, Value(d, key)[f].value}
           left == Fields(d, key) \ {f}
           w == Restrict(Value(d, key), left)
           e == DeleteStrings(d, gone)
           h == FieldDelete(d, key, f)
<1>1. h = IF left = {} THEN KeyDelete(e, key) ELSE SetValue(e, key, w)
  BY DEF FieldDelete
<1>2. CASE left = {}
  <2> DEFINE hash == Value(d, key)
  <2>1. /\ IsHash(d.heap, hash)
        /\ StringsOf(d.keys[key].type, d.keys[key].value) = HashStrings(hash)
    BY HashFacts
  <2>2. DOMAIN hash = {f}
    BY <1>2 DEF Fields
  <2>3. HashStrings(hash) = gone
    <3>1. gone = {hash[f].string, hash[f].value}
      OBVIOUS
    <3> HIDE DEF gone, hash
    <3>2. {{hash[g].string, hash[g].value} : g \in DOMAIN hash} = {gone}
      BY <2>2, <3>1
    <3> QED BY <3>2 DEF HashStrings
  <2>4. Filling(d, key) /\ key \in DOMAIN d.keys
    BY AtRestFilling DEF IsHashAt
  <2>5. h = KeyDelete(DeleteStrings(d, StringsOf(d.keys[key].type, d.keys[key].value)), key)
    <3> HIDE DEF h, gone, hash
    <3> QED BY <1>1, <1>2, <2>1, <2>3
  <2> HIDE DEF h
  <2>6. AtRest(h) /\ key \notin DOMAIN h.keys
    BY <2>4, <2>5, ValueGoes
  <2> QED BY <2>6 DEF h
<1>3. CASE left # {}
  <2>1. h = SetValue(e, key, w)
    BY <1>1, <1>3
  <2>2. Without(d, key, f, w, gone)
    BY DEF Without
  <2> HIDE DEF gone, left, w, h
  <2>3. LET x == SetValue(DeleteStrings(d, gone), key, w)
        IN /\ AtRest(x)
           /\ IsHashAt(x, key)
           /\ Others(d, x, key)
           /\ Fields(x, key) = Fields(d, key) \ {f}
           /\ Value(x, key) = w
    BY <2>2, FieldGone
  <2> QED BY <2>1, <2>3 DEF h
<1> QED BY <1>2, <1>3

(* The strings of a field are deleted, and the field is set again. *)
LEMMA FieldAgainOwn ==
  ASSUME NEW d, NEW key, AtRest(d), IsHashAt(d, key), NEW f, f \in Fields(d, key), NEW s,
         NEW gone, gone = {Value(d, key)[f].string, Value(d, key)[f].value}
  PROVE  AtRest(FieldSet(DeleteStrings(d, gone), key, f, s))
<1> DEFINE hash == Value(d, key)
           left == Fields(d, key) \ {f}
           w == Restrict(hash, left)
           e == DeleteStrings(d, gone)
           x == SetValue(e, key, w)
<1>1. AtRest(x) /\ IsHashAt(x, key) /\ Fields(x, key) = left /\ Value(x, key) = w
  <2>1. Without(d, key, f, w, gone)
    BY DEF Without
  <2> HIDE DEF w, x
  <2>2. LET y == SetValue(DeleteStrings(d, gone), key, w)
        IN /\ AtRest(y)
           /\ IsHashAt(y, key)
           /\ Others(d, y, key)
           /\ Fields(y, key) = Fields(d, key) \ {f}
           /\ Value(y, key) = w
    BY <2>1, FieldGone
  <2> QED BY <2>2 DEF x
<1>2. IsDatabase(d) /\ IsDatabase(e) /\ e.keys = d.keys
  <2>1. IsDatabase(d)
    BY DEF AtRest, Own
  <2> QED BY <2>1, DeleteStringsFacts
<1>3. key \in DOMAIN e.keys /\ Value(e, key) = hash
  <2> HIDE DEF e
  <2> QED BY <1>2 DEF Value, IsHashAt
<1>4. f \in DOMAIN hash /\ w = Restrict(hash, DOMAIN hash \ {f})
  BY DEF Fields
<1> HIDE DEF hash, w, e
<1> DEFINE p == StringPage(e)
           e1 == SetString(e, f)
           q == StringPage(e1)
           e2 == SetString(e1, s)
           entry == [string |-> p, value |-> q]
           v == Put(hash, f, entry)
<1>5. FieldSet(e, key, f, s) = SetValue(e2, key, v)
  BY <1>3 DEF FieldSet
<1>6. IsDatabase(e1) /\ e1.keys = e.keys
  BY <1>2, SetStringFacts
<1> HIDE DEF e1
<1>7. IsDatabase(e2) /\ e2.keys = e1.keys
  BY <1>6, SetStringFacts
<1>8. SetString(x, f) = SetValue(e1, key, w) /\ StringPage(x) = p
  BY <1>2, SetValueSetString DEF e1
<1>9. SetString(SetString(x, f), s) = SetValue(e2, key, w) /\ StringPage(SetString(x, f)) = q
  <2> HIDE DEF x
  <2>1. SetString(SetValue(e1, key, w), s) = SetValue(SetString(e1, s), key, w)
        /\ StringPage(SetValue(e1, key, w)) = StringPage(e1)
    BY <1>6, SetValueSetString
  <2> QED BY <1>8, <2>1
<1> HIDE DEF p, q, x, e2
<1>10. FieldSet(x, key, f, s) = SetValue(SetValue(e2, key, w), key, Put(w, f, entry))
  BY <1>1, <1>8, <1>9 DEF FieldSet
<1> HIDE DEF entry
<1>11. Put(w, f, entry) = v
  BY <1>4, PutAgain
<1> HIDE DEF v
<1>12. SetValue(SetValue(e2, key, w), key, v) = SetValue(e2, key, v)
  <2>1. key \in DOMAIN e2.keys
    BY <1>3, <1>6, <1>7
  <2> QED BY <1>7, <2>1, SetValueTwice
<1>13. FieldSet(x, key, f, s) = FieldSet(e, key, f, s)
  BY <1>5, <1>10, <1>11, <1>12
<1>14. f \notin Fields(x, key)
  BY <1>1
<1>15. AtRest(FieldSet(x, key, f, s))
  BY <1>1, <1>14, FieldSetOwn
<1> QED BY <1>13, <1>15 DEF e

LEMMA HsetOwn ==
  ASSUME NEW d, AtRest(d), NEW key, NEW f, NEW s, NEW update
  PROVE  AtRest(Hset(d, key, f, s, update).db)
<1> DEFINE yes == TRUE
           o == HashObjects(d, key, yes, yes)
           e == o.db
           old == Value(e, key)[f]
           gone == {old.string, old.value}
           r == Hset(d, key, f, s, update)
<1>1. AtRest(e) /\ (o.ret = "ok" => IsHashAt(e, key))
  <2> HIDE DEF yes
  <2> QED BY HashObjectsOwn
<1>2. /\ o.ret # "ok" => r.db = e
      /\ o.ret = "ok" =>
           IF f \notin Fields(e, key) THEN r.db = FieldSet(e, key, f, s)
           ELSE IF ~update THEN r.db = e
           ELSE r.db = FieldSet(DeleteStrings(e, gone), key, f, s)
  <2> HIDE DEF o
  <2> QED BY DEF Hset, Then, Ret, Fail, o
<1>3. gone = {Value(e, key)[f].string, Value(e, key)[f].value}
  OBVIOUS
<1> HIDE DEF o, r, gone, e
<1>4. ASSUME o.ret = "ok", f \notin Fields(e, key) PROVE AtRest(FieldSet(e, key, f, s))
  BY <1>1, <1>4, FieldSetOwn
<1>5. ASSUME o.ret = "ok", f \in Fields(e, key) PROVE AtRest(FieldSet(DeleteStrings(e, gone), key, f, s))
  BY <1>1, <1>3, <1>5, FieldAgainOwn
<1>6. AtRest(r.db)
  BY <1>1, <1>2, <1>4, <1>5
<1> QED BY <1>6 DEF r

HmsetStep(c, e, p) ==
    IF p[1] \in Fields(e, c) THEN FieldUpdate(e, c, p[1], p[2]) ELSE FieldSet(e, c, p[1], p[2])
HashHolds(c, i, e) == AtRest(e) /\ IsHashAt(e, c)
HmsetLoop == INSTANCE Loops WITH Step <- HmsetStep, Holds <- HashHolds

LEMMA HmsetOwn ==
  ASSUME NEW d, AtRest(d), NEW key, NEW n \in Nat, NEW pairs, DOMAIN pairs = 1 .. n
  PROVE  AtRest(Hmset(d, key, pairs).db)
<1> DEFINE yes == TRUE
           o == HashObjects(d, key, yes, yes)
           r == Hmset(d, key, pairs)
           end == HmsetLoop!Loop(key, o.db, pairs)
<1>1. AtRest(o.db) /\ (o.ret = "ok" => IsHashAt(o.db, key))
  <2> HIDE DEF yes
  <2> QED BY HashObjectsOwn
<1>2. CASE o.ret = "ok"
  <2> HIDE DEF o
  <2>1. r.db = end
    BY <1>2 DEF Hmset, Then, Ret, o, HmsetLoop!Loop, FoldLeft, MapThenFoldSet, HmsetStep, HmsetLoop!Greatest, Max
  <2>2. HashHolds(key, 0, o.db)
    BY <1>1, <1>2 DEF HashHolds
  <2>3. ASSUME NEW i \in 1 .. n, NEW e, HashHolds(key, i - 1, e)
        PROVE  HashHolds(key, i, HmsetStep(key, e, pairs[i]))
    <3> DEFINE f == pairs[i][1]
               s == pairs[i][2]
    <3>1. HmsetStep(key, e, pairs[i])
            = IF f \in Fields(e, key) THEN FieldUpdate(e, key, f, s) ELSE FieldSet(e, key, f, s)
      BY DEF HmsetStep
    <3> HIDE DEF f, s
    <3>2. AtRest(e) /\ IsHashAt(e, key)
      BY <2>3 DEF HashHolds
    <3>3. f \in Fields(e, key) => AtRest(FieldUpdate(e, key, f, s)) /\ IsHashAt(FieldUpdate(e, key, f, s), key)
      BY <3>2, FieldUpdateOwn
    <3>4. f \notin Fields(e, key) => AtRest(FieldSet(e, key, f, s)) /\ IsHashAt(FieldSet(e, key, f, s), key)
      BY <3>2, FieldSetOwn
    <3> QED BY <3>1, <3>3, <3>4 DEF HashHolds
  <2>4. HashHolds(key, n, end)
    BY <2>2, <2>3, HmsetLoop!LoopKeeps, Inductive
  <2> HIDE DEF end, r
  <2> QED BY <2>1, <2>4 DEF HashHolds, r
<1>3. CASE o.ret # "ok"
  <2>1. r.db = o.db
    <3> HIDE DEF o
    <3> QED BY <1>3 DEF Hmset, Then, Fail, o
  <2> HIDE DEF r, o
  <2> QED BY <1>1, <2>1 DEF r
<1> QED BY <1>2, <1>3

HdelStep(c, e, f) ==
    IF c \in DOMAIN e.keys /\ f \in Fields(e, c) THEN FieldDelete(e, c, f) ELSE e
HdelHolds(c, i, e) == AtRest(e) /\ (c \in DOMAIN e.keys => IsHashAt(e, c))
HdelLoop == INSTANCE Loops WITH Step <- HdelStep, Holds <- HdelHolds

LEMMA HdelOwn ==
  ASSUME NEW d, AtRest(d), NEW key, NEW n \in Nat, NEW fields, DOMAIN fields = 1 .. n
  PROVE  AtRest(Hdel(d, key, fields).db)
<1> DEFINE yes == TRUE
           no == FALSE
           o == HashObjects(d, key, yes, no)
           r == Hdel(d, key, fields)
           end == HdelLoop!Loop(key, o.db, fields)
<1>1. AtRest(o.db) /\ (o.ret = "ok" => IsHashAt(o.db, key))
  <2> HIDE DEF yes, no
  <2> QED BY HashObjectsOwn
<1>2. CASE o.ret = "ok"
  <2> HIDE DEF o
  <2>1. r.db = end
    BY <1>2 DEF Hdel, Then, Ret, o, HdelLoop!Loop, FoldLeft, MapThenFoldSet, HdelStep, HdelLoop!Greatest, Max
  <2>2. HdelHolds(key, 0, o.db)
    BY <1>1, <1>2 DEF HdelHolds
  <2>3. ASSUME NEW i \in 1 .. n, NEW e, HdelHolds(key, i - 1, e)
        PROVE  HdelHolds(key, i, HdelStep(key, e, fields[i]))
    <3> DEFINE f == fields[i]
    <3> HIDE DEF f
    <3>1. CASE key \in DOMAIN e.keys /\ f \in Fields(e, key)
      BY <2>3, <3>1, FieldDeleteOwn DEF HdelHolds, HdelStep, f
    <3>2. CASE ~(key \in DOMAIN e.keys /\ f \in Fields(e, key))
      BY <2>3, <3>2 DEF HdelHolds, HdelStep, f
    <3> QED BY <3>1, <3>2
  <2>4. HdelHolds(key, n, end)
    BY <2>2, <2>3, HdelLoop!LoopKeeps, Inductive
  <2> HIDE DEF end, r
  <2> QED BY <2>1, <2>4 DEF HdelHolds, r
<1>3. CASE o.ret # "ok"
  <2>1. r.db = o.db
    <3> HIDE DEF o
    <3> QED BY <1>3 DEF Hdel, Then, Fail, o
  <2> HIDE DEF r, o
  <2> QED BY <1>1, <2>1 DEF r
<1> QED BY <1>2, <1>3

LEMMA HincrbyOwn ==
  ASSUME NEW d, AtRest(d), NEW key, NEW f, NEW n
  PROVE  AtRest(Hincrby(d, key, f, n).db)
<1> DEFINE yes == TRUE
           a == Argument(d)
           o == HashObjects(a, key, yes, yes)
           e == o.db
           i == Incremented(e, FieldValue(e, key, f), n)
           s == Format(n)
           t == Format(i.out[1])
           r == Hincrby(d, key, f, n)
<1>1. AtRest(a)
  BY ArgumentOwn
<1> HIDE DEF a
<1>2. AtRest(e) /\ (o.ret = "ok" => IsHashAt(e, key))
  <2> HIDE DEF yes
  <2> QED BY <1>1, HashObjectsOwn
<1>3. /\ o.ret # "ok" => r.db = e
      /\ o.ret = "ok" =>
           IF f \notin Fields(e, key) THEN r.db = FieldSet(e, key, f, s)
           ELSE IF i.ret = "ok" THEN r.db = FieldUpdate(i.db, key, f, t)
           ELSE r.db = i.db
  <2>1. r = IF o.ret = "ok"
              THEN IF f \notin Fields(e, key) THEN Ret(FieldSet(e, key, f, s), <<n>>)
                   ELSE IF i.ret = "ok" THEN Ret(FieldUpdate(i.db, key, f, t), i.out)
                   ELSE Fail(i.db, i.ret)
              ELSE Fail(e, o.ret)
    BY DEF Hincrby, Then, a
  <2> HIDE DEF o, r, i, e, s, t
  <2> QED BY <2>1 DEF Ret, Fail
<1>4. ASSUME AtRest(e), IsHashAt(e, key)
      PROVE  /\ AtRest(i.db) /\ IsHashAt(i.db, key)
             /\ Fields(i.db, key) = Fields(e, key)
  <2> DEFINE old == FieldValue(e, key, f)
  <2> HIDE DEF old, e
  <2>1. LET j == Incremented(e, old, n)
        IN /\ AtRest(j.db)
           /\ j.db.keys = e.keys
           /\ j.db.heap = e.heap
           /\ IsResult(j)
    BY <1>4, IncrementedOwn
  <2>2. AtRest(i.db) /\ i.db.keys = e.keys
    BY <2>1 DEF old
  <2> HIDE DEF i
  <2> QED BY <1>4, <2>2 DEF IsHashAt, Fields, Value
<1> HIDE DEF o, r, i, e, s, t
<1>5. ASSUME o.ret = "ok", f \notin Fields(e, key) PROVE AtRest(FieldSet(e, key, f, s))
  BY <1>2, <1>5, FieldSetOwn
<1>6. ASSUME o.ret = "ok", f \in Fields(e, key) PROVE AtRest(i.db) /\ AtRest(FieldUpdate(i.db, key, f, t))
  <2>1. AtRest(i.db) /\ IsHashAt(i.db, key) /\ f \in Fields(i.db, key)
    BY <1>2, <1>4, <1>6
  <2> QED BY <2>1, FieldUpdateOwn
<1>7. AtRest(r.db)
  BY <1>2, <1>3, <1>5, <1>6
<1> QED BY <1>7 DEF r

-----------------------------------------------------------------------------
(* Sorted sets *)
(* The order of members, by the first place where they differ *)
BeforeAt(s, t, k) ==
    /\ k \in 1 .. Len(t)
    /\ k \in 1 .. Len(s) + 1
    /\ \A i \in 1 .. k - 1 : s[i] = t[i]
    /\ k \in 1 .. Len(s) => s[k] < t[k]
Differ(s, t) == {i \in 1 .. Min({Len(s), Len(t)}) : s[i] # t[i]}

LEMMA SmallerOfTwo ==
  ASSUME NEW a \in Nat, NEW b \in Nat
  PROVE  Min({a, b}) \in Nat /\ Min({a, b}) <= a /\ Min({a, b}) <= b /\ (Min({a, b}) = a \/ Min({a, b}) = b)
<1> DEFINE S == {a, b}
<1>1. S \in SUBSET Nat /\ S # {} /\ a \in S /\ b \in S /\ \A x \in S : x = a \/ x = b
  OBVIOUS
<1> HIDE DEF S
<1>2. Min(S) \in S /\ \A x \in S : Min(S) <= x
  BY <1>1, LeastFacts
<1>3. Min(S) \in Nat /\ Min(S) <= a /\ Min(S) <= b /\ (Min(S) = a \/ Min(S) = b)
  BY <1>1, <1>2
<1> QED BY <1>3 DEF S

LEMMA DifferFacts ==
  ASSUME NEW s \in Name, NEW t \in Name
  PROVE  /\ Differ(s, t) \in SUBSET Nat
         /\ \A i : i \in Differ(s, t) <=> i \in 1 .. Len(s) /\ i \in 1 .. Len(t) /\ s[i] # t[i]
<1> DEFINE n == Min({Len(s), Len(t)})
<1>1. Len(s) \in Nat /\ Len(t) \in Nat
  BY DEF Name
<1>2. n \in Nat /\ n <= Len(s) /\ n <= Len(t) /\ (n = Len(s) \/ n = Len(t))
  BY <1>1, SmallerOfTwo
<1>3. Differ(s, t) = {i \in 1 .. n : s[i] # t[i]}
  BY DEF Differ
<1> HIDE DEF n
<1> QED BY <1>1, <1>2, <1>3

LEMMA BeforeMeans ==
  ASSUME NEW s \in Name, NEW t \in Name
  PROVE  Before(s, t) <=> \E k : BeforeAt(s, t, k)
<1> DEFINE D == Differ(s, t)
<1>1. Before(s, t) <=> IF D = {} THEN Len(s) < Len(t) ELSE s[Min(D)] < t[Min(D)]
  BY DEF Before, Differ
<1>2. Len(s) \in Nat /\ Len(t) \in Nat
  BY DEF Name
<1>3. D \in SUBSET Nat /\ \A i : i \in D <=> i \in 1 .. Len(s) /\ i \in 1 .. Len(t) /\ s[i] # t[i]
  BY DifferFacts
<1> HIDE DEF D
<1>4. CASE D = {}
  <2>1. ASSUME Len(s) < Len(t) PROVE BeforeAt(s, t, Len(s) + 1)
    BY <1>2, <1>3, <1>4, <2>1 DEF BeforeAt
  <2>2. ASSUME NEW k, BeforeAt(s, t, k) PROVE Len(s) < Len(t)
    <3>1. k \in 1 .. Len(t) /\ k \in 1 .. Len(s) + 1 /\ (k \in 1 .. Len(s) => s[k] < t[k])
      BY <2>2 DEF BeforeAt
    <3>2. ASSUME k \in 1 .. Len(s) PROVE FALSE
      <4>1. s[k] \in Nat /\ t[k] \in Nat /\ s[k] < t[k]
        BY <3>1, <3>2 DEF Name
      <4>2. s[k] = t[k]
        BY <1>3, <1>4, <3>1, <3>2
      <4> QED BY <4>1, <4>2
    <3> QED BY <1>2, <3>1, <3>2
  <2> QED BY <1>1, <1>4, <2>1, <2>2
<1>5. CASE D # {}
  <2> DEFINE k == Min(D)
  <2>1. k \in D /\ \A x \in D : k <= x
    BY <1>3, <1>5, LeastFacts
  <2> HIDE DEF k
  <2>2. k \in 1 .. Len(s) /\ k \in 1 .. Len(t) /\ s[k] # t[k]
    BY <1>3, <2>1
  <2>3. \A i \in 1 .. k - 1 : s[i] = t[i]
    <3> SUFFICES ASSUME NEW i \in 1 .. k - 1, s[i] # t[i] PROVE FALSE
      OBVIOUS
    <3>1. i \in 1 .. Len(s) /\ i \in 1 .. Len(t) /\ i < k
      BY <1>2, <2>2
    <3>2. i \in D
      BY <1>3, <3>1
    <3> QED BY <2>1, <2>2, <3>1, <3>2
  <2>4. ASSUME s[k] < t[k] PROVE BeforeAt(s, t, k)
    BY <1>2, <2>2, <2>3, <2>4 DEF BeforeAt
  <2>5. ASSUME NEW j, BeforeAt(s, t, j) PROVE s[k] < t[k]
    <3>1. /\ j \in 1 .. Len(t) /\ j \in 1 .. Len(s) + 1
          /\ \A i \in 1 .. j - 1 : s[i] = t[i]
          /\ (j \in 1 .. Len(s) => s[j] < t[j])
      BY <2>5 DEF BeforeAt
    <3>2. ~(k < j)
      BY <1>2, <2>2, <3>1
    <3>3. j \in 1 .. Len(s) /\ j <= k
      BY <1>2, <2>2, <3>1, <3>2
    <3>4. s[j] \in Nat /\ t[j] \in Nat /\ s[j] < t[j]
      BY <3>1, <3>3 DEF Name
    <3>5. j \in D
      BY <1>3, <3>1, <3>3, <3>4
    <3>6. j = k
      BY <2>1, <2>2, <3>3, <3>5
    <3> QED BY <3>4, <3>6
  <2> QED BY <1>1, <1>5, <2>4, <2>5 DEF k
<1> QED BY <1>4, <1>5

LEMMA BeforeStrict ==
  ASSUME NEW s \in Name
  PROVE  ~Before(s, s)
<1>1. ASSUME NEW k, BeforeAt(s, s, k) PROVE FALSE
  <2>1. k \in 1 .. Len(s) /\ (k \in 1 .. Len(s) => s[k] < s[k])
    BY <1>1 DEF BeforeAt
  <2>2. s[k] \in Nat /\ s[k] < s[k]
    BY <2>1 DEF Name
  <2> QED BY <2>2
<1> QED BY <1>1, BeforeMeans

LEMMA BeforeTotal ==
  ASSUME NEW s \in Name, NEW t \in Name, s # t
  PROVE  Before(s, t) \/ Before(t, s)
<1> DEFINE D == Differ(s, t)
           E == Differ(t, s)
<1>1. /\ Before(s, t) <=> IF D = {} THEN Len(s) < Len(t) ELSE s[Min(D)] < t[Min(D)]
      /\ Before(t, s) <=> IF E = {} THEN Len(t) < Len(s) ELSE t[Min(E)] < s[Min(E)]
  BY DEF Before, Differ
<1>2. Len(s) \in Nat /\ Len(t) \in Nat
  BY DEF Name
<1>3. D \in SUBSET Nat /\ \A i : i \in D <=> i \in 1 .. Len(s) /\ i \in 1 .. Len(t) /\ s[i] # t[i]
  BY DifferFacts
<1>4. \A i : i \in E <=> i \in 1 .. Len(t) /\ i \in 1 .. Len(s) /\ t[i] # s[i]
  BY DifferFacts
<1> HIDE DEF D, E
<1>5. E = D
  BY <1>3, <1>4
<1>6. CASE D = {}
  <2>1. Len(s) # Len(t)
    <3> SUFFICES ASSUME Len(s) = Len(t) PROVE FALSE
      OBVIOUS
    <3>1. \A i \in 1 .. Len(s) : s[i] = t[i]
      BY <1>3, <1>6
    <3>2. s = t
      BY <3>1 DEF Name
    <3> QED BY <3>2
  <2> QED BY <1>1, <1>2, <1>5, <1>6, <2>1
<1>7. CASE D # {}
  <2> DEFINE k == Min(D)
  <2>1. k \in D
    BY <1>3, <1>7, LeastFacts
  <2> HIDE DEF k
  <2>2. k \in 1 .. Len(s) /\ k \in 1 .. Len(t) /\ s[k] # t[k]
    BY <1>3, <2>1
  <2>3. s[k] \in Nat /\ t[k] \in Nat
    BY <2>2 DEF Name
  <2>4. s[k] < t[k] \/ t[k] < s[k]
    BY <2>2, <2>3
  <2> QED BY <1>1, <1>5, <1>7, <2>4 DEF k
<1> QED BY <1>6, <1>7

LEMMA BeforeThrough ==
  ASSUME NEW s \in Name, NEW t \in Name, NEW u \in Name, Before(s, t), Before(t, u)
  PROVE  Before(s, u)
<1>1. PICK j : BeforeAt(s, t, j)
  BY BeforeMeans
<1>2. PICK k : BeforeAt(t, u, k)
  BY BeforeMeans
<1>3. Len(s) \in Nat /\ Len(t) \in Nat /\ Len(u) \in Nat
  BY DEF Name
<1>4. /\ j \in 1 .. Len(t) /\ j \in 1 .. Len(s) + 1
      /\ \A i \in 1 .. j - 1 : s[i] = t[i]
      /\ (j \in 1 .. Len(s) => s[j] < t[j])
  BY <1>1 DEF BeforeAt
<1>5. /\ k \in 1 .. Len(u) /\ k \in 1 .. Len(t) + 1
      /\ \A i \in 1 .. k - 1 : t[i] = u[i]
      /\ (k \in 1 .. Len(t) => t[k] < u[k])
  BY <1>2 DEF BeforeAt
<1>6. /\ \A i \in 1 .. Len(s) : s[i] \in Nat
      /\ \A i \in 1 .. Len(t) : t[i] \in Nat
      /\ \A i \in 1 .. Len(u) : u[i] \in Nat
  BY DEF Name
<1>7. CASE j <= k
  <2>1. j \in 1 .. Len(u) /\ j \in 1 .. Len(s) + 1
    BY <1>3, <1>4, <1>5, <1>7
  <2>2. \A i \in 1 .. j - 1 : s[i] = u[i]
    <3> TAKE i \in 1 .. j - 1
    <3>1. i \in 1 .. k - 1
      BY <1>4, <1>5, <1>7
    <3> QED BY <1>4, <1>5, <3>1
  <2>3. ASSUME j \in 1 .. Len(s) PROVE s[j] < u[j]
    <3>1. s[j] < t[j] /\ s[j] \in Nat /\ t[j] \in Nat /\ u[j] \in Nat
      BY <1>4, <1>6, <2>1, <2>3
    <3>2. t[j] = u[j] \/ t[j] < u[j]
      <4>1. CASE j < k
        <5>1. j \in 1 .. k - 1
          BY <1>4, <1>5, <4>1
        <5> QED BY <1>5, <5>1
      <4>2. CASE j = k
        BY <1>4, <1>5, <4>2
      <4> QED BY <1>4, <1>5, <1>7, <4>1, <4>2
    <3> QED BY <3>1, <3>2
  <2>4. BeforeAt(s, u, j)
    BY <2>1, <2>2, <2>3 DEF BeforeAt
  <2> QED BY <2>4, BeforeMeans
<1>8. CASE k < j
  <2>0. k \in 1 .. Len(s) /\ k \in 1 .. Len(t) /\ k \in 1 .. j - 1
    BY <1>3, <1>4, <1>5, <1>8
  <2>1. k \in 1 .. Len(u) /\ k \in 1 .. Len(s) + 1
    BY <1>3, <1>5, <2>0
  <2>2. \A i \in 1 .. k - 1 : s[i] = u[i]
    <3> TAKE i \in 1 .. k - 1
    <3>1. i \in 1 .. j - 1
      BY <1>4, <1>5, <1>8
    <3> QED BY <1>4, <1>5, <3>1
  <2>3. s[k] < u[k]
    BY <1>4, <1>5, <2>0
  <2>4. BeforeAt(s, u, k)
    BY <2>1, <2>2, <2>3 DEF BeforeAt
  <2> QED BY <2>4, BeforeMeans
<1> QED BY <1>4, <1>5, <1>7, <1>8

(* The order of a sorted set *)
LEMMA SortsOrder ==
  ASSUME NEW a \in Int, NEW b \in Int, NEW c \in Int, NEW s \in Name, NEW t \in Name, NEW u \in Name
  PROVE  /\ ~Sorts(a, s, a, s)
         /\ Sorts(a, s, b, t) \/ Sorts(b, t, a, s) \/ (a = b /\ s = t)
         /\ Sorts(a, s, b, t) /\ Sorts(b, t, c, u) => Sorts(a, s, c, u)
<1>1. ~Before(s, s)
  BY BeforeStrict
<1>2. s # t => Before(s, t) \/ Before(t, s)
  BY BeforeTotal
<1>3. Before(s, t) /\ Before(t, u) => Before(s, u)
  BY BeforeThrough
<1> QED BY <1>1, <1>2, <1>3 DEF Sorts

LEMMA FirstOnes ==
  ASSUME NEW n \in Nat, NEW S \in SUBSET (1 .. n),
         \A i \in S : \A j \in 1 .. n : j < i => j \in S
  PROVE  /\ Cardinality(S) \in 0 .. n
         /\ \A i \in 1 .. n : i \in S <=> i <= Cardinality(S)
<1>1. PICK k \in 0 .. n : S = 1 .. k
  <2>1. CASE S = 1 .. n
    <3>1. n \in 0 .. n
      OBVIOUS
    <3> QED BY <2>1, <3>1
  <2>2. CASE S # 1 .. n
    <3> DEFINE T == (1 .. n) \ S
    <3>1. T \in SUBSET Nat /\ T # {}
      <4>1. \A x \in T : x \in Nat
        OBVIOUS
      <4>2. T # {}
        <5> SUFFICES ASSUME \A x \in 1 .. n : x \in S PROVE FALSE
          OBVIOUS
        <5> QED BY <2>2
      <4> HIDE DEF T
      <4> QED BY <4>1, <4>2
    <3>2. PICK k \in T : \A x \in T : k <= x
      <4> HIDE DEF T
      <4> QED BY <3>1, LeastNatural
    <3>3. k \in 1 .. n /\ k \notin S
      OBVIOUS
    <3>4. ASSUME NEW i \in 1 .. n PROVE i \in S <=> i < k
      <4>1. i \in S => i < k
        BY <3>3
      <4>2. i < k => i \in S
        BY <3>2, <3>3
      <4> QED BY <4>1, <4>2
    <3>5. S = 1 .. (k - 1)
      <4> HIDE DEF T
      <4>1. \A i : i \in S <=> i \in 1 .. n /\ i < k
        BY <3>4
      <4>2. \A i : i \in 1 .. (k - 1) <=> i \in 1 .. n /\ i < k
        BY <3>3
      <4> QED BY <4>1, <4>2
    <3> QED BY <3>3, <3>5
  <2> QED BY <2>1, <2>2
<1>2. Cardinality(1 .. k) = k
  <2>1. Cardinality(1 .. k) = IF 1 > k THEN 0 ELSE k - 1 + 1
    BY FS_Interval
  <2> QED BY <2>1
<1> QED BY <1>1, <1>2

(* The nodes of a sorted set *)
ZsetNodes == [score : Int, value : Nat]
NameOf(heap, node) == heap[node.value]
Ahead(heap, m, n) == Sorts(m.score, NameOf(heap, m), n.score, NameOf(heap, n))
AfterNode(heap, score, m, n) == Sorts(score, m, n.score, NameOf(heap, n))

LEMMA ZsetFacts ==
  ASSUME NEW heap, NEW zset, IsZset(heap, zset)
  PROVE  /\ zset.ranks \in Seq(ZsetNodes)
         /\ Len(zset.ranks) \in Nat
         /\ DOMAIN zset.ranks = 1 .. Len(zset.ranks)
         /\ \A i \in 1 .. Len(zset.ranks) :
              /\ zset.ranks[i] \in ZsetNodes
              /\ NameOf(heap, zset.ranks[i]) \in Name
              /\ NameOf(heap, zset.ranks[i]) \in DOMAIN zset.scores
              /\ zset.scores[NameOf(heap, zset.ranks[i])] = zset.ranks[i].score
              /\ zset.ranks[i].score \in Int
              /\ zset.ranks[i].value \in Nat
         /\ \A m \in DOMAIN zset.scores :
              /\ m \in Name
              /\ zset.scores[m] \in Int
              /\ \E i \in 1 .. Len(zset.ranks) : NameOf(heap, zset.ranks[i]) = m
         /\ \A i, j \in 1 .. Len(zset.ranks) : i < j => Ahead(heap, zset.ranks[i], zset.ranks[j])
<1>1. zset.ranks \in Seq(ZsetNodes)
  BY DEF IsZset, ZsetNodes
<1>2. Len(zset.ranks) \in Nat /\ DOMAIN zset.ranks = 1 .. Len(zset.ranks)
  BY <1>1
<1>3. \A i \in 1 .. Len(zset.ranks) : zset.ranks[i] \in ZsetNodes
  BY <1>1
<1>4. \A i \in 1 .. Len(zset.ranks) : zset.ranks[i].score \in Int /\ zset.ranks[i].value \in Nat
  BY <1>3 DEF ZsetNodes
<1> QED BY <1>1, <1>2, <1>3, <1>4 DEF IsZset, NameOf, Ahead

LEMMA PlaceFacts ==
  ASSUME NEW d, NEW zset, IsZset(d.heap, zset), NEW score \in Int, NEW m \in Name
  PROVE  LET at == Place(d, zset.ranks, score, m, FALSE)
         IN /\ at \in 0 .. Len(zset.ranks)
            /\ \A i \in 1 .. Len(zset.ranks) :
                 i <= at <=> ~AfterNode(d.heap, score, m, zset.ranks[i])
<1> DEFINE ranks == zset.ranks
           n == Len(ranks)
           at == Place(d, ranks, score, m, FALSE)
           S == {i \in 1 .. n : ~AfterNode(d.heap, score, m, ranks[i])}
<1>1. /\ n \in Nat /\ DOMAIN ranks = 1 .. n
      /\ \A i \in 1 .. n : ranks[i].score \in Int /\ NameOf(d.heap, ranks[i]) \in Name
      /\ \A i, j \in 1 .. n : i < j => Ahead(d.heap, ranks[i], ranks[j])
  BY ZsetFacts
<1>2. m # AnyMember
  <2>1. AnyMember[1] = -1 /\ 1 \in DOMAIN AnyMember
    BY DEF AnyMember
  <2>2. \A i \in DOMAIN m : m[i] \in Nat
    BY DEF Name
  <2> QED BY <2>1, <2>2
<1>3. at = Cardinality(S)
  <2> DEFINE passes(k) ==
        \/ k.score < score
        \/ /\ k.score = score
           /\ IF m = AnyMember THEN ~FALSE
              ELSE Before(d.heap[k.value], m) \/ (d.heap[k.value] = m /\ ~FALSE)
  <2>1. at = Cardinality({i \in DOMAIN ranks : passes(ranks[i])})
    BY DEF Place
  <2>2. ASSUME NEW i \in 1 .. n PROVE passes(ranks[i]) <=> ~AfterNode(d.heap, score, m, ranks[i])
    <3> DEFINE a == ranks[i].score
               s == NameOf(d.heap, ranks[i])
    <3>1. a \in Int /\ s \in Name
      BY <1>1
    <3>2. passes(ranks[i]) <=> Sorts(a, s, score, m) \/ (a = score /\ s = m)
      BY <1>2 DEF NameOf, Sorts
    <3>3. AfterNode(d.heap, score, m, ranks[i]) <=> Sorts(score, m, a, s)
      BY DEF AfterNode
    <3> HIDE DEF a, s
    <3>4. /\ ~Sorts(a, s, a, s)
          /\ Sorts(a, s, score, m) \/ Sorts(score, m, a, s) \/ (a = score /\ s = m)
          /\ Sorts(a, s, score, m) /\ Sorts(score, m, a, s) => Sorts(a, s, a, s)
      BY <3>1, SortsOrder
    <3> QED BY <3>2, <3>3, <3>4
  <2>3. {i \in DOMAIN ranks : passes(ranks[i])} = S
    <3> HIDE DEF n, ranks, passes
    <3> QED BY <1>1, <2>2
  <2> QED BY <2>1, <2>3
<1>4. \A i \in S : \A j \in 1 .. n : j < i => j \in S
  <2> SUFFICES ASSUME NEW i \in S, NEW j \in 1 .. n, j < i PROVE j \in S
    OBVIOUS
  <2> DEFINE a == ranks[i].score
             s == NameOf(d.heap, ranks[i])
             b == ranks[j].score
             t == NameOf(d.heap, ranks[j])
  <2>1. i \in 1 .. n /\ ~Sorts(score, m, a, s)
    BY DEF AfterNode
  <2>2. a \in Int /\ s \in Name /\ b \in Int /\ t \in Name
    BY <1>1, <2>1
  <2>3. Sorts(b, t, a, s)
    BY <1>1, <2>1 DEF Ahead
  <2>4. j \in S <=> ~Sorts(score, m, b, t)
    BY DEF AfterNode
  <2> HIDE DEF a, s, b, t, S
  <2>5. Sorts(score, m, b, t) /\ Sorts(b, t, a, s) => Sorts(score, m, a, s)
    BY <2>2, SortsOrder
  <2> QED BY <2>1, <2>3, <2>4, <2>5
<1> HIDE DEF n, ranks
<1>5. S \in SUBSET (1 .. n)
  OBVIOUS
<1>6. \A i \in 1 .. n : i \in S <=> ~AfterNode(d.heap, score, m, ranks[i])
  OBVIOUS
<1> HIDE DEF S
<1>7. /\ Cardinality(S) \in 0 .. n
      /\ \A i \in 1 .. n : i \in S <=> i <= Cardinality(S)
  BY <1>1, <1>4, <1>5, FirstOnes
<1>8. /\ at \in 0 .. n
      /\ \A i \in 1 .. n : i <= at <=> ~AfterNode(d.heap, score, m, ranks[i])
  <2> HIDE DEF at
  <2> QED BY <1>3, <1>6, <1>7
<1> QED BY <1>8 DEF n, ranks

(* Where a member of the set is found *)
LEMMA PlaceOfMember ==
  ASSUME NEW d, NEW zset, IsZset(d.heap, zset), NEW m, m \in DOMAIN zset.scores
  PROVE  LET at == Place(d, zset.ranks, zset.scores[m], m, FALSE)
         IN /\ at \in 1 .. Len(zset.ranks)
            /\ NameOf(d.heap, zset.ranks[at]) = m
            /\ \A i \in 1 .. Len(zset.ranks) : NameOf(d.heap, zset.ranks[i]) = m => i = at
<1> DEFINE ranks == zset.ranks
           n == Len(ranks)
           score == zset.scores[m]
           at == Place(d, ranks, score, m, FALSE)
<1>1. /\ n \in Nat
      /\ \A i \in 1 .. n : /\ ranks[i].score \in Int
                           /\ NameOf(d.heap, ranks[i]) \in Name
                           /\ zset.scores[NameOf(d.heap, ranks[i])] = ranks[i].score
      /\ \A i, j \in 1 .. n : i < j => Ahead(d.heap, ranks[i], ranks[j])
      /\ m \in Name /\ score \in Int
      /\ \E i \in 1 .. n : NameOf(d.heap, ranks[i]) = m
  BY ZsetFacts
<1>2. PICK k \in 1 .. n : NameOf(d.heap, ranks[k]) = m
  BY <1>1
<1> HIDE DEF score
<1>3. /\ at \in 0 .. n
      /\ \A i \in 1 .. n : i <= at <=> ~AfterNode(d.heap, score, m, ranks[i])
  BY <1>1, PlaceFacts
<1>4. ranks[k].score = score
  BY <1>1, <1>2 DEF score
<1> HIDE DEF ranks, at, n
<1>5. k <= at
  <2>1. ~Sorts(score, m, score, m)
    BY <1>1, SortsOrder
  <2>2. ~AfterNode(d.heap, score, m, ranks[k])
    BY <1>2, <1>4, <2>1 DEF AfterNode
  <2> QED BY <1>3, <2>2
<1>6. \A i \in 1 .. n : k < i => at < i
  <2> SUFFICES ASSUME NEW i \in 1 .. n, k < i PROVE ~(i <= at)
    BY <1>3
  <2>1. Ahead(d.heap, ranks[k], ranks[i])
    BY <1>1
  <2>2. AfterNode(d.heap, score, m, ranks[i])
    BY <1>2, <1>4, <2>1 DEF Ahead, AfterNode
  <2> QED BY <1>3, <2>2
<1>7. at = k
  <2>1. at \in 1 .. n
    BY <1>1, <1>3, <1>5
  <2>2. ~(k < at)
    BY <1>6, <2>1
  <2> QED BY <1>5, <2>1, <2>2
<1>8. ASSUME NEW i \in 1 .. n, NameOf(d.heap, ranks[i]) = m PROVE i = k
  <2> DEFINE a == ranks[i].score
  <2>0. a = score /\ ~Sorts(score, m, score, m)
    <3>1. ~Sorts(score, m, score, m)
      BY <1>1, SortsOrder
    <3> QED BY <1>1, <1>8, <3>1 DEF score
  <2>1. ~(i < k)
    BY <1>1, <1>2, <1>4, <1>8, <2>0 DEF Ahead
  <2>2. ~(k < i)
    BY <1>1, <1>2, <1>4, <1>8, <2>0 DEF Ahead
  <2> QED BY <2>1, <2>2
<1> QED BY <1>2, <1>7, <1>8 DEF ranks, n, at, score

LEMMA SortsEither ==
  ASSUME NEW a \in Int, NEW b \in Int, NEW s \in Name, NEW t \in Name, s # t, ~Sorts(b, t, a, s)
  PROVE  Sorts(a, s, b, t)
BY SortsOrder

IsPair(v) == v = [scores |-> v.scores, ranks |-> v.ranks]

LEMMA ZsetIs ==
  ASSUME NEW heap, NEW v, IsPair(v), IsFunction(v.scores), IsFiniteSet(DOMAIN v.scores),
         v.ranks \in Seq(ZsetNodes), NEW n, DOMAIN v.ranks = 1 .. n,
         \A m \in DOMAIN v.scores : m \in Name /\ v.scores[m] \in Int,
         \A i \in 1 .. n : /\ NameOf(heap, v.ranks[i]) \in DOMAIN v.scores
                           /\ v.scores[NameOf(heap, v.ranks[i])] = v.ranks[i].score,
         \A m \in DOMAIN v.scores : \E i \in 1 .. n : NameOf(heap, v.ranks[i]) = m,
         \A i, j \in 1 .. n : i < j => Ahead(heap, v.ranks[i], v.ranks[j])
  PROVE  IsZset(heap, v)
BY DEF IsZset, IsPair, NameOf, Ahead, ZsetNodes

LEMMA ZsetGrows ==
  ASSUME NEW heap, NEW zset, IsZset(heap, zset),
         NEW m \in Name, m \notin DOMAIN zset.scores, NEW score \in Int,
         NEW i \in 1 .. Len(zset.ranks) + 1,
         \A j \in 1 .. Len(zset.ranks) : j < i <=> ~AfterNode(heap, score, m, zset.ranks[j]),
         NEW page \in Nat, page \notin ZsetStrings(zset),
         NEW new, Agree(new, heap, ZsetStrings(zset)), new[page] = m,
         NEW node, node \in ZsetNodes, node.score = score, node.value = page,
         NEW v, IsPair(v), v.scores = Put(zset.scores, m, score), v.ranks = InsertAt(zset.ranks, i, node)
  PROVE  /\ IsZset(new, v)
         /\ ZsetStrings(v) = ZsetStrings(zset) \cup {page}
         /\ DOMAIN v.scores = DOMAIN zset.scores \cup {m}
<1> DEFINE ranks == zset.ranks
           n == Len(ranks)
           t == v.ranks
           at(j) == IF j < i THEN j ELSE j - 1
<1>1. /\ ranks \in Seq(ZsetNodes) /\ n \in Nat /\ DOMAIN ranks = 1 .. n
      /\ \A j \in 1 .. n : /\ ranks[j].score \in Int
                           /\ ranks[j].value \in Nat
                           /\ NameOf(heap, ranks[j]) \in Name
                           /\ NameOf(heap, ranks[j]) \in DOMAIN zset.scores
                           /\ zset.scores[NameOf(heap, ranks[j])] = ranks[j].score
      /\ \A x \in DOMAIN zset.scores :
           x \in Name /\ zset.scores[x] \in Int /\ \E j \in 1 .. n : NameOf(heap, ranks[j]) = x
      /\ \A j, k \in 1 .. n : j < k => Ahead(heap, ranks[j], ranks[k])
  BY ZsetFacts
<1>2. t \in Seq(ZsetNodes) /\ Inserted(t, ranks, i, node)
  <2>1. InsertAt(ranks, i, node) \in Seq(ZsetNodes) /\ Inserted(InsertAt(ranks, i, node), ranks, i, node)
    BY <1>1, InsertFacts
  <2> QED BY <2>1
<1>3. /\ IsFunction(v.scores) /\ DOMAIN v.scores = DOMAIN zset.scores \cup {m}
      /\ v.scores[m] = score
      /\ \A x \in DOMAIN zset.scores : v.scores[x] = zset.scores[x]
  <2>1. IsFunction(Put(zset.scores, m, score)) /\ DOMAIN Put(zset.scores, m, score) = DOMAIN zset.scores \cup {m}
    BY PutDomain
  <2>2. /\ Put(zset.scores, m, score)[m] = score
        /\ \A x \in DOMAIN zset.scores \ {m} : Put(zset.scores, m, score)[x] = zset.scores[x]
    BY PutFacts
  <2> QED BY <2>1, <2>2
<1>4. /\ DOMAIN t = 1 .. n + 1
      /\ t[i] = node
      /\ \A j \in 1 .. n + 1 : j # i => at(j) \in 1 .. n /\ t[j] = ranks[at(j)]
  <2>1. Len(t) = n + 1 /\ \A j \in 1 .. n + 1 : t[j] = IF j < i THEN ranks[j] ELSE IF j = i THEN node ELSE ranks[j - 1]
    BY <1>2 DEF Inserted
  <2> HIDE DEF n, t, ranks
  <2>2. DOMAIN t = 1 .. n + 1
    BY <1>2, <2>1
  <2>3. i \in 1 .. n + 1
    BY DEF n, ranks
  <2> QED BY <1>1, <2>1, <2>2, <2>3
<1>5. i \in 1 .. n + 1 /\ \A j \in 1 .. n : j < i <=> ~AfterNode(heap, score, m, ranks[j])
  OBVIOUS
<1>6. \A k \in 1 .. n : \E j \in 1 .. n + 1 : j # i /\ at(j) = k
  <2> SUFFICES ASSUME NEW k \in 1 .. n PROVE \E j \in 1 .. n + 1 : j # i /\ at(j) = k
    OBVIOUS
  <2> HIDE DEF n
  <2>1. CASE k < i
    <3>1. k \in 1 .. n + 1 /\ k # i /\ at(k) = k
      BY <1>1, <1>5, <2>1
    <3> HIDE DEF at
    <3> QED BY <3>1
  <2>2. CASE ~(k < i)
    <3>1. k + 1 \in 1 .. n + 1 /\ k + 1 # i /\ at(k + 1) = k
      BY <1>1, <1>5, <2>2
    <3> HIDE DEF at
    <3> QED BY <3>1
  <2> QED BY <2>1, <2>2
<1>7. \A j, k \in 1 .. n + 1 : j # i /\ k # i /\ j < k => at(j) < at(k)
  <2> HIDE DEF n
  <2> QED BY <1>1, <1>5
<1>8. \A j \in 1 .. n + 1 : /\ j < i => at(j) < i
                            /\ j > i => ~(at(j) < i)
  <2> HIDE DEF n
  <2> QED BY <1>1, <1>5
<1>9. \A j \in 1 .. n : ranks[j].value \in ZsetStrings(zset) /\ ranks[j].value # page
                        /\ NameOf(new, ranks[j]) = NameOf(heap, ranks[j])
  <2>1. \A j \in 1 .. n : ranks[j].value \in ZsetStrings(zset)
    BY <1>1 DEF ZsetStrings
  <2> QED BY <2>1 DEF Agree, NameOf
<1>10. NameOf(new, node) = m
  BY DEF NameOf
<1>11. ZsetStrings(v) = ZsetStrings(zset) \cup {page}
  <2>1. \A y : y \in ZsetStrings(v) <=> \E j \in 1 .. n + 1 : y = t[j].value
    BY <1>4 DEF ZsetStrings
  <2>2. \A y : y \in ZsetStrings(zset) <=> \E j \in 1 .. n : y = ranks[j].value
    BY <1>1 DEF ZsetStrings
  <2> HIDE DEF at, n, ranks, t
  <2>3. ASSUME NEW y PROVE y \in ZsetStrings(v) <=> y \in ZsetStrings(zset) \cup {page}
    <3>1. ASSUME NEW j \in 1 .. n + 1, y = t[j].value PROVE y \in ZsetStrings(zset) \cup {page}
      BY <1>4, <2>2, <3>1
    <3>2. ASSUME y = page PROVE \E j \in 1 .. n + 1 : y = t[j].value
      BY <1>4, <1>5, <3>2
    <3>3. ASSUME NEW k \in 1 .. n, y = ranks[k].value PROVE \E j \in 1 .. n + 1 : y = t[j].value
      BY <1>4, <1>6, <3>3
    <3> QED BY <2>1, <2>2, <3>1, <3>2, <3>3
  <2> QED BY <2>3
<1> HIDE DEF at, n, ranks, t
<1>12. \A j \in 1 .. n + 1 : /\ NameOf(new, t[j]) \in DOMAIN v.scores
                             /\ v.scores[NameOf(new, t[j])] = t[j].score
  <2> SUFFICES ASSUME NEW j \in 1 .. n + 1
               PROVE  NameOf(new, t[j]) \in DOMAIN v.scores /\ v.scores[NameOf(new, t[j])] = t[j].score
    OBVIOUS
  <2>1. CASE j = i
    BY <1>3, <1>4, <1>10, <2>1
  <2>2. CASE j # i
    <3>1. at(j) \in 1 .. n /\ t[j] = ranks[at(j)]
      BY <1>4, <2>2
    <3> QED BY <1>1, <1>3, <1>9, <3>1
  <2> QED BY <2>1, <2>2
<1>13. \A x \in DOMAIN v.scores : \E j \in 1 .. n + 1 : NameOf(new, t[j]) = x
  <2> SUFFICES ASSUME NEW x \in DOMAIN v.scores PROVE \E j \in 1 .. n + 1 : NameOf(new, t[j]) = x
    OBVIOUS
  <2>1. CASE x = m
    BY <1>4, <1>5, <1>10, <2>1
  <2>2. CASE x \in DOMAIN zset.scores
    <3>1. PICK k \in 1 .. n : NameOf(heap, ranks[k]) = x
      BY <1>1, <2>2
    <3>2. PICK j \in 1 .. n + 1 : j # i /\ at(j) = k
      BY <1>6
    <3> QED BY <1>4, <1>9, <3>1, <3>2
  <2> QED BY <1>3, <2>1, <2>2
<1>14. \A x \in DOMAIN v.scores : x \in Name /\ v.scores[x] \in Int
  BY <1>1, <1>3
<1>15. \A j, k \in 1 .. n + 1 : j < k => Ahead(new, t[j], t[k])
  <2> SUFFICES ASSUME NEW j \in 1 .. n + 1, NEW k \in 1 .. n + 1, j < k
               PROVE  Ahead(new, t[j], t[k])
    OBVIOUS
  <2>1. CASE k = i
    <3> DEFINE h == at(j)
               a == ranks[h].score
               s == NameOf(heap, ranks[h])
    <3>1. j # i /\ h \in 1 .. n /\ t[j] = ranks[h] /\ h < i
      BY <1>4, <1>8, <2>1
    <3>2. a \in Int /\ s \in Name /\ s # m /\ NameOf(new, ranks[h]) = s
      BY <1>1, <1>9, <3>1
    <3>3. ~Sorts(score, m, a, s)
      BY <1>5, <3>1 DEF AfterNode
    <3>4. t[k].score = score /\ NameOf(new, t[k]) = m /\ t[j].score = a /\ NameOf(new, t[j]) = s
      BY <1>4, <1>10, <2>1, <3>1, <3>2
    <3> HIDE DEF a, s
    <3>5. Sorts(a, s, score, m)
      BY <3>2, <3>3, SortsEither
    <3> QED BY <3>4, <3>5 DEF Ahead
  <2>2. CASE j = i
    <3> DEFINE h == at(k)
    <3>1. k # i /\ h \in 1 .. n /\ t[k] = ranks[h] /\ ~(h < i)
      BY <1>4, <1>8, <2>2
    <3>2. NameOf(new, ranks[h]) = NameOf(heap, ranks[h])
      BY <1>9, <3>1
    <3>3. AfterNode(heap, score, m, ranks[h])
      BY <1>5, <3>1
    <3> QED BY <1>4, <1>10, <2>2, <3>1, <3>2, <3>3 DEF Ahead, AfterNode
  <2>3. CASE j # i /\ k # i
    <3>1. at(j) \in 1 .. n /\ at(k) \in 1 .. n /\ t[j] = ranks[at(j)] /\ t[k] = ranks[at(k)] /\ at(j) < at(k)
      BY <1>4, <1>7, <2>3
    <3>2. Ahead(heap, ranks[at(j)], ranks[at(k)])
      BY <1>1, <3>1
    <3> QED BY <1>9, <3>1, <3>2 DEF Ahead
  <2> QED BY <2>1, <2>2, <2>3
<1>16. IsFiniteSet(DOMAIN v.scores)
  <2>1. IsFiniteSet(DOMAIN zset.scores)
    BY DEF IsZset
  <2> QED BY <1>3, <2>1, FS_AddElement
<1>17. IsZset(new, v)
  <2> DEFINE n1 == n + 1
  <2>1. /\ v.ranks \in Seq(ZsetNodes) /\ DOMAIN v.ranks = 1 .. n1
        /\ \A j \in 1 .. n1 : /\ NameOf(new, v.ranks[j]) \in DOMAIN v.scores
                              /\ v.scores[NameOf(new, v.ranks[j])] = v.ranks[j].score
        /\ \A x \in DOMAIN v.scores : \E j \in 1 .. n1 : NameOf(new, v.ranks[j]) = x
        /\ \A j, k \in 1 .. n1 : j < k => Ahead(new, v.ranks[j], v.ranks[k])
    BY <1>2, <1>4, <1>12, <1>13, <1>15 DEF t
  <2> HIDE DEF n1
  <2> QED BY <1>3, <1>14, <1>16, <2>1, ZsetIs
<1> QED BY <1>3, <1>11, <1>17

(* Where a member is, and a sorted set without it *)
FoundAt(heap, zset, m, i) ==
    /\ m \in DOMAIN zset.scores
    /\ i \in 1 .. Len(zset.ranks)
    /\ NameOf(heap, zset.ranks[i]) = m
    /\ \A j \in 1 .. Len(zset.ranks) : NameOf(heap, zset.ranks[j]) = m => j = i
IsLess(zset, m, i, v) ==
    /\ IsPair(v)
    /\ v.scores = Restrict(zset.scores, DOMAIN zset.scores \ {m})
    /\ v.ranks = RemoveAt(zset.ranks, i)

LEMMA ZsetShrinks ==
  ASSUME NEW heap, NEW zset, IsZset(heap, zset), NEW m, NEW i, FoundAt(heap, zset, m, i),
         NEW v, IsLess(zset, m, i, v)
  PROVE  /\ IsZset(heap, v)
         /\ ZsetStrings(v) = ZsetStrings(zset) \ {zset.ranks[i].value}
         /\ zset.ranks[i].value \in ZsetStrings(zset)
         /\ DOMAIN v.scores = DOMAIN zset.scores \ {m}
         /\ v.ranks = <<>> => DOMAIN v.scores = {} /\ ZsetStrings(v) = {}
<1> DEFINE ranks == zset.ranks
           n == Len(ranks)
           n1 == n - 1
           t == v.ranks
           at(j) == IF j < i THEN j ELSE j + 1
           page == ranks[i].value
<1> USE DEF FoundAt, IsLess
<1>1. /\ ranks \in Seq(ZsetNodes) /\ n \in Nat /\ DOMAIN ranks = 1 .. n
      /\ \A j \in 1 .. n : /\ ranks[j].score \in Int
                           /\ ranks[j].value \in Nat
                           /\ NameOf(heap, ranks[j]) \in Name
                           /\ NameOf(heap, ranks[j]) \in DOMAIN zset.scores
                           /\ zset.scores[NameOf(heap, ranks[j])] = ranks[j].score
      /\ \A x \in DOMAIN zset.scores :
           x \in Name /\ zset.scores[x] \in Int /\ \E j \in 1 .. n : NameOf(heap, ranks[j]) = x
      /\ \A j, k \in 1 .. n : j < k => Ahead(heap, ranks[j], ranks[k])
  BY ZsetFacts
<1>2. t \in Seq(ZsetNodes) /\ Removed(t, ranks, i)
  <2>1. RemoveAt(ranks, i) \in Seq(ZsetNodes) /\ Removed(RemoveAt(ranks, i), ranks, i)
    BY <1>1, RemoveFacts
  <2> QED BY <2>1
<1>3. /\ IsFunction(v.scores) /\ DOMAIN v.scores = DOMAIN zset.scores \ {m}
      /\ \A x \in DOMAIN zset.scores : x # m => v.scores[x] = zset.scores[x]
  <2> DEFINE left == DOMAIN zset.scores \ {m}
  <2> HIDE DEF left
  <2>1. /\ IsFunction(Restrict(zset.scores, left)) /\ DOMAIN Restrict(zset.scores, left) = left
        /\ \A x \in left : Restrict(zset.scores, left)[x] = zset.scores[x]
    BY RestrictFacts
  <2> QED BY <2>1 DEF left
<1>4. i \in 1 .. n /\ NameOf(heap, ranks[i]) = m /\ \A j \in 1 .. n : NameOf(heap, ranks[j]) = m => j = i
  OBVIOUS
<1>5. /\ DOMAIN t = 1 .. n1 /\ Len(t) = n1
      /\ \A j \in 1 .. n1 : at(j) \in 1 .. n /\ at(j) # i /\ t[j] = ranks[at(j)]
  <2>1. Len(t) = n - 1 /\ \A j \in 1 .. n - 1 : t[j] = IF j < i THEN ranks[j] ELSE ranks[j + 1]
    BY <1>2 DEF Removed
  <2> HIDE DEF n, t, ranks
  <2>2. DOMAIN t = 1 .. n - 1
    BY <1>2, <2>1
  <2> QED BY <1>1, <1>4, <2>1, <2>2
<1>6. \A k \in 1 .. n : k # i => \E j \in 1 .. n1 : at(j) = k
  <2> SUFFICES ASSUME NEW k \in 1 .. n, k # i PROVE \E j \in 1 .. n1 : at(j) = k
    OBVIOUS
  <2> HIDE DEF n
  <2>1. CASE k < i
    <3>1. k \in 1 .. n1 /\ at(k) = k
      BY <1>1, <1>4, <2>1
    <3> HIDE DEF at
    <3> QED BY <3>1
  <2>2. CASE ~(k < i)
    <3>1. k - 1 \in 1 .. n1 /\ at(k - 1) = k
      BY <1>1, <1>4, <2>2
    <3> HIDE DEF at
    <3> QED BY <3>1
  <2> QED BY <2>1, <2>2
<1>7. \A j, k \in 1 .. n1 : j < k => at(j) < at(k)
  <2> HIDE DEF n
  <2> QED BY <1>1, <1>4
<1> HIDE DEF at, n, n1, ranks, t
<1>8. \A j \in 1 .. n : j # i => ranks[j].value # page
  BY <1>4 DEF NameOf
<1>9. ZsetStrings(v) = ZsetStrings(zset) \ {page} /\ page \in ZsetStrings(zset)
  <2>1. \A y : y \in ZsetStrings(v) <=> \E j \in 1 .. n1 : y = t[j].value
    BY <1>5 DEF ZsetStrings, t
  <2>2. \A y : y \in ZsetStrings(zset) <=> \E j \in 1 .. n : y = ranks[j].value
    BY <1>1 DEF ZsetStrings, ranks
  <2>3. page \in ZsetStrings(zset)
    BY <1>4, <2>2
  <2> HIDE DEF page
  <2>4. ASSUME NEW y PROVE y \in ZsetStrings(v) <=> y \in ZsetStrings(zset) \ {page}
    <3>1. ASSUME NEW j \in 1 .. n1, y = t[j].value PROVE y \in ZsetStrings(zset) \ {page}
      BY <1>5, <1>8, <2>2, <3>1
    <3>2. ASSUME NEW k \in 1 .. n, y = ranks[k].value, y # page PROVE \E j \in 1 .. n1 : y = t[j].value
      <4>1. k # i
        BY <3>2 DEF page
      <4> QED BY <1>5, <1>6, <3>2, <4>1
    <3> QED BY <2>1, <2>2, <3>1, <3>2
  <2> QED BY <2>3, <2>4
<1>10. \A j \in 1 .. n1 : /\ NameOf(heap, t[j]) \in DOMAIN v.scores
                          /\ v.scores[NameOf(heap, t[j])] = t[j].score
  <2> SUFFICES ASSUME NEW j \in 1 .. n1
               PROVE  NameOf(heap, t[j]) \in DOMAIN v.scores /\ v.scores[NameOf(heap, t[j])] = t[j].score
    OBVIOUS
  <2>1. at(j) \in 1 .. n /\ at(j) # i /\ t[j] = ranks[at(j)]
    BY <1>5
  <2> QED BY <1>1, <1>3, <1>4, <2>1
<1>11. \A x \in DOMAIN v.scores : \E j \in 1 .. n1 : NameOf(heap, t[j]) = x
  <2> SUFFICES ASSUME NEW x \in DOMAIN v.scores PROVE \E j \in 1 .. n1 : NameOf(heap, t[j]) = x
    OBVIOUS
  <2>1. x \in DOMAIN zset.scores /\ x # m
    BY <1>3
  <2>2. PICK k \in 1 .. n : NameOf(heap, ranks[k]) = x
    BY <1>1, <2>1
  <2>3. k # i
    BY <1>4, <2>1, <2>2
  <2>4. PICK j \in 1 .. n1 : at(j) = k
    BY <1>6, <2>3
  <2> QED BY <1>5, <2>2, <2>4
<1>12. \A x \in DOMAIN v.scores : x \in Name /\ v.scores[x] \in Int
  BY <1>1, <1>3
<1>13. \A j, k \in 1 .. n1 : j < k => Ahead(heap, t[j], t[k])
  BY <1>1, <1>5, <1>7
<1>14. IsFiniteSet(DOMAIN v.scores)
  <2>1. IsFiniteSet(DOMAIN zset.scores)
    BY DEF IsZset
  <2>2. DOMAIN v.scores \subseteq DOMAIN zset.scores
    BY <1>3
  <2> QED BY <2>1, <2>2, FS_Subset
<1>15. IsZset(heap, v)
  <2>1. /\ v.ranks \in Seq(ZsetNodes) /\ DOMAIN v.ranks = 1 .. n1
        /\ \A j \in 1 .. n1 : /\ NameOf(heap, v.ranks[j]) \in DOMAIN v.scores
                              /\ v.scores[NameOf(heap, v.ranks[j])] = v.ranks[j].score
        /\ \A x \in DOMAIN v.scores : \E j \in 1 .. n1 : NameOf(heap, v.ranks[j]) = x
        /\ \A j, k \in 1 .. n1 : j < k => Ahead(heap, v.ranks[j], v.ranks[k])
    BY <1>2, <1>5, <1>10, <1>11, <1>13 DEF t
  <2> QED BY <1>3, <1>12, <1>14, <2>1, ZsetIs
<1>16. t = <<>> => DOMAIN v.scores = {} /\ ZsetStrings(v) = {}
  <2> SUFFICES ASSUME t = <<>> PROVE DOMAIN v.scores = {} /\ ZsetStrings(v) = {}
    OBVIOUS
  <2>1. DOMAIN t = {}
    OBVIOUS
  <2>2. ZsetStrings(v) = {}
    BY <2>1 DEF ZsetStrings, t
  <2>3. 1 .. n1 = {}
    BY <1>5, <2>1
  <2>4. DOMAIN v.scores = {}
    BY <1>11, <2>3
  <2> QED BY <2>2, <2>4
<1> QED BY <1>3, <1>9, <1>15, <1>16 DEF t, page, ranks

IsZsetAt(d, key) == key \in DOMAIN d.keys /\ d.keys[key].type = "zset"

LEMMA ZsetObjectsOwn ==
  ASSUME NEW d, AtRest(d), NEW key, NEW update, NEW create
  PROVE  LET r == ZsetObjects(d, key, update, create)
         IN /\ r.ret = "ok" => IsZsetAt(r.db, key)
            /\ AtRest(r.db)
            /\ Others(d, r.db, key)
<1> DEFINE zset == "zset"
           expires == ExpiresOf(d, key, create)
<1>1. zset \in Aggregates /\ zset # "list"
  BY DEF Aggregates
<1> HIDE DEF zset, expires
<1>2. LET r == Objects(d, key, zset, update, create, expires)
      IN /\ r.ret = "ok" => /\ key \in DOMAIN r.db.keys
                            /\ r.db.keys[key].type = zset
                            /\ AtRest(r.db)
         /\ r.ret # "ok" => AtRest(r.db)
         /\ Others(d, r.db, key)
  BY <1>1, ObjectsOwn
<1> QED BY <1>2 DEF ZsetObjects, IsZsetAt, zset, expires

LEMMA ZsetAtFacts ==
  ASSUME NEW d, NEW key, AtRest(d), IsZsetAt(d, key)
  PROVE  /\ IsZset(d.heap, Value(d, key))
         /\ ZsetStrings(Value(d, key)) \subseteq DOMAIN d.heap
         /\ StringsOf(d.keys[key].type, d.keys[key].value) = ZsetStrings(Value(d, key))
         /\ IsHeap(d.heap)
         /\ IsDatabase(d)
BY DEF AtRest, Own, IsZsetAt, Keeps, HeldBy, IsValue, StringsOf, Value

LEMMA AddMemberOwn ==
  ASSUME NEW d, AtRest(d), NEW key, IsZsetAt(d, key), NEW score \in Int, NEW m \in Name
  PROVE  LET e == AddMember(d, key, score, m).db
         IN /\ AtRest(e)
            /\ IsZsetAt(e, key)
            /\ Others(d, e, key)
            /\ e.keys[key].expires = d.keys[key].expires
<1> DEFINE zset == Value(d, key)
           at == Place(d, zset.ranks, score, m, FALSE)
           page == StringPage(d)
           node == [score |-> score, value |-> page]
           v == [scores |-> Put(zset.scores, m, score), ranks |-> InsertAt(zset.ranks, at + 1, node)]
           f == SetString(d, m)
           e == SetValue(f, key, v)
           r == AddMember(d, key, score, m)
<1>1. r = IF m \in DOMAIN zset.scores THEN Fail(d, "found") ELSE Ret(e, <<>>)
  BY DEF AddMember, Scores, Ranks
<1>2. CASE m \in DOMAIN zset.scores
  <2>1. r.db = d
    <3> HIDE DEF r, e
    <3> QED BY <1>1, <1>2 DEF Fail
  <2> HIDE DEF r
  <2> QED BY <2>1 DEF Others, r
<1>3. CASE m \notin DOMAIN zset.scores
  <2>1. r.db = e
    <3> HIDE DEF r, e
    <3> QED BY <1>1, <1>3 DEF Ret
  <2>2. /\ IsZset(d.heap, zset) /\ ZsetStrings(zset) \subseteq DOMAIN d.heap
        /\ StringsOf(d.keys[key].type, d.keys[key].value) = ZsetStrings(zset)
        /\ IsHeap(d.heap) /\ IsDatabase(d)
    BY ZsetAtFacts
  <2>3. page \in Nat \ DOMAIN d.heap
    BY <2>2, StringPageFacts
  <2>4. f.heap = Put(d.heap, page, m)
    BY <2>2, SetStringFacts
  <2>5. f.heap[page] = m /\ Agree(f.heap, d.heap, DOMAIN d.heap)
    <3>1. f.heap[page] = m /\ \A p \in DOMAIN d.heap \ {page} : f.heap[p] = d.heap[p]
      BY <2>4, PutFacts
    <3> HIDE DEF page, f
    <3> QED BY <2>3, <3>1 DEF Agree
  <2>6. node \in ZsetNodes /\ node.score = score /\ node.value = page
    BY <2>3 DEF ZsetNodes
  <2> HIDE DEF zset, f, page, node
  <2>7. /\ at \in 0 .. Len(zset.ranks) /\ Len(zset.ranks) \in Nat
        /\ \A i \in 1 .. Len(zset.ranks) : i <= at <=> ~AfterNode(d.heap, score, m, zset.ranks[i])
    BY <2>2, PlaceFacts, ZsetFacts
  <2>8. IsPair(v) /\ v.scores = Put(zset.scores, m, score) /\ v.ranks = InsertAt(zset.ranks, at + 1, node)
    BY DEF IsPair
  <2> HIDE DEF at, v
  <2> DEFINE i == at + 1
  <2>9. /\ i \in 1 .. Len(zset.ranks) + 1
        /\ \A j \in 1 .. Len(zset.ranks) : j < i <=> ~AfterNode(d.heap, score, m, zset.ranks[j])
    <3>1. i \in 1 .. Len(zset.ranks) + 1
      BY <2>7
    <3>2. \A j \in 1 .. Len(zset.ranks) : j < i <=> j <= at
      BY <2>7
    <3> QED BY <2>7, <3>1, <3>2
  <2>10. v.ranks = InsertAt(zset.ranks, i, node)
    BY <2>8
  <2> HIDE DEF i
  <2>11. page \in Nat /\ page \notin ZsetStrings(zset) /\ Agree(f.heap, d.heap, ZsetStrings(zset))
    BY <2>2, <2>3, <2>5 DEF Agree
  <2>12. IsZset(f.heap, v) /\ ZsetStrings(v) = ZsetStrings(zset) \cup {page}
    BY <1>3, <2>2, <2>5, <2>6, <2>8, <2>9, <2>10, <2>11, ZsetGrows
  <2>13. LET type == d.keys[key].type
         IN /\ IsValue(SetString(d, m).heap, type, v)
            /\ StringsOf(type, v) = StringsOf(type, d.keys[key].value) \cup {StringPage(d)}
    BY <2>2, <2>12 DEF IsZsetAt, IsValue, StringsOf, Types, f, page
  <2>14. Filling(d, key) /\ key \in DOMAIN d.keys
    BY AtRestFilling DEF IsZsetAt
  <2>15. /\ d.keys[key].type # "list" \/ v # <<>> => AtRest(e)
         /\ Others(d, e, key)
         /\ Newly(d, e, key, v)
    BY <2>13, <2>14, ValueGrows DEF f
  <2> HIDE DEF e, r
  <2> QED BY <2>1, <2>15 DEF IsZsetAt, Newly, r
<1> QED BY <1>2, <1>3

(* The other members of a sorted set are still there. *)
OthersRemain(d, e, key, m) ==
    \A x \in DOMAIN Scores(d, key) \ {m} : key \in DOMAIN e.keys /\ x \in DOMAIN Scores(e, key)

LEMMA RemoveMemberOwn ==
  ASSUME NEW d, AtRest(d), NEW key, IsZsetAt(d, key), NEW m, m \in DOMAIN Scores(d, key)
  PROVE  LET e == RemoveMember(d, key, m)
         IN /\ AtRest(e)
            /\ key \in DOMAIN e.keys => IsZsetAt(e, key)
            /\ OthersRemain(d, e, key, m)
            /\ Others(d, e, key)
<1> DEFINE zset == Value(d, key)
           at == Place(d, zset.ranks, zset.scores[m], m, FALSE)
           page == zset.ranks[at].value
           gone == {page}
           v == [scores |-> Restrict(zset.scores, DOMAIN zset.scores \ {m}),
                 ranks |-> RemoveAt(zset.ranks, at)]
           f == DeleteStrings(d, gone)
           e == RemoveMember(d, key, m)
<1>1. e = IF v.ranks = <<>> THEN KeyDelete(f, key) ELSE SetValue(f, key, v)
  BY DEF RemoveMember, Scores, Ranks
<1>2. /\ IsZset(d.heap, zset)
      /\ StringsOf(d.keys[key].type, d.keys[key].value) = ZsetStrings(zset)
  BY ZsetAtFacts
<1>3. m \in DOMAIN zset.scores /\ DOMAIN Scores(d, key) = DOMAIN zset.scores
  BY DEF Scores
<1>4. Filling(d, key) /\ key \in DOMAIN d.keys
  BY AtRestFilling DEF IsZsetAt
<1> HIDE DEF zset
<1>5. /\ at \in 1 .. Len(zset.ranks)
      /\ NameOf(d.heap, zset.ranks[at]) = m
      /\ \A j \in 1 .. Len(zset.ranks) : NameOf(d.heap, zset.ranks[j]) = m => j = at
  BY <1>2, <1>3, PlaceOfMember
<1>6. /\ IsPair(v) /\ v.scores = Restrict(zset.scores, DOMAIN zset.scores \ {m})
      /\ v.ranks = RemoveAt(zset.ranks, at)
  BY DEF IsPair
<1> HIDE DEF at, v
<1>7. /\ IsZset(d.heap, v)
      /\ ZsetStrings(v) = ZsetStrings(zset) \ {zset.ranks[at].value}
      /\ zset.ranks[at].value \in ZsetStrings(zset)
      /\ DOMAIN v.scores = DOMAIN zset.scores \ {m}
      /\ v.ranks = <<>> => DOMAIN v.scores = {} /\ ZsetStrings(v) = {}
  <2>1. FoundAt(d.heap, zset, m, at) /\ IsLess(zset, m, at, v)
    BY <1>3, <1>5, <1>6 DEF FoundAt, IsLess
  <2> QED BY <1>2, <2>1, ZsetShrinks
<1>8. ZsetStrings(v) = ZsetStrings(zset) \ gone /\ gone \subseteq ZsetStrings(zset)
  BY <1>7
<1> HIDE DEF gone
<1>9. CASE v.ranks = <<>>
  <2>1. ZsetStrings(zset) = gone
    BY <1>7, <1>8, <1>9
  <2>2. e = KeyDelete(DeleteStrings(d, StringsOf(d.keys[key].type, d.keys[key].value)), key)
    <3> HIDE DEF e
    <3> QED BY <1>1, <1>2, <1>9, <2>1
  <2>3. DOMAIN Scores(d, key) = {m}
    BY <1>3, <1>7, <1>9
  <2> HIDE DEF e
  <2>4. AtRest(e) /\ Others(d, e, key) /\ key \notin DOMAIN e.keys
    BY <1>4, <2>2, ValueGoes
  <2> QED BY <2>3, <2>4 DEF e, OthersRemain
<1>10. CASE v.ranks # <<>>
  <2>1. LET type == d.keys[key].type
        IN /\ IsValue(d.heap, type, v)
           /\ StringsOf(type, v) = StringsOf(type, d.keys[key].value) \ gone
           /\ gone \subseteq StringsOf(type, d.keys[key].value)
    BY <1>2, <1>7, <1>8 DEF IsZsetAt, IsValue, StringsOf, Types
  <2> DEFINE g == SetValue(f, key, v)
  <2>2. /\ d.keys[key].type # "list" \/ v # <<>> => AtRest(g)
        /\ Others(d, g, key)
        /\ Newly(d, g, key, v)
    BY <1>4, <2>1, ValueShrinks
  <2>3. e = g
    <3> HIDE DEF e, g
    <3> QED BY <1>1, <1>10 DEF g
  <2> HIDE DEF g, e
  <2>4. AtRest(e) /\ Others(d, e, key) /\ IsZsetAt(e, key) /\ Value(e, key) = v
    BY <2>2, <2>3 DEF IsZsetAt, Newly, Value
  <2>5. DOMAIN Scores(e, key) = DOMAIN Scores(d, key) \ {m}
    BY <1>3, <1>7, <2>4 DEF Scores
  <2> QED BY <2>4, <2>5 DEF IsZsetAt, OthersRemain, e
<1> QED BY <1>9, <1>10

LEMMA PutMemberOwn ==
  ASSUME NEW d, AtRest(d), NEW key, IsZsetAt(d, key), NEW score \in Int, NEW m \in Name, NEW update
  PROVE  LET e == PutMember(d, key, score, m, update).db
         IN /\ AtRest(e)
            /\ IsZsetAt(e, key)
            /\ Others(d, e, key)
<1> DEFINE yes == TRUE
           e == IF m \in DOMAIN Scores(d, key) THEN RemoveMember(d, key, m) ELSE d
           o == ZsetObjects(e, key, update, yes)
           f == IF key \in DOMAIN e.keys THEN e ELSE o.db
           g == AddMember(f, key, score, m).db
<1>1. PutMember(d, key, score, m, update).db = g
  BY DEF PutMember
<1>2. AtRest(e) /\ Others(d, e, key) /\ (key \in DOMAIN e.keys => IsZsetAt(e, key))
  <2>1. CASE m \in DOMAIN Scores(d, key)
    BY <2>1, RemoveMemberOwn
  <2>2. CASE m \notin DOMAIN Scores(d, key)
    BY <2>2 DEF Others
  <2> QED BY <2>1, <2>2
<1> HIDE DEF e
<1>3. /\ AtRest(o.db) /\ Others(e, o.db, key)
      /\ o.ret = "ok" => IsZsetAt(o.db, key)
  <2> HIDE DEF yes
  <2> QED BY <1>2, ZsetObjectsOwn
<1>4. key \notin DOMAIN e.keys => o.ret = "ok"
  <2> DEFINE zset == "zset"
             expires == ExpiresOf(e, key, yes)
  <2>1. zset \in Aggregates
    BY DEF Aggregates
  <2>2. o = Objects(e, key, zset, update, TRUE, expires)
    BY DEF ZsetObjects
  <2> HIDE DEF zset, expires, o
  <2> QED BY <1>2, <2>1, <2>2, ObjectsNew
<1> HIDE DEF o
<1>5. AtRest(f) /\ IsZsetAt(f, key) /\ Others(d, f, key)
  <2>1. CASE key \in DOMAIN e.keys
    BY <1>2, <2>1
  <2>2. CASE key \notin DOMAIN e.keys
    <3>1. Others(d, o.db, key)
      BY <1>2, <1>3, OthersAgain
    <3> QED BY <1>3, <1>4, <2>2, <3>1
  <2> QED BY <2>1, <2>2
<1> HIDE DEF f
<1>6. AtRest(g) /\ IsZsetAt(g, key) /\ Others(f, g, key)
  BY <1>5, AddMemberOwn
<1> HIDE DEF g
<1>7. Others(d, g, key)
  BY <1>5, <1>6, OthersAgain
<1> QED BY <1>1, <1>6, <1>7

ZaddStep(c, r, p) ==
    LET o == ZsetObjects(r.db, c, TRUE, TRUE)
        new == IF p[2] \in DOMAIN Scores(o.db, c) THEN 0 ELSE 1
    IN IF r.ret # "ok" THEN r
       ELSE Then(o, LAMBDA e : Ret(PutMember(e, c, p[1], p[2], TRUE).db, <<r.out[1] + new>>))
ZaddHolds(c, i, r) == AtRest(r.db)
ZaddLoop == INSTANCE Loops WITH Step <- ZaddStep, Holds <- ZaddHolds

(* Scores with members, as ZADD has them *)
ArePairs(pairs, n) == DOMAIN pairs = 1 .. n /\ \A i \in 1 .. n : pairs[i][1] \in Int /\ pairs[i][2] \in Name

LEMMA ZaddStepOwn ==
  ASSUME NEW key, NEW r, AtRest(r.db), NEW p, p[1] \in Int, p[2] \in Name
  PROVE  AtRest(ZaddStep(key, r, p).db)
<1> DEFINE yes == TRUE
           o == ZsetObjects(r.db, key, yes, yes)
           new == IF p[2] \in DOMAIN Scores(o.db, key) THEN 0 ELSE 1
           g == PutMember(o.db, key, p[1], p[2], yes).db
           s == ZaddStep(key, r, p)
<1>1. s = IF r.ret # "ok" THEN r
          ELSE IF o.ret = "ok" THEN Ret(g, <<r.out[1] + new>>) ELSE Fail(o.db, o.ret)
  BY DEF ZaddStep, Then
<1>2. AtRest(o.db) /\ (o.ret = "ok" => IsZsetAt(o.db, key))
  <2> HIDE DEF yes
  <2> QED BY ZsetObjectsOwn
<1>3. o.ret = "ok" => AtRest(g)
  <2> DEFINE a == p[1]
             m == p[2]
  <2>1. a \in Int /\ m \in Name
    OBVIOUS
  <2> HIDE DEF yes, o, a, m
  <2>2. o.ret = "ok" => AtRest(PutMember(o.db, key, a, m, yes).db)
    BY <1>2, <2>1, PutMemberOwn
  <2> QED BY <2>2 DEF a, m
<1> HIDE DEF s, o, g, new
<1>4. AtRest(s.db)
  BY <1>1, <1>2, <1>3 DEF Ret, Fail
<1> QED BY <1>4 DEF s

LEMMA ZaddOwn ==
  ASSUME NEW d, AtRest(d), NEW key, NEW n \in Nat, NEW pairs, ArePairs(pairs, n)
  PROVE  AtRest(Zadd(d, key, pairs).db)
<1> DEFINE b == Ret(Argument(d), <<0>>)
           end == ZaddLoop!Loop(key, b, pairs)
<1>1. Zadd(d, key, pairs) = end
  BY DEF Zadd, ZaddLoop!Loop, FoldLeft, MapThenFoldSet, ZaddStep, ZaddLoop!Greatest, Max
<1>2. ZaddHolds(key, 0, b)
  <2>1. AtRest(Argument(d))
    BY ArgumentOwn
  <2>2. b.db = Argument(d)
    BY DEF Ret
  <2> HIDE DEF b
  <2> QED BY <2>1, <2>2 DEF ZaddHolds
<1> HIDE DEF b
<1>3. ASSUME NEW i \in 1 .. n, NEW r, ZaddHolds(key, i - 1, r)
      PROVE  ZaddHolds(key, i, ZaddStep(key, r, pairs[i]))
  <2> DEFINE p == pairs[i]
  <2>1. p[1] \in Int /\ p[2] \in Name
    BY DEF ArePairs
  <2> HIDE DEF p
  <2>2. AtRest(ZaddStep(key, r, p).db)
    BY <1>3, <2>1, ZaddStepOwn DEF ZaddHolds
  <2> QED BY <2>2 DEF ZaddHolds, p
<1>4. DOMAIN pairs = 1 .. n
  BY DEF ArePairs
<1>5. ZaddHolds(key, n, end)
  BY <1>2, <1>3, <1>4, ZaddLoop!LoopKeeps, Inductive
<1> HIDE DEF end
<1> QED BY <1>1, <1>5 DEF ZaddHolds

LEMMA ScoreOfMember ==
  ASSUME NEW d, AtRest(d), NEW key, IsZsetAt(d, key), NEW m \in DOMAIN Scores(d, key)
  PROVE  m \in Name /\ Scores(d, key)[m] \in Int
<1>1. IsZset(d.heap, Value(d, key))
  BY ZsetAtFacts
<1> QED BY <1>1 DEF IsZset, Scores

LEMMA IncrbyOwn ==
  ASSUME NEW d, AtRest(d), NEW key, NEW n \in Int, NEW m \in Name
  PROVE  AtRest(Incrby(d, key, n, m).db) /\ Others(d, Incrby(d, key, n, m).db, key)
<1> DEFINE yes == TRUE
           no == FALSE
           o == ZsetObjects(d, key, yes, yes)
           old == IF m \in DOMAIN Scores(o.db, key) THEN Scores(o.db, key)[m] ELSE 0
           score == old + n
           g == PutMember(o.db, key, score, m, no)
           r == Incrby(d, key, n, m)
<1>1. r = IF o.ret = "ok" THEN g ELSE Fail(o.db, o.ret)
  BY DEF Incrby, Then
<1>2. AtRest(o.db) /\ (o.ret = "ok" => IsZsetAt(o.db, key)) /\ Others(d, o.db, key)
  <2> HIDE DEF yes
  <2> QED BY ZsetObjectsOwn
<1> HIDE DEF o
<1>3. ASSUME o.ret = "ok" PROVE AtRest(g.db) /\ Others(o.db, g.db, key)
  <2>1. score \in Int
    <3>1. m \in DOMAIN Scores(o.db, key) => Scores(o.db, key)[m] \in Int
      BY <1>2, <1>3, ScoreOfMember
    <3>2. old \in Int
      BY <3>1
    <3> HIDE DEF old
    <3> QED BY <3>2
  <2> HIDE DEF score, no
  <2> QED BY <1>2, <1>3, <2>1, PutMemberOwn
<1> HIDE DEF g, r
<1>4. CASE o.ret = "ok"
  <2>1. Others(d, g.db, key)
    BY <1>2, <1>3, <1>4, OthersAgain
  <2> QED BY <1>1, <1>3, <1>4, <2>1 DEF r
<1>5. CASE o.ret # "ok"
  <2>1. r.db = o.db
    BY <1>1, <1>5 DEF Fail
  <2> QED BY <1>2, <2>1 DEF r
<1> QED BY <1>4, <1>5

LEMMA ZincrbyOwn ==
  ASSUME NEW d, AtRest(d), NEW key, NEW n \in Int, NEW m \in Name
  PROVE  AtRest(Zincrby(d, key, n, m).db)
<1> DEFINE a == Argument(d)
           o == Incrby(a, key, n, m)
           r == Zincrby(d, key, n, m)
<1>1. r = IF o.ret = "ok" THEN Ret(o.db, <<n>>) ELSE Fail(o.db, o.ret)
  BY DEF Zincrby, Then
<1>2. AtRest(a)
  BY ArgumentOwn
<1> HIDE DEF a
<1>3. AtRest(o.db)
  BY <1>2, IncrbyOwn
<1> HIDE DEF o, r
<1>4. r.db = o.db
  BY <1>1 DEF Ret, Fail
<1> QED BY <1>3, <1>4 DEF r

ZremStep(c, e, m) ==
    IF c \in DOMAIN e.keys /\ m \in DOMAIN Scores(e, c) THEN RemoveMember(e, c, m) ELSE e
ZremHolds(c, i, e) == AtRest(e) /\ (c \in DOMAIN e.keys => IsZsetAt(e, c))
ZremLoop == INSTANCE Loops WITH Step <- ZremStep, Holds <- ZremHolds

LEMMA ZremOwn ==
  ASSUME NEW d, AtRest(d), NEW key, NEW n \in Nat, NEW members, DOMAIN members = 1 .. n
  PROVE  AtRest(Zrem(d, key, members).db)
<1> DEFINE yes == TRUE
           o == ZsetObjects(d, key, yes, yes)
           r == Zrem(d, key, members)
           end == ZremLoop!Loop(key, o.db, members)
<1>1. AtRest(o.db) /\ (o.ret = "ok" => IsZsetAt(o.db, key))
  <2> HIDE DEF yes
  <2> QED BY ZsetObjectsOwn
<1>2. CASE o.ret = "ok"
  <2> HIDE DEF o
  <2>1. r.db = end
    BY <1>2 DEF Zrem, Then, Ret, o, ZremLoop!Loop, FoldLeft, MapThenFoldSet, ZremStep, ZremLoop!Greatest, Max
  <2>2. ZremHolds(key, 0, o.db)
    BY <1>1, <1>2 DEF ZremHolds
  <2>3. ASSUME NEW i \in 1 .. n, NEW e, ZremHolds(key, i - 1, e)
        PROVE  ZremHolds(key, i, ZremStep(key, e, members[i]))
    <3> DEFINE m == members[i]
    <3> HIDE DEF m
    <3>1. CASE key \in DOMAIN e.keys /\ m \in DOMAIN Scores(e, key)
      BY <2>3, <3>1, RemoveMemberOwn DEF ZremHolds, ZremStep, m
    <3>2. CASE ~(key \in DOMAIN e.keys /\ m \in DOMAIN Scores(e, key))
      BY <2>3, <3>2 DEF ZremHolds, ZremStep, m
    <3> QED BY <3>1, <3>2
  <2>4. ZremHolds(key, n, end)
    BY <2>2, <2>3, ZremLoop!LoopKeeps, Inductive
  <2> HIDE DEF end, r
  <2> QED BY <2>1, <2>4 DEF ZremHolds, r
<1>3. CASE o.ret # "ok"
  <2>1. r.db = o.db
    <3> HIDE DEF o
    <3> QED BY <1>3 DEF Zrem, Then, Fail, o
  <2> HIDE DEF r, o
  <2> QED BY <1>1, <2>1 DEF r
<1> QED BY <1>2, <1>3

(* Ranges: what is found are integers, and a range of ranks is in the list. *)
AreRanks(x) == x[1] \in Int /\ x[2] \in Int

LEMMA FirstNodeRank ==
  ASSUME NEW d, NEW ranks, NEW n \in Nat, DOMAIN ranks = 1 .. n, NEW score, NEW mode, NEW member
  PROVE  FirstNode(d, ranks, score, mode, member).rank \in Int
<1> DEFINE exclude == mode \in {"before", "upto"}
           at == Place(d, ranks, score, member, exclude)
           matches(i) == /\ i \in DOMAIN ranks /\ ranks[i].score = score
                         /\ member = AnyMember \/ d.heap[ranks[i].value] = member
           itself == \/ mode = "before"
                     \/ mode = "upto" /\ ~matches(at + 1)
                     \/ mode = "include" /\ matches(at)
           r == FirstNode(d, ranks, score, mode, member)
<1>1. r = [found |-> itself \/ at < Len(ranks), rank |-> IF itself THEN at - 1 ELSE at]
  BY DEF FirstNode
<1>2. at \in Nat
  <2> DEFINE passes(k) ==
        \/ k.score < score
        \/ /\ k.score = score
           /\ IF member = AnyMember THEN ~exclude
              ELSE Before(d.heap[k.value], member) \/ (d.heap[k.value] = member /\ ~exclude)
             S == {i \in DOMAIN ranks : passes(ranks[i])}
  <2>1. at = Cardinality(S)
    BY DEF Place
  <2>2. S \subseteq 1 .. n
    OBVIOUS
  <2> HIDE DEF S
  <2>3. IsFiniteSet(S)
    <3> DEFINE T == 1 .. n
    <3>1. IsFiniteSet(T)
      BY FS_Interval
    <3>2. S \subseteq T
      BY <2>2
    <3> HIDE DEF T
    <3> QED BY <3>1, <3>2, FS_Subset
  <2>4. Cardinality(S) \in Nat
    BY <2>3, FS_CardinalityType
  <2> HIDE DEF at
  <2> QED BY <2>1, <2>4
<1> HIDE DEF at, itself, r
<1>3. r.rank = IF itself THEN at - 1 ELSE at
  BY <1>1
<1>4. r.rank \in Int
  BY <1>2, <1>3
<1> QED BY <1>4 DEF r

LEMMA ScoreRangeRanks ==
  ASSUME NEW d, NEW ranks, NEW n \in Nat, DOMAIN ranks = 1 .. n, NEW range,
         ScoreRange(d, ranks, range) # <<>>
  PROVE  AreRanks(ScoreRange(d, ranks, range))
<1> DEFINE any == AnyMember
           lower == IF range.minex THEN "exclude" ELSE "include"
           upper == IF range.maxex THEN "before" ELSE "upto"
           from == range.min
           to == range.max
           min == FirstNode(d, ranks, from, lower, any)
           max == FirstNode(d, ranks, to, upper, any)
           first == Head(ranks).score
           none == \/ ~min.found \/ max.rank < min.rank
                   \/ max.rank = 0 /\ (first > range.max \/ (range.maxex /\ first = range.max))
           r == ScoreRange(d, ranks, range)
<1>1. r = IF none THEN <<>> ELSE <<min.rank, max.rank>>
  BY DEF ScoreRange
<1> HIDE DEF any, lower, upper, from, to, none, r
<1>2. min.rank \in Int /\ max.rank \in Int
  BY FirstNodeRank
<1> HIDE DEF min, max
<1>3. r # <<>> => r = <<min.rank, max.rank>>
  BY <1>1
<1>4. r # <<>> => AreRanks(r)
  BY <1>2, <1>3 DEF AreRanks
<1> QED BY <1>4 DEF r

LEMMA LexRangeRanks ==
  ASSUME NEW d, NEW ranks, NEW n \in Nat, DOMAIN ranks = 1 .. n, NEW min, NEW max,
         LexRange(d, ranks, min, max) # <<>>
  PROVE  AreRanks(LexRange(d, ranks, min, max))
<1> DEFINE lower == IF min.ex THEN "exclude" ELSE "include"
           upper == IF max.ex THEN "before" ELSE "upto"
           score == Head(ranks).score
           m == min.member
           t == max.member
           from == FirstNode(d, ranks, score, lower, m)
           to == FirstNode(d, ranks, score, upper, t)
           start == IF m = AnyMember THEN 0 ELSE from.rank
           end == IF t = AnyMember THEN -1 ELSE to.rank
           none == \/ ranks = <<>> \/ (m # AnyMember /\ ~from.found)
                   \/ t # AnyMember /\ (~to.found \/ to.rank < 0)
           r == LexRange(d, ranks, min, max)
<1>1. r = IF none THEN <<>> ELSE <<start, end>>
  BY DEF LexRange
<1> HIDE DEF lower, upper, score, m, t, none, r
<1>2. from.rank \in Int /\ to.rank \in Int
  BY FirstNodeRank
<1> HIDE DEF from, to
<1>3. start \in Int /\ end \in Int
  BY <1>2
<1> HIDE DEF start, end
<1>4. r # <<>> => r = <<start, end>>
  BY <1>1
<1>5. r # <<>> => AreRanks(r)
  BY <1>3, <1>4 DEF AreRanks
<1> QED BY <1>5 DEF r

IsRange(kind, range) == kind \in {"score", "lex"} \/ (kind = "rank" /\ AreRanks(range))

LEMMA RangeOfRanks ==
  ASSUME NEW d, NEW ranks, NEW n \in Nat, DOMAIN ranks = 1 .. n, NEW kind, NEW range,
         IsRange(kind, range), RangeOf(d, ranks, kind, range) # <<>>
  PROVE  AreRanks(RangeOf(d, ranks, kind, range))
<1>1. CASE kind = "rank"
  <2>1. RangeOf(d, ranks, kind, range) = range /\ AreRanks(range)
    BY <1>1 DEF RangeOf, IsRange
  <2> QED BY <2>1
<1>2. CASE kind = "score"
  <2>1. RangeOf(d, ranks, kind, range) = ScoreRange(d, ranks, range)
    BY <1>2 DEF RangeOf
  <2> QED BY <2>1, ScoreRangeRanks
<1>3. CASE kind = "lex"
  <2> DEFINE min == range[1]
             max == range[2]
  <2>1. RangeOf(d, ranks, kind, range) = LexRange(d, ranks, min, max)
    BY <1>3 DEF RangeOf
  <2> HIDE DEF min, max
  <2> QED BY <2>1, LexRangeRanks
<1> QED BY <1>1, <1>2, <1>3 DEF IsRange

LEMMA RankRangeFacts ==
  ASSUME NEW ranks, NEW n \in Nat, Len(ranks) = n, NEW start \in Int, NEW end \in Int,
         NEW r, r = RankRange(ranks, start, end), r # <<>>
  PROVE  /\ r[1] \in 0 .. n - 1
         /\ r[2] \in r[1] .. n - 1
<1> DEFINE sum == start + n
           zero == 0
           from == IF start < 0 THEN Max({sum, zero}) ELSE start
           to == IF end < 0 THEN end + n ELSE end
           last == n - 1
<1>1. r = IF from > to \/ from >= n THEN <<>> ELSE <<from, Min({to, last})>>
  BY DEF RankRange
<1>2. sum \in Int /\ zero \in Int /\ zero = 0 /\ to \in Int /\ last \in Int /\ last = n - 1
  OBVIOUS
<1> HIDE DEF sum, zero, to, last
<1>3. from \in Nat
  <2>1. Max({sum, zero}) \in {sum, zero} /\ Max({sum, zero}) >= zero
    BY <1>2, LargerOfTwo
  <2>2. Max({sum, zero}) \in Int /\ Max({sum, zero}) >= 0
    BY <1>2, <2>1
  <2> QED BY <2>2
<1> HIDE DEF from
<1>4. from <= to /\ from < n /\ r = <<from, Min({to, last})>>
  BY <1>1, <1>2, <1>3
<1>5. to \in Nat /\ last \in Nat /\ from <= last
  BY <1>2, <1>3, <1>4
<1>6. /\ Min({to, last}) \in Nat /\ Min({to, last}) <= last
      /\ Min({to, last}) = to \/ Min({to, last}) = last
  BY <1>5, SmallerOfTwo
<1> DEFINE least == Min({to, last})
<1>7. r[1] = from /\ r[2] = least
  BY <1>4
<1>8. least \in Nat /\ least <= last /\ (least = to \/ least = last)
  BY <1>6
<1> HIDE DEF least
<1>9. from \in 0 .. n - 1 /\ least \in from .. n - 1
  BY <1>2, <1>3, <1>4, <1>5, <1>8
<1> QED BY <1>7, <1>9

(* The members that are to be removed are there until they are. *)
RanksStep(c, e, m) == RemoveMember(e, c[1], m)
RanksHolds(c, i, e) ==
    /\ AtRest(e)
    /\ \A j \in 1 .. c[3] : i < j => IsZsetAt(e, c[1]) /\ c[2][j] \in DOMAIN Scores(e, c[1])
RanksLoop == INSTANCE Loops WITH Step <- RanksStep, Holds <- RanksHolds

AreMembers(d, key, members, n) ==
    /\ DOMAIN members = 1 .. n
    /\ \A i \in 1 .. n : members[i] \in DOMAIN Scores(d, key)
    /\ \A i, j \in 1 .. n : i # j => members[i] # members[j]

LEMMA RemoveRanksLoop ==
  ASSUME NEW d, AtRest(d), NEW key, IsZsetAt(d, key), NEW n \in Nat, NEW members,
         AreMembers(d, key, members, n), NEW c, c[1] = key, c[2] = members, c[3] = n
  PROVE  AtRest(RanksLoop!Loop(c, d, members))
<1>1. RanksHolds(c, 0, d)
  BY DEF RanksHolds, AreMembers
<1>2. ASSUME NEW i \in 1 .. n, NEW e, RanksHolds(c, i - 1, e)
      PROVE  RanksHolds(c, i, RanksStep(c, e, members[i]))
  <2> DEFINE m == members[i]
             f == RemoveMember(e, key, m)
  <2>1. AtRest(e) /\ \A j \in 1 .. n : i - 1 < j => IsZsetAt(e, key) /\ members[j] \in DOMAIN Scores(e, key)
    BY <1>2 DEF RanksHolds
  <2>2. AtRest(e) /\ IsZsetAt(e, key) /\ m \in DOMAIN Scores(e, key)
    BY <2>1
  <2>3. /\ AtRest(f)
        /\ key \in DOMAIN f.keys => IsZsetAt(f, key)
        /\ OthersRemain(e, f, key, m)
    <3> HIDE DEF m
    <3> QED BY <2>2, RemoveMemberOwn
  <2>4. ASSUME NEW j \in 1 .. n, i < j PROVE IsZsetAt(f, key) /\ members[j] \in DOMAIN Scores(f, key)
    <3>1. members[j] \in DOMAIN Scores(e, key) /\ members[j] # m
      BY <2>1, <2>4 DEF AreMembers
    <3> HIDE DEF f, m
    <3> QED BY <2>3, <3>1 DEF OthersRemain
  <2>5. RanksStep(c, e, members[i]) = f
    BY DEF RanksStep
  <2> HIDE DEF f
  <2> QED BY <2>3, <2>4, <2>5 DEF RanksHolds
<1>3. RanksHolds(c, n, RanksLoop!Loop(c, d, members))
  BY <1>1, <1>2, RanksLoop!LoopKeeps, Inductive DEF AreMembers
<1> QED BY <1>3 DEF RanksHolds

LEMMA RemoveRanksOwn ==
  ASSUME NEW d, AtRest(d), NEW key, IsZsetAt(d, key), NEW range,
         range[1] \in 0 .. Len(Ranks(d, key)) - 1, range[2] \in range[1] .. Len(Ranks(d, key)) - 1
  PROVE  AtRest(RemoveRanks(d, key, range).db)
<1> DEFINE zset == Value(d, key)
           ranks == zset.ranks
           size == Len(ranks)
           from == range[1]
           to == range[2]
           at(i) == d.heap[Ranks(d, key)[i + 1].value]
           n == to - from + 1
           members == [i \in 1 .. n |-> at(from + i - 1)]
           c == <<key, members, n>>
           end == RanksLoop!Loop(c, d, members)
<1>1. RemoveRanks(d, key, range) = Ret(end, <<Len(members)>>)
  BY DEF RemoveRanks, RanksLoop!Loop, FoldLeft, MapThenFoldSet, RanksStep, RanksLoop!Greatest, Max
<1>2. IsZset(d.heap, zset)
  BY ZsetAtFacts
<1>3. /\ size \in Nat
      /\ \A i \in 1 .. size : /\ NameOf(d.heap, ranks[i]) \in DOMAIN zset.scores
                              /\ NameOf(d.heap, ranks[i]) \in Name
                              /\ ranks[i].score \in Int
      /\ \A i, j \in 1 .. size : i < j => Ahead(d.heap, ranks[i], ranks[j])
      /\ \A i \in 1 .. size : zset.scores[NameOf(d.heap, ranks[i])] = ranks[i].score
  BY <1>2, ZsetFacts
<1>4. from \in 0 .. size - 1 /\ to \in from .. size - 1
  BY DEF Ranks
<1>5. n \in Nat /\ \A i \in 1 .. n : from + i - 1 + 1 \in 1 .. size
  <2> HIDE DEF from, to, size
  <2> QED BY <1>3, <1>4
<1>6. \A i \in 1 .. n : members[i] = NameOf(d.heap, ranks[from + i - 1 + 1])
  BY DEF Ranks, NameOf
<1>7. DOMAIN members = 1 .. n
  OBVIOUS
<1>8. c[1] = key /\ c[2] = members /\ c[3] = n
  OBVIOUS
<1> HIDE DEF members, n, c
<1>9. \A i \in 1 .. n : members[i] \in DOMAIN Scores(d, key)
  BY <1>3, <1>5, <1>6 DEF Scores
<1>10. \A i, j \in 1 .. n : i # j => members[i] # members[j]
  <2>1. \A i, j \in 1 .. size : i < j => NameOf(d.heap, ranks[i]) # NameOf(d.heap, ranks[j])
    <3> SUFFICES ASSUME NEW i \in 1 .. size, NEW j \in 1 .. size, i < j,
                        NameOf(d.heap, ranks[i]) = NameOf(d.heap, ranks[j])
                 PROVE  FALSE
      OBVIOUS
    <3> DEFINE s == NameOf(d.heap, ranks[i])
               a == ranks[i].score
    <3>1. Sorts(a, s, a, s)
      BY <1>3 DEF Ahead
    <3>2. a \in Int /\ s \in Name
      BY <1>3
    <3> HIDE DEF a, s
    <3> QED BY <3>1, <3>2, SortsOrder
  <2>2. \A i, j \in 1 .. n : i < j => members[i] # members[j]
    <3> SUFFICES ASSUME NEW i \in 1 .. n, NEW j \in 1 .. n, i < j PROVE members[i] # members[j]
      OBVIOUS
    <3>1. /\ from + i - 1 + 1 \in 1 .. size /\ from + j - 1 + 1 \in 1 .. size
          /\ from + i - 1 + 1 < from + j - 1 + 1
      <4> HIDE DEF from, to, size
      <4> QED BY <1>3, <1>4, <1>5
    <3> HIDE DEF from, to, size, ranks
    <3> QED BY <1>6, <2>1, <3>1
  <2> QED BY <2>2
<1>11. AtRest(end)
  <2> HIDE DEF end
  <2>1. AtRest(RanksLoop!Loop(c, d, members))
    BY <1>5, <1>7, <1>8, <1>9, <1>10, RemoveRanksLoop DEF AreMembers
  <2> QED BY <2>1 DEF end
<1> HIDE DEF end
<1>12. RemoveRanks(d, key, range).db = end
  BY <1>1 DEF Ret
<1> QED BY <1>11, <1>12

LEMMA ZremrangeOwn ==
  ASSUME NEW d, AtRest(d), NEW key, NEW kind, NEW range, IsRange(kind, range)
  PROVE  AtRest(Zremrange(d, key, kind, range).db)
<1> DEFINE yes == TRUE
           a == IF kind = "rank" THEN Argument(d) ELSE d
           o == ZsetObjects(a, key, yes, yes)
           e == o.db
           found == RangeOf(e, Ranks(e, key), kind, range)
           ranks == RankRange(Ranks(e, key), found[1], found[2])
           q == RemoveRanks(e, key, ranks)
           r == Zremrange(d, key, kind, range)
<1>1. r = IF o.ret = "ok"
            THEN IF found # <<>>
                   THEN IF ranks = <<>> THEN Fail(e, "not found") ELSE q
                 ELSE IF kind = "lex" THEN Ret(e, <<0>>) ELSE Fail(e, "not found")
            ELSE Fail(e, o.ret)
  BY DEF Zremrange, Then
<1>2. AtRest(a)
  BY ArgumentOwn
<1> HIDE DEF a
<1>3. AtRest(e) /\ (o.ret = "ok" => IsZsetAt(e, key))
  <2> HIDE DEF yes
  <2> QED BY <1>2, ZsetObjectsOwn
<1> HIDE DEF o, e
<1>4. ASSUME o.ret = "ok", found # <<>>, ranks # <<>> PROVE AtRest(q.db)
  <2> DEFINE list == Ranks(e, key)
             n == Len(list)
  <2>1. IsZset(e.heap, Value(e, key))
    BY <1>3, <1>4, ZsetAtFacts
  <2>2. n \in Nat /\ DOMAIN list = 1 .. n
    BY <2>1, ZsetFacts DEF Ranks
  <2>3. AreRanks(found)
    <3> HIDE DEF list, n
    <3>1. AreRanks(RangeOf(e, list, kind, range))
      BY <1>4, <2>2, RangeOfRanks DEF list
    <3> QED BY <3>1 DEF list
  <2> HIDE DEF found
  <2> DEFINE start == found[1]
             stop == found[2]
  <2>4. start \in Int /\ stop \in Int
    BY <2>3 DEF AreRanks
  <2>5. ranks = RankRange(list, start, stop)
    OBVIOUS
  <2> HIDE DEF start, stop, ranks, list
  <2>6. ranks[1] \in 0 .. n - 1 /\ ranks[2] \in ranks[1] .. n - 1
    BY <1>4, <2>2, <2>4, <2>5, RankRangeFacts
  <2>7. AtRest(RemoveRanks(e, key, ranks).db)
    BY <1>3, <1>4, <2>6, RemoveRanksOwn DEF list
  <2> QED BY <2>7
<1> HIDE DEF r, found, ranks, q
<1>5. \/ r.db = e
      \/ o.ret = "ok" /\ found # <<>> /\ ranks # <<>> /\ r.db = q.db
  BY <1>1 DEF Ret, Fail
<1>6. AtRest(r.db)
  BY <1>3, <1>4, <1>5
<1> QED BY <1>6 DEF r

(* What is read of a sorted set or of a set *)
LEMMA ZsetRead ==
  ASSUME NEW d, AtRest(d), NEW key
  PROVE  LET r == ZsetObjects(d, key, FALSE, FALSE)
         IN /\ AtRest(r.db)
            /\ r.ret \in {"ok", "wrong type"} => r.db = d
            /\ r.ret = "ok" => IsZsetAt(d, key)
<1> DEFINE zset == "zset"
           expires == ExpiresOf(d, key, FALSE)
           r == Objects(d, key, zset, FALSE, FALSE, expires)
           no == FALSE
<1>1. zset \in Aggregates
  BY DEF Aggregates
<1> HIDE DEF zset, expires, no
<1>2. LET q == Objects(d, key, zset, FALSE, FALSE, expires)
      IN /\ q.ret \in {"ok", "wrong type"} => q.db = d /\ key \in DOMAIN d.keys
         /\ q.ret = "ok" => d.keys[key].type = zset
         /\ key \in DOMAIN d.keys /\ ~Expired(d, key) => q.db = d
  BY <1>1, ObjectsRead
<1>3. AtRest(ZsetObjects(d, key, no, no).db)
  BY ZsetObjectsOwn
<1>4. ZsetObjects(d, key, FALSE, FALSE) = r
  BY DEF ZsetObjects, zset, expires
<1> HIDE DEF r
<1> QED BY <1>2, <1>3, <1>4 DEF IsZsetAt, zset, no, r

LEMMA SetRead ==
  ASSUME NEW d, AtRest(d), NEW key
  PROVE  LET r == SetObjects(d, key, FALSE, FALSE)
         IN /\ AtRest(r.db)
            /\ r.ret = "ok" => r.db = d /\ IsSetAt(d, key)
<1> DEFINE set == "set"
           zero == 0
           r == Objects(d, key, set, FALSE, FALSE, zero)
           no == FALSE
<1>1. set \in Aggregates
  BY DEF Aggregates
<1> HIDE DEF set, zero, no
<1>2. LET q == Objects(d, key, set, FALSE, FALSE, zero)
      IN /\ q.ret \in {"ok", "wrong type"} => q.db = d /\ key \in DOMAIN d.keys
         /\ q.ret = "ok" => d.keys[key].type = set
         /\ key \in DOMAIN d.keys /\ ~Expired(d, key) => q.db = d
  BY <1>1, ObjectsRead
<1>3. AtRest(SetObjects(d, key, no, no).db)
  BY SetObjectsOwn
<1>4. SetObjects(d, key, FALSE, FALSE) = r
  BY DEF SetObjects, set, zero
<1> HIDE DEF r
<1> QED BY <1>2, <1>3, <1>4 DEF IsSetAt, set, no, r

LEMMA ScoresAreNames ==
  ASSUME NEW d, AtRest(d), NEW key, IsZsetAt(d, key)
  PROVE  DOMAIN Scores(d, key) \in FiniteNames
<1>1. IsZset(d.heap, Value(d, key))
  BY ZsetAtFacts
<1> QED BY <1>1 DEF IsZset, Scores, FiniteNames

LEMMA MembersAreFinite ==
  ASSUME NEW d, AtRest(d), NEW key, IsSetAt(d, key)
  PROVE  Members(d, key) \in FiniteNames
BY MembersAreNames DEF FiniteNames

(* What ZINTERSTORE has of its sources: the sorted sets among them are      *)
(* still there, with the members that were read.                           *)
SourceRecords == [type : {"set", "zset"}, members : FiniteNames]
IsSource(d, key, s) ==
    /\ key \in DOMAIN d.keys
    /\ s.members \in FiniteNames
    /\ s.type = "zset" => IsZsetAt(d, key) /\ s.members = DOMAIN Scores(d, key)
AreSources(d, keys, out, n) ==
    /\ out \in Seq(SourceRecords)
    /\ Len(out) = n
    /\ \A j \in 1 .. n : IsSource(d, keys[j], out[j])

InterStep(c, r, key) ==
    LET source(type, members) == [type |-> type, members |-> members]
        add(z, out, k) ==
          IF z.ret = "wrong type"
            THEN Then(SetObjects(z.db, k, FALSE, FALSE),
                      LAMBDA e : Ret(e, Append(out, source("set", Members(e, k)))))
            ELSE Then(z, LAMBDA e : Ret(e, Append(out, source("zset", DOMAIN Scores(e, k)))))
    IN IF r.ret # "ok" THEN r ELSE add(ZsetObjects(r.db, key, FALSE, FALSE), r.out, key)
InterHolds(c, i, r) ==
    /\ AtRest(r.db)
    /\ r.ret = "ok" => r.db = c[1] /\ AreSources(c[1], c[2], r.out, i)
InterLoop == INSTANCE Loops WITH Step <- InterStep, Holds <- InterHolds

LEMMA SourceAdded ==
  ASSUME NEW d, NEW keys, NEW out, NEW i \in Nat \ {0}, AreSources(d, keys, out, i - 1),
         NEW s \in SourceRecords, IsSource(d, keys[i], s)
  PROVE  AreSources(d, keys, Append(out, s), i)
<1> DEFINE new == Append(out, s)
<1>1. out \in Seq(SourceRecords) /\ Len(out) = i - 1
  BY DEF AreSources
<1>2. new \in Seq(SourceRecords) /\ Len(new) = i /\ new[i] = s /\ \A j \in 1 .. i - 1 : new[j] = out[j]
  BY <1>1
<1>3. ASSUME NEW j \in 1 .. i PROVE IsSource(d, keys[j], new[j])
  <2>1. CASE j = i
    BY <1>2, <2>1
  <2>2. CASE j # i
    <3>1. j \in 1 .. i - 1
      BY <2>2
    <3> HIDE DEF new
    <3> QED BY <1>2, <3>1 DEF AreSources
  <2> QED BY <2>1, <2>2
<1> HIDE DEF new
<1>4. AreSources(d, keys, new, i)
  BY <1>2, <1>3 DEF AreSources
<1> QED BY <1>4 DEF new

LEMMA InterStepOwn ==
  ASSUME NEW c, NEW d, c[1] = d, NEW keys, c[2] = keys, NEW i \in Nat \ {0},
         NEW r, InterHolds(c, i - 1, r)
  PROVE  InterHolds(c, i, InterStep(c, r, keys[i]))
<1> DEFINE key == keys[i]
           z == ZsetObjects(r.db, key, FALSE, FALSE)
           o == SetObjects(z.db, key, FALSE, FALSE)
           set == [type |-> "set", members |-> Members(o.db, key)]
           zset == [type |-> "zset", members |-> DOMAIN Scores(z.db, key)]
           t == InterStep(c, r, key)
<1>1. CASE r.ret # "ok"
  <2>1. t = r
    BY <1>1 DEF InterStep
  <2> HIDE DEF t
  <2> QED BY <1>1, <2>1 DEF InterHolds, t
<1>2. CASE r.ret = "ok"
  <2>1. AtRest(d) /\ r.db = d /\ AreSources(d, keys, r.out, i - 1)
    BY <1>2 DEF InterHolds
  <2>2. t = IF z.ret = "wrong type"
              THEN IF o.ret = "ok" THEN Ret(o.db, Append(r.out, set)) ELSE Fail(o.db, o.ret)
            ELSE IF z.ret = "ok" THEN Ret(z.db, Append(r.out, zset)) ELSE Fail(z.db, z.ret)
    BY <1>2 DEF InterStep, Then
  <2> HIDE DEF key, t
  <2>3. /\ AtRest(z.db)
        /\ z.ret \in {"ok", "wrong type"} => z.db = d
        /\ z.ret = "ok" => IsZsetAt(d, key)
    BY <2>1, ZsetRead
  <2> HIDE DEF z
  <2>4. z.ret = "wrong type" => AtRest(o.db) /\ (o.ret = "ok" => o.db = d /\ IsSetAt(d, key))
    BY <2>1, <2>3, SetRead
  <2> HIDE DEF o
  <2>5. CASE z.ret = "wrong type" /\ o.ret = "ok"
    <3>1. o.db = d /\ Members(d, key) \in FiniteNames /\ key \in DOMAIN d.keys
      BY <2>1, <2>4, <2>5, MembersAreFinite DEF IsSetAt
    <3>2. set \in SourceRecords /\ IsSource(d, keys[i], set)
      BY <3>1 DEF SourceRecords, IsSource, key
    <3> HIDE DEF set
    <3> DEFINE new == Append(r.out, set)
    <3>3. AreSources(d, keys, new, i)
      BY <2>1, <3>2, SourceAdded
    <3>4. t = Ret(d, new)
      BY <2>2, <2>5, <3>1
    <3> HIDE DEF new
    <3>5. t.db = d /\ t.out = new
      BY <3>4 DEF Ret
    <3> QED BY <2>1, <3>3, <3>5 DEF InterHolds, t, key
  <2>6. CASE z.ret = "ok"
    <3>1. z.db = d /\ DOMAIN Scores(d, key) \in FiniteNames /\ IsZsetAt(d, key)
      BY <2>1, <2>3, <2>6, ScoresAreNames
    <3>2. zset \in SourceRecords /\ IsSource(d, keys[i], zset)
      BY <3>1 DEF SourceRecords, IsSource, key, IsZsetAt
    <3> HIDE DEF zset
    <3> DEFINE new == Append(r.out, zset)
    <3>3. AreSources(d, keys, new, i)
      BY <2>1, <3>2, SourceAdded
    <3>4. t = Ret(d, new)
      BY <2>2, <2>6, <3>1
    <3> HIDE DEF new
    <3>5. t.db = d /\ t.out = new
      BY <3>4 DEF Ret
    <3> QED BY <2>1, <3>3, <3>5 DEF InterHolds, t, key
  <2>7. CASE z.ret = "wrong type" /\ o.ret # "ok"
    <3>1. t.db = o.db /\ t.ret = o.ret
      BY <2>2, <2>7 DEF Fail
    <3> QED BY <2>4, <2>7, <3>1 DEF InterHolds, t, key
  <2>8. CASE z.ret # "wrong type" /\ z.ret # "ok"
    <3>1. t.db = z.db /\ t.ret = z.ret
      BY <2>2, <2>8 DEF Fail
    <3> QED BY <2>3, <2>8, <3>1 DEF InterHolds, t, key
  <2> QED BY <2>5, <2>6, <2>7, <2>8
<1> QED BY <1>1, <1>2

LEMMA InterSourcesOwn ==
  ASSUME NEW d, AtRest(d), NEW n \in Nat, NEW keys, DOMAIN keys = 1 .. n
  PROVE  LET r == InterSources(d, keys)
         IN /\ AtRest(r.db)
            /\ r.ret = "ok" => r.db = d /\ AreSources(d, keys, r.out, n)
<1> DEFINE c == <<d, keys>>
           b == Ret(d, <<>>)
           end == InterLoop!Loop(c, b, keys)
<1>1. InterSources(d, keys) = end
  BY DEF InterSources, InterLoop!Loop, FoldLeft, MapThenFoldSet, InterStep, InterLoop!Greatest, Max
<1>2. c[1] = d /\ c[2] = keys
  OBVIOUS
<1>3. b.db = d /\ b.out = <<>>
  BY DEF Ret
<1> HIDE DEF c, b
<1>4. InterHolds(c, 0, b)
  <2>1. <<>> \in Seq(SourceRecords) /\ Len(<<>>) = 0
    OBVIOUS
  <2> QED BY <1>2, <1>3, <2>1 DEF InterHolds, AreSources
<1>5. ASSUME NEW i \in 1 .. n, NEW r, InterHolds(c, i - 1, r)
      PROVE  InterHolds(c, i, InterStep(c, r, keys[i]))
  BY <1>2, <1>5, InterStepOwn
<1>6. InterHolds(c, n, end)
  BY <1>4, <1>5, InterLoop!LoopKeeps, Inductive
<1> HIDE DEF end
<1> QED BY <1>1, <1>2, <1>6 DEF InterHolds

(* The score of a member of an intersection *)
LEMMA SmallerInteger ==
  ASSUME NEW a \in Int, NEW b \in Int
  PROVE  Min({a, b}) = a \/ Min({a, b}) = b
<1> DEFINE S == {a, b}
<1>1. \E x \in S : \A y \in S : x <= y
  <2>1. CASE a <= b
    <3>1. \A y \in S : a <= y
      BY <2>1
    <3> QED BY <3>1
  <2>2. CASE b <= a
    <3>1. \A y \in S : b <= y
      BY <2>2
    <3> QED BY <3>1
  <2> QED BY <2>1, <2>2
<1>2. \A x \in S : x = a \/ x = b
  OBVIOUS
<1> HIDE DEF S
<1>3. Min(S) \in S
  BY <1>1 DEF Min
<1> QED BY <1>2, <1>3 DEF S

IsHow(how) == how = "sum" \/ how = "min" \/ how = "max"

LEMMA AggregateInteger ==
  ASSUME NEW how, IsHow(how), NEW a \in Int, NEW b \in Int
  PROVE  Aggregate(how, a, b) \in Int
<1>1. CASE how = "sum"
  BY <1>1 DEF Aggregate
<1>2. CASE how = "min"
  <2>1. Aggregate(how, a, b) = Min({a, b})
    BY <1>2 DEF Aggregate
  <2> QED BY <2>1, SmallerInteger
<1>3. CASE how = "max"
  <2>1. Aggregate(how, a, b) = Max({a, b})
    BY <1>3 DEF Aggregate
  <2>2. Max({a, b}) \in {a, b}
    BY LargerOfTwo
  <2> QED BY <2>1, <2>2
<1> QED BY <1>1, <1>2, <1>3 DEF IsHow

(* The scores that a member has in the sorted sets among the sources *)
HasScores(d, keys, sources, n, m) ==
    \A i \in 1 .. n : sources[i].type = "zset" => Scores(d, keys[i])[m] \in Int
AreWeights(weights, n) == \A i \in 1 .. n : weights[i] \in Int

ScoreStep(c, sum, i) ==
    LET isZset(j) == c[5][j].type = "zset"
        score(j) == IF ~isZset(c[6]) THEN 1
                    ELSE IF isZset(j) THEN Scores(c[1], c[2][j])[c[7]] ELSE 0
    IN IF i = c[6] THEN sum ELSE Aggregate(c[4], sum, score(i) * c[3][i])
ScoreHolds(c, i, sum) == sum \in Int
ScoreLoop == INSTANCE Loops WITH Step <- ScoreStep, Holds <- ScoreHolds

LEMMA InterScoreInteger ==
  ASSUME NEW d, NEW n \in Nat, NEW keys, DOMAIN keys = 1 .. n, NEW weights, AreWeights(weights, n),
         NEW how, IsHow(how), NEW sources, NEW pivot \in 1 .. n, NEW m,
         HasScores(d, keys, sources, n, m)
  PROVE  InterScore(d, keys, weights, how, sources, pivot, m) \in Int
<1> DEFINE c == <<d, keys, weights, how, sources, pivot, m>>
           isZset(j) == c[5][j].type = "zset"
           score(j) == IF ~isZset(c[6]) THEN 1
                       ELSE IF isZset(j) THEN Scores(c[1], c[2][j])[c[7]] ELSE 0
           base == score(c[6]) * c[3][c[6]]
           ids == [i \in DOMAIN c[2] |-> i]
           end == ScoreLoop!Loop(c, base, ids)
<1>1. /\ c[1] = d /\ c[2] = keys /\ c[3] = weights /\ c[4] = how /\ c[5] = sources
      /\ c[6] = pivot /\ c[7] = m
  OBVIOUS
<1> HIDE DEF c
<1>2. InterScore(c[1], c[2], c[3], c[4], c[5], c[6], c[7]) = end
  BY DEF InterScore, ScoreLoop!Loop, FoldLeft, MapThenFoldSet, ScoreStep, ScoreLoop!Greatest, Max
<1>3. DOMAIN ids = 1 .. n /\ \A i \in 1 .. n : ids[i] = i
  BY <1>1
<1>4. ASSUME NEW i \in 1 .. n PROVE score(i) \in Int /\ c[3][i] \in Int
  BY <1>1 DEF HasScores, AreWeights
<1>5. ScoreHolds(c, 0, base)
  <2>1. score(c[6]) \in Int /\ c[3][c[6]] \in Int
    BY <1>1, <1>4
  <2> HIDE DEF score
  <2> QED BY <2>1 DEF ScoreHolds
<1>6. ASSUME NEW i \in 1 .. n, NEW sum, ScoreHolds(c, i - 1, sum)
      PROVE  ScoreHolds(c, i, ScoreStep(c, sum, ids[i]))
  <2> DEFINE b == score(i) * c[3][i]
  <2>1. ScoreStep(c, sum, i) = IF i = c[6] THEN sum ELSE Aggregate(how, sum, b)
    BY <1>1 DEF ScoreStep
  <2>2. b \in Int
    <3>1. score(i) \in Int /\ c[3][i] \in Int
      BY <1>4
    <3> HIDE DEF score
    <3> QED BY <3>1
  <2> HIDE DEF b
  <2>3. sum \in Int
    BY <1>6 DEF ScoreHolds
  <2>4. Aggregate(how, sum, b) \in Int
    BY <2>2, <2>3, AggregateInteger
  <2>5. ids[i] = i
    BY <1>3
  <2> HIDE DEF ids
  <2> QED BY <2>1, <2>3, <2>4, <2>5 DEF ScoreHolds
<1> HIDE DEF base, ids
<1>7. ScoreHolds(c, n, end)
  BY <1>3, <1>5, <1>6, ScoreLoop!LoopKeeps, Inductive
<1> HIDE DEF end
<1> QED BY <1>1, <1>2, <1>7 DEF ScoreHolds

(* What is common to the sources goes into the target. *)
IsCommon(d, keys, out, n, target, m) ==
    /\ m \in Name
    /\ \A i \in 1 .. n : out[i].type = "zset" =>
         keys[i] # target /\ keys[i] \in DOMAIN d.keys /\ Scores(d, keys[i])[m] \in Int
(* c is the target, the keys, weights and how, the sources, the pivot and   *)
(* the database that they were read from.                                  *)
AddStep(c, f, m) == AddMember(f, c[1], InterScore(f, c[2], c[3], c[4], c[5], c[6], m), m).db
AddHolds(c, i, f) == AtRest(f) /\ IsZsetAt(f, c[1]) /\ Others(c[7], f, c[1])
AddLoop == INSTANCE Loops WITH Step <- AddStep, Holds <- AddHolds

LEMMA AddStepOwn ==
  ASSUME NEW d, NEW n \in Nat, NEW keys, DOMAIN keys = 1 .. n, NEW weights, AreWeights(weights, n),
         NEW how, IsHow(how), NEW out, NEW pivot \in 1 .. n, NEW target,
         NEW f, AtRest(f), IsZsetAt(f, target), Others(d, f, target),
         NEW m, IsCommon(d, keys, out, n, target, m)
  PROVE  LET g == AddMember(f, target, InterScore(f, keys, weights, how, out, pivot, m), m).db
         IN AtRest(g) /\ IsZsetAt(g, target) /\ Others(d, g, target)
<1> DEFINE score == InterScore(f, keys, weights, how, out, pivot, m)
           g == AddMember(f, target, score, m).db
<1>1. m \in Name
  BY DEF IsCommon
<1>2. HasScores(f, keys, out, n, m)
  <2> SUFFICES ASSUME NEW i \in 1 .. n, out[i].type = "zset" PROVE Scores(f, keys[i])[m] \in Int
    BY DEF HasScores
  <2>1. keys[i] # target /\ keys[i] \in DOMAIN d.keys /\ Scores(d, keys[i])[m] \in Int
    BY DEF IsCommon
  <2>2. f.keys[keys[i]] = d.keys[keys[i]]
    BY <2>1 DEF Others
  <2> QED BY <2>1, <2>2 DEF Scores, Value
<1>3. score \in Int
  BY <1>2, InterScoreInteger
<1> HIDE DEF score
<1>4. AtRest(g) /\ IsZsetAt(g, target) /\ Others(f, g, target)
  BY <1>1, <1>3, AddMemberOwn
<1> HIDE DEF g
<1>5. Others(d, g, target)
  BY <1>4, OthersAgain
<1> QED BY <1>4, <1>5 DEF g, score

CommonAdded(e, target, keys, weights, how, out, pivot, common) ==
    FoldLeft(LAMBDA f, m : AddMember(f, target, InterScore(f, keys, weights, how, out, pivot, m), m).db,
             e, SetToSeq(common))

LEMMA CommonLoop ==
  ASSUME NEW c, NEW e, NEW common
  PROVE  CommonAdded(e, c[1], c[2], c[3], c[4], c[5], c[6], common)
           = AddLoop!Loop(c, e, SetToSeq(common))
BY DEF CommonAdded, AddLoop!Loop, FoldLeft, MapThenFoldSet, AddStep, AddLoop!Greatest, Max

AreCommon(d, keys, out, n, target, common) ==
    /\ IsFiniteSet(common)
    /\ \A m \in common : IsCommon(d, keys, out, n, target, m)

LEMMA CommonAddedOwn ==
  ASSUME NEW d, NEW n \in Nat, NEW keys, DOMAIN keys = 1 .. n, NEW weights, AreWeights(weights, n),
         NEW how, IsHow(how), NEW out, NEW pivot \in 1 .. n, NEW target,
         NEW e, AtRest(e), IsZsetAt(e, target), Others(d, e, target),
         NEW common, AreCommon(d, keys, out, n, target, common)
  PROVE  AtRest(CommonAdded(e, target, keys, weights, how, out, pivot, common))
<1> DEFINE c == <<target, keys, weights, how, out, pivot, d>>
           seq == SetToSeq(common)
           size == Cardinality(common)
           end == AddLoop!Loop(c, e, seq)
<1>1. /\ c[1] = target /\ c[2] = keys /\ c[3] = weights /\ c[4] = how /\ c[5] = out
      /\ c[6] = pivot /\ c[7] = d
  OBVIOUS
<1> HIDE DEF c
<1>2. CommonAdded(e, c[1], c[2], c[3], c[4], c[5], c[6], common) = end
  BY CommonLoop
<1>3. size \in Nat /\ DOMAIN seq = 1 .. size /\ seq \in [1 .. size -> common]
  BY SetToSeqFacts DEF AreCommon
<1> HIDE DEF size, seq
<1>4. AddHolds(c, 0, e)
  BY <1>1 DEF AddHolds
<1>5. ASSUME NEW i \in 1 .. size, NEW f, AddHolds(c, i - 1, f)
      PROVE  AddHolds(c, i, AddStep(c, f, seq[i]))
  <2> DEFINE m == seq[i]
             g == AddMember(f, target, InterScore(f, keys, weights, how, out, pivot, m), m).db
  <2>1. IsCommon(d, keys, out, n, target, m)
    <3>1. m \in common
      BY <1>3
    <3> QED BY <3>1 DEF AreCommon
  <2>2. AtRest(f) /\ IsZsetAt(f, target) /\ Others(d, f, target)
    BY <1>1, <1>5 DEF AddHolds
  <2> HIDE DEF m
  <2>3. AtRest(g) /\ IsZsetAt(g, target) /\ Others(d, g, target)
    BY <2>1, <2>2, AddStepOwn
  <2>4. AddStep(c, f, m) = g
    BY <1>1 DEF AddStep
  <2> HIDE DEF g
  <2> QED BY <1>1, <2>3, <2>4 DEF AddHolds, m
<1>6. AddHolds(c, size, end)
  BY <1>3, <1>4, <1>5, AddLoop!LoopKeeps, Inductive
<1> HIDE DEF end
<1> QED BY <1>1, <1>2, <1>6 DEF AddHolds

(* The first of the smallest sources *)
Smallest(keys, out) ==
    {i \in DOMAIN keys : \A j \in DOMAIN keys : Cardinality(out[i].members) <= Cardinality(out[j].members)}

LEMMA PivotFound ==
  ASSUME NEW d, NEW n \in Nat \ {0}, NEW keys, DOMAIN keys = 1 .. n, NEW out, AreSources(d, keys, out, n)
  PROVE  Min(Smallest(keys, out)) \in 1 .. n
<1> DEFINE size(i) == Cardinality(out[i].members)
           T == {size(i) : i \in 1 .. n}
           S == Smallest(keys, out)
<1>1. \A i \in 1 .. n : size(i) \in Nat
  <2> SUFFICES ASSUME NEW i \in 1 .. n PROVE size(i) \in Nat
    OBVIOUS
  <2> DEFINE members == out[i].members
  <2>1. IsFiniteSet(members)
    BY DEF AreSources, IsSource, FiniteNames
  <2> HIDE DEF members
  <2>2. Cardinality(members) \in Nat
    BY <2>1, FS_CardinalityType
  <2> QED BY <2>2 DEF members
<1> HIDE DEF size
<1>2. T \in SUBSET Nat /\ T # {}
  <2>1. size(1) \in T
    OBVIOUS
  <2> QED BY <1>1, <2>1
<1>3. PICK t \in T : \A u \in T : t <= u
  <2> HIDE DEF T
  <2> QED BY <1>2, LeastNatural
<1>4. PICK i \in 1 .. n : t = size(i)
  BY <1>3
<1>5. \A j \in 1 .. n : size(i) <= size(j)
  BY <1>3, <1>4
<1>6. S = {k \in 1 .. n : \A j \in 1 .. n : size(k) <= size(j)}
  BY DEF Smallest, size
<1>7. i \in S /\ S \in SUBSET Nat /\ S \subseteq 1 .. n
  BY <1>5, <1>6
<1> HIDE DEF S
<1>8. Min(S) \in S
  BY <1>7, LeastFacts
<1> QED BY <1>7, <1>8 DEF S

LEMMA CommonOfSources ==
  ASSUME NEW d, AtRest(d), NEW n \in Nat \ {0}, NEW keys, DOMAIN keys = 1 .. n,
         NEW out, AreSources(d, keys, out, n), NEW pivot \in 1 .. n,
         NEW target, target \notin DOMAIN d.keys
  PROVE  LET common == {m \in out[pivot].members : \A i \in DOMAIN keys : m \in out[i].members}
         IN AreCommon(d, keys, out, n, target, common)
<1> DEFINE common == {m \in out[pivot].members : \A i \in DOMAIN keys : m \in out[i].members}
           all == out[pivot].members
<1>1. all \in FiniteNames
  BY DEF AreSources, IsSource
<1>2. common \subseteq all
  OBVIOUS
<1>3. IsFiniteSet(common)
  <2> HIDE DEF common, all
  <2> QED BY <1>1, <1>2, FS_Subset DEF FiniteNames
<1>4. ASSUME NEW m \in common PROVE IsCommon(d, keys, out, n, target, m)
  <2>1. m \in Name
    BY <1>1 DEF FiniteNames
  <2>2. ASSUME NEW i \in 1 .. n, out[i].type = "zset"
        PROVE  keys[i] # target /\ keys[i] \in DOMAIN d.keys /\ Scores(d, keys[i])[m] \in Int
    <3>1. IsZsetAt(d, keys[i]) /\ m \in DOMAIN Scores(d, keys[i])
      BY <2>2 DEF AreSources, IsSource
    <3>2. Scores(d, keys[i])[m] \in Int
      <4> DEFINE key == keys[i]
      <4>1. IsZsetAt(d, key) /\ m \in DOMAIN Scores(d, key)
        BY <3>1
      <4> HIDE DEF key, common
      <4>2. Scores(d, key)[m] \in Int
        BY <4>1, ScoreOfMember
      <4> QED BY <4>2 DEF key
    <3> QED BY <3>1, <3>2 DEF IsZsetAt
  <2> HIDE DEF common
  <2> QED BY <2>1, <2>2 DEF IsCommon
<1> HIDE DEF common
<1>5. AreCommon(d, keys, out, n, target, common)
  BY <1>3, <1>4 DEF AreCommon
<1> QED BY <1>5 DEF common

LEMMA ZinterstoreOwn ==
  ASSUME NEW d, AtRest(d), NEW target, NEW n \in Nat \ {0}, NEW keys, DOMAIN keys = 1 .. n,
         NEW weights, AreWeights(weights, n), NEW how, IsHow(how)
  PROVE  AtRest(Zinterstore(d, target, keys, weights, how).db)
<1> DEFINE yes == TRUE
           a == Argument(d)
           b == DeleteWithValue(a, target).db
           q == InterSources(b, keys)
           out == q.out
           pivot == Min(Smallest(keys, out))
           common == {m \in out[pivot].members : \A i \in DOMAIN keys : m \in out[i].members}
           o == ZsetObjects(q.db, target, yes, yes)
           e == CommonAdded(o.db, target, keys, weights, how, out, pivot, common)
           r == Zinterstore(d, target, keys, weights, how)
<1>1. r = IF q.ret # "ok" THEN Fail(q.db, q.ret)
          ELSE IF o.ret = "ok" THEN Ret(e, <<Cardinality(common)>>) ELSE Fail(o.db, o.ret)
  BY DEF Zinterstore, Then, CommonAdded, Smallest
<1>2. AtRest(a)
  BY ArgumentOwn
<1> HIDE DEF a
<1>3. AtRest(b) /\ target \notin DOMAIN b.keys
  BY <1>2, DeleteWithValueRest
<1> HIDE DEF b
<1>4. /\ AtRest(q.db)
      /\ q.ret = "ok" => q.db = b /\ AreSources(b, keys, out, n)
  BY <1>3, InterSourcesOwn
<1> HIDE DEF q, out
<1>5. q.ret = "ok" => pivot \in 1 .. n
  BY <1>4, PivotFound
<1> HIDE DEF pivot
<1>6. q.ret = "ok" => AreCommon(b, keys, out, n, target, common)
  BY <1>3, <1>4, <1>5, CommonOfSources
<1> HIDE DEF common
<1>7. AtRest(o.db) /\ (o.ret = "ok" => IsZsetAt(o.db, target)) /\ Others(q.db, o.db, target)
  <2> HIDE DEF yes
  <2> QED BY <1>4, ZsetObjectsOwn
<1> HIDE DEF o
<1>8. q.ret = "ok" /\ o.ret = "ok" => AtRest(e)
  BY <1>4, <1>5, <1>6, <1>7, CommonAddedOwn
<1> HIDE DEF e, r
<1>9. AtRest(r.db)
  BY <1>1, <1>4, <1>7, <1>8 DEF Ret, Fail
<1> QED BY <1>9 DEF r

(* The nodes of a sorted set, as ZUNIONSTORE reads them *)
NodeRecords == [score : Int, member : Name]

LEMMA NodesFacts ==
  ASSUME NEW d, AtRest(d), NEW key, IsZsetAt(d, key)
  PROVE  Nodes(d, key) \in Seq(NodeRecords)
<1> DEFINE zset == Value(d, key)
           ranks == zset.ranks
           n == Len(ranks)
           nodes == Nodes(d, key)
<1>1. IsZset(d.heap, zset)
  BY ZsetAtFacts
<1>2. /\ n \in Nat /\ DOMAIN ranks = 1 .. n
      /\ \A i \in 1 .. n : ranks[i].score \in Int /\ NameOf(d.heap, ranks[i]) \in Name
  BY <1>1, ZsetFacts
<1>3. nodes = [k \in DOMAIN ranks |-> [score |-> ranks[k].score, member |-> NameOf(d.heap, ranks[k])]]
  BY DEF Nodes, Ranks, NameOf
<1> HIDE DEF nodes, n, ranks
<1>4. nodes = [k \in 1 .. n |-> [score |-> ranks[k].score, member |-> NameOf(d.heap, ranks[k])]]
  BY <1>2, <1>3
<1>5. \A k \in 1 .. n : [score |-> ranks[k].score, member |-> NameOf(d.heap, ranks[k])] \in NodeRecords
  BY <1>2 DEF NodeRecords
<1>6. nodes \in [1 .. n -> NodeRecords]
  BY <1>4, <1>5
<1>7. nodes \in Seq(NodeRecords)
  BY <1>2, <1>6
<1> QED BY <1>7 DEF nodes

(* zunionstore_sum: c is the target and a weight. *)
NodesAdded(e, target, weight, nodes) ==
    FoldLeft(LAMBDA f, n : Incrby(f, target, n.score * weight, n.member).db, e, nodes)
NodeStep(c, f, n) == Incrby(f, c[1], n.score * c[2], n.member).db
NodeHolds(c, i, f) == AtRest(f)
NodeLoop == INSTANCE Loops WITH Step <- NodeStep, Holds <- NodeHolds

LEMMA NodesAddedLoop ==
  ASSUME NEW c, NEW e, NEW nodes
  PROVE  NodesAdded(e, c[1], c[2], nodes) = NodeLoop!Loop(c, e, nodes)
BY DEF NodesAdded, NodeLoop!Loop, FoldLeft, MapThenFoldSet, NodeStep, NodeLoop!Greatest, Max

LEMMA NodesAddedOwn ==
  ASSUME NEW e, AtRest(e), NEW target, NEW weight \in Int, NEW nodes \in Seq(NodeRecords)
  PROVE  AtRest(NodesAdded(e, target, weight, nodes))
<1> DEFINE c == <<target, weight>>
           n == Len(nodes)
           end == NodeLoop!Loop(c, e, nodes)
<1>1. c[1] = target /\ c[2] = weight
  OBVIOUS
<1>2. n \in Nat /\ DOMAIN nodes = 1 .. n
  OBVIOUS
<1> HIDE DEF c, n
<1>3. NodesAdded(e, c[1], c[2], nodes) = end
  BY NodesAddedLoop
<1>4. NodeHolds(c, 0, e)
  BY DEF NodeHolds
<1>5. ASSUME NEW i \in 1 .. n, NEW f, NodeHolds(c, i - 1, f)
      PROVE  NodeHolds(c, i, NodeStep(c, f, nodes[i]))
  <2> DEFINE score == nodes[i].score * weight
             m == nodes[i].member
  <2>1. score \in Int /\ m \in Name
    <3>1. nodes[i] \in NodeRecords
      BY <1>2
    <3>2. nodes[i].score \in Int /\ m \in Name
      BY <3>1 DEF NodeRecords
    <3> QED BY <3>2
  <2>2. AtRest(f)
    BY <1>5 DEF NodeHolds
  <2>3. NodeStep(c, f, nodes[i]) = Incrby(f, target, score, m).db
    BY <1>1 DEF NodeStep
  <2> HIDE DEF score, m
  <2>4. AtRest(Incrby(f, target, score, m).db)
    BY <2>1, <2>2, IncrbyOwn
  <2> QED BY <2>3, <2>4 DEF NodeHolds
<1>6. NodeHolds(c, n, end)
  BY <1>2, <1>4, <1>5, NodeLoop!LoopKeeps, Inductive
<1> HIDE DEF end
<1> QED BY <1>1, <1>3, <1>6 DEF NodeHolds

(* c is the target, the keys and the weights. *)
SumStep(c, r, i) ==
    LET sum(o, j) ==
          IF o.ret = "not found" THEN Ret(o.db, <<>>)
          ELSE Then(o, LAMBDA e : Ret(NodesAdded(e, c[1], c[3][j], Nodes(e, c[2][j])), <<>>))
    IN IF r.ret # "ok" THEN r ELSE sum(ZsetObjects(r.db, c[2][i], FALSE, FALSE), i)
SumHolds(c, i, r) == AtRest(r.db)
SumLoop == INSTANCE Loops WITH Step <- SumStep, Holds <- SumHolds

LEMMA UnionSumLoop ==
  ASSUME NEW c, NEW d
  PROVE  UnionSum(d, c[1], c[2], c[3]) = SumLoop!Loop(c, Ret(d, <<>>), [i \in DOMAIN c[2] |-> i])
BY DEF UnionSum, SumLoop!Loop, FoldLeft, MapThenFoldSet, SumStep, SumLoop!Greatest, Max, NodesAdded

LEMMA SumStepOwn ==
  ASSUME NEW r, AtRest(r.db), NEW c, NEW i, c[3][i] \in Int
  PROVE  AtRest(SumStep(c, r, i).db)
<1> DEFINE target == c[1]
           key == c[2][i]
           weight == c[3][i]
           o == ZsetObjects(r.db, key, FALSE, FALSE)
           nodes == Nodes(o.db, key)
           e == NodesAdded(o.db, target, weight, nodes)
           t == SumStep(c, r, i)
<1>1. t = IF r.ret # "ok" THEN r
          ELSE IF o.ret = "not found" THEN Ret(o.db, <<>>)
          ELSE IF o.ret = "ok" THEN Ret(e, <<>>) ELSE Fail(o.db, o.ret)
  BY DEF SumStep, Then
<1>2. weight \in Int
  OBVIOUS
<1> HIDE DEF target, key, weight
<1>3. AtRest(o.db) /\ (o.ret = "ok" => IsZsetAt(o.db, key))
  <2> DEFINE no == FALSE
  <2> HIDE DEF no
  <2>1. LET q == ZsetObjects(r.db, key, no, no)
        IN AtRest(q.db) /\ (q.ret = "ok" => IsZsetAt(q.db, key))
    BY ZsetObjectsOwn
  <2> QED BY <2>1 DEF no
<1> HIDE DEF o
<1>4. o.ret = "ok" => nodes \in Seq(NodeRecords)
  BY <1>3, NodesFacts
<1> HIDE DEF nodes
<1>5. o.ret = "ok" => AtRest(e)
  BY <1>2, <1>3, <1>4, NodesAddedOwn
<1> HIDE DEF e, t
<1>6. AtRest(t.db)
  BY <1>1, <1>3, <1>5 DEF Ret, Fail
<1> QED BY <1>6 DEF t

LEMMA UnionSumOwn ==
  ASSUME NEW d, AtRest(d), NEW target, NEW n \in Nat, NEW keys, DOMAIN keys = 1 .. n,
         NEW weights, AreWeights(weights, n)
  PROVE  AtRest(UnionSum(d, target, keys, weights).db)
<1> DEFINE c == <<target, keys, weights>>
           b == Ret(d, <<>>)
           ids == [i \in DOMAIN c[2] |-> i]
           end == SumLoop!Loop(c, b, ids)
<1>1. c[1] = target /\ c[2] = keys /\ c[3] = weights
  OBVIOUS
<1> HIDE DEF c
<1>2. UnionSum(d, c[1], c[2], c[3]) = end
  BY UnionSumLoop
<1>3. DOMAIN ids = 1 .. n /\ \A i \in 1 .. n : ids[i] = i
  BY <1>1
<1>4. SumHolds(c, 0, b)
  BY DEF SumHolds, Ret
<1> HIDE DEF b, ids
<1>5. ASSUME NEW i \in 1 .. n, NEW r, SumHolds(c, i - 1, r)
      PROVE  SumHolds(c, i, SumStep(c, r, ids[i]))
  <2>1. c[3][i] \in Int /\ ids[i] = i /\ AtRest(r.db)
    BY <1>1, <1>3, <1>5 DEF AreWeights, SumHolds
  <2>2. AtRest(SumStep(c, r, i).db)
    BY <2>1, SumStepOwn
  <2> QED BY <2>1, <2>2 DEF SumHolds
<1>6. SumHolds(c, n, end)
  BY <1>3, <1>4, <1>5, SumLoop!LoopKeeps, Inductive
<1> HIDE DEF end
<1> QED BY <1>1, <1>2, <1>6 DEF SumHolds

(* zunionstore_minmax: its target is there while it reads its sources. *)
IsResultZset(d, target) == IsZsetAt(d, target) /\ d.keys[target].expires = 0
NodeLists == Seq(NodeRecords)

LEMMA ResultStays ==
  ASSUME NEW d, AtRest(d), NEW target, IsResultZset(d, target), NEW key
  PROVE  LET o == ZsetObjects(d, key, FALSE, FALSE)
         IN /\ AtRest(o.db)
            /\ IsResultZset(o.db, target)
            /\ o.ret = "ok" => IsZsetAt(o.db, key)
<1> DEFINE zset == "zset"
           expires == ExpiresOf(d, key, FALSE)
           o == ZsetObjects(d, key, FALSE, FALSE)
<1>1. zset \in Aggregates
  BY DEF Aggregates
<1>2. o = Objects(d, key, zset, FALSE, FALSE, expires)
  BY DEF ZsetObjects
<1>3. AtRest(o.db) /\ (o.ret = "ok" => IsZsetAt(o.db, key))
  <2> DEFINE no == FALSE
  <2> HIDE DEF no
  <2>1. LET q == ZsetObjects(d, key, no, no)
        IN AtRest(q.db) /\ (q.ret = "ok" => IsZsetAt(q.db, key))
    BY ZsetObjectsOwn
  <2> QED BY <2>1 DEF no
<1> HIDE DEF zset, expires, o
<1>4. target \in DOMAIN d.keys /\ d.keys[target].expires = 0
  BY DEF IsResultZset, IsZsetAt
<1>5. Stays(d, o.db, target)
  BY <1>1, <1>2, <1>4, ReadStays
<1>6. IsResultZset(o.db, target)
  BY <1>5 DEF IsResultZset, IsZsetAt, Stays
<1> QED BY <1>3, <1>6 DEF o

(* c is how, and the target. *)
MergeStep(c, r, key) ==
    LET ordered(nodes) == IF c[1] = "max" THEN Reverse(nodes) ELSE nodes
        add(o, out, k) ==
          IF o.ret = "not found" THEN Ret(o.db, Append(out, <<>>))
          ELSE Then(o, LAMBDA e : Ret(e, Append(out, ordered(Nodes(e, k)))))
    IN IF r.ret # "ok" THEN r ELSE add(ZsetObjects(r.db, key, FALSE, FALSE), r.out, key)
MergeHolds(c, i, r) ==
    /\ AtRest(r.db)
    /\ IsResultZset(r.db, c[2])
    /\ r.ret = "ok" => r.out \in Seq(NodeLists) /\ Len(r.out) = i
MergeLoop == INSTANCE Loops WITH Step <- MergeStep, Holds <- MergeHolds

LEMMA MergeSourcesLoop ==
  ASSUME NEW c, NEW d, NEW keys
  PROVE  MergeSources(d, keys, c[1]) = MergeLoop!Loop(c, Ret(d, <<>>), keys)
BY DEF MergeSources, MergeLoop!Loop, FoldLeft, MapThenFoldSet, MergeStep, MergeLoop!Greatest, Max

LEMMA ListAdded ==
  ASSUME NEW out \in Seq(NodeLists), NEW i \in Nat \ {0}, Len(out) = i - 1, NEW list \in NodeLists
  PROVE  Append(out, list) \in Seq(NodeLists) /\ Len(Append(out, list)) = i
<1>1. Append(out, list) \in Seq(NodeLists) /\ Len(Append(out, list)) = Len(out) + 1
  OBVIOUS
<1> DEFINE new == Append(out, list)
<1>2. new \in Seq(NodeLists) /\ Len(new) = Len(out) + 1
  BY <1>1
<1> HIDE DEF new
<1>3. new \in Seq(NodeLists) /\ Len(new) = i
  BY <1>2
<1> QED BY <1>3 DEF new

LEMMA NodesReversed ==
  ASSUME NEW nodes \in NodeLists
  PROVE  Reverse(nodes) \in NodeLists
<1> DEFINE n == Len(nodes)
           s == Reverse(nodes)
<1>1. n \in Nat /\ \A i \in 1 .. n : nodes[i] \in NodeRecords
  BY DEF NodeLists
<1>2. s = [i \in 1 .. n |-> nodes[(n - i) + 1]]
  BY DEF Reverse
<1> HIDE DEF n, s
<1>3. \A i \in 1 .. n : nodes[(n - i) + 1] \in NodeRecords
  <2> SUFFICES ASSUME NEW i \in 1 .. n PROVE nodes[(n - i) + 1] \in NodeRecords
    OBVIOUS
  <2>1. (n - i) + 1 \in 1 .. n
    BY <1>1
  <2> QED BY <1>1, <2>1
<1>4. s \in [1 .. n -> NodeRecords]
  BY <1>2, <1>3
<1>5. s \in NodeLists
  BY <1>1, <1>4 DEF NodeLists
<1> QED BY <1>5 DEF s

LEMMA MergeStepOwn ==
  ASSUME NEW c, NEW i \in Nat \ {0}, NEW r, MergeHolds(c, i - 1, r), NEW key
  PROVE  MergeHolds(c, i, MergeStep(c, r, key))
<1> DEFINE o == ZsetObjects(r.db, key, FALSE, FALSE)
           nodes == Nodes(o.db, key)
           list == IF c[1] = "max" THEN Reverse(nodes) ELSE nodes
           none == <<>>
           t == MergeStep(c, r, key)
<1>1. t = IF r.ret # "ok" THEN r
          ELSE IF o.ret = "not found" THEN Ret(o.db, Append(r.out, none))
          ELSE IF o.ret = "ok" THEN Ret(o.db, Append(r.out, list)) ELSE Fail(o.db, o.ret)
  BY DEF MergeStep, Then
<1>2. AtRest(r.db) /\ IsResultZset(r.db, c[2])
  BY DEF MergeHolds
<1> DEFINE target == c[2]
<1> HIDE DEF target
<1>3. /\ AtRest(o.db) /\ IsResultZset(o.db, target)
      /\ o.ret = "ok" => IsZsetAt(o.db, key)
  <2>1. IsResultZset(r.db, target)
    BY <1>2 DEF target
  <2> QED BY <1>2, <2>1, ResultStays
<1> HIDE DEF o
<1>4. none \in NodeLists
  BY DEF NodeLists
<1>5. o.ret = "ok" => list \in NodeLists
  <2>1. o.ret = "ok" => nodes \in NodeLists
    BY <1>3, NodesFacts DEF NodeLists
  <2> HIDE DEF nodes
  <2>2. nodes \in NodeLists => Reverse(nodes) \in NodeLists
    BY NodesReversed
  <2> QED BY <2>1, <2>2
<1> HIDE DEF none, list, nodes, t
<1>6. CASE r.ret # "ok"
  <2>1. t = r
    BY <1>1, <1>6
  <2> QED BY <1>6, <2>1 DEF MergeHolds, t
<1>7. CASE r.ret = "ok" /\ o.ret \in {"ok", "not found"}
  <2>1. r.out \in Seq(NodeLists) /\ Len(r.out) = i - 1
    BY <1>7 DEF MergeHolds
  <2> DEFINE x == IF o.ret = "ok" THEN list ELSE none
             new == Append(r.out, x)
             s == r.out
  <2>2. x \in NodeLists
    BY <1>4, <1>5
  <2>3. t = Ret(o.db, new)
    BY <1>1, <1>7
  <2> HIDE DEF x
  <2>4. new \in Seq(NodeLists) /\ Len(new) = i
    <3>1. s \in Seq(NodeLists) /\ Len(s) = i - 1
      BY <2>1
    <3> HIDE DEF s
    <3>2. Append(s, x) \in Seq(NodeLists) /\ Len(Append(s, x)) = i
      BY <2>2, <3>1, ListAdded
    <3> QED BY <3>2 DEF s
  <2> HIDE DEF new
  <2>5. t.db = o.db /\ t.out = new
    BY <2>3 DEF Ret
  <2> QED BY <1>3, <2>4, <2>5 DEF MergeHolds, target, t
<1>8. CASE r.ret = "ok" /\ o.ret \notin {"ok", "not found"}
  <2>1. t.db = o.db /\ t.ret = o.ret
    BY <1>1, <1>8 DEF Fail
  <2> QED BY <1>3, <1>8, <2>1 DEF MergeHolds, target, t
<1> QED BY <1>6, <1>7, <1>8

LEMMA MergeSourcesOwn ==
  ASSUME NEW d, AtRest(d), NEW target, IsResultZset(d, target), NEW n \in Nat,
         NEW keys, DOMAIN keys = 1 .. n, NEW how
  PROVE  LET r == MergeSources(d, keys, how)
         IN /\ AtRest(r.db)
            /\ IsResultZset(r.db, target)
            /\ r.ret = "ok" => r.out \in Seq(NodeLists) /\ Len(r.out) = n
<1> DEFINE c == <<how, target>>
           b == Ret(d, <<>>)
           end == MergeLoop!Loop(c, b, keys)
<1>1. c[1] = how /\ c[2] = target
  OBVIOUS
<1> HIDE DEF c
<1>2. MergeSources(d, keys, c[1]) = end
  BY MergeSourcesLoop
<1>3. MergeHolds(c, 0, b)
  <2>1. <<>> \in Seq(NodeLists) /\ Len(<<>>) = 0
    OBVIOUS
  <2>2. b.db = d /\ b.out = <<>>
    BY DEF Ret
  <2> HIDE DEF b
  <2> QED BY <1>1, <2>1, <2>2 DEF MergeHolds
<1> HIDE DEF b
<1>4. ASSUME NEW i \in 1 .. n, NEW r, MergeHolds(c, i - 1, r)
      PROVE  MergeHolds(c, i, MergeStep(c, r, keys[i]))
  BY <1>4, MergeStepOwn
<1>5. MergeHolds(c, n, end)
  BY <1>3, <1>4, MergeLoop!LoopKeeps, Inductive
<1> HIDE DEF end
<1> QED BY <1>1, <1>2, <1>5 DEF MergeHolds

(* How many nodes there are to merge *)
TotalStep(c, n, nodes) == n + Len(nodes)
TotalHolds(c, i, n) == n \in Nat
TotalLoop == INSTANCE Loops WITH Step <- TotalStep, Holds <- TotalHolds
Total(lists) == FoldLeft(LAMBDA n, nodes : n + Len(nodes), 0, lists)

LEMMA TotalNatural ==
  ASSUME NEW lists \in Seq(NodeLists)
  PROVE  Total(lists) \in Nat
<1> DEFINE zero == 0
           n == Len(lists)
           end == TotalLoop!Loop(zero, zero, lists)
<1>1. Total(lists) = end
  BY DEF Total, TotalLoop!Loop, FoldLeft, MapThenFoldSet, TotalStep, TotalLoop!Greatest, Max
<1>2. n \in Nat /\ DOMAIN lists = 1 .. n /\ zero \in Nat
  OBVIOUS
<1> HIDE DEF zero, n
<1>3. TotalHolds(zero, 0, zero)
  BY <1>2 DEF TotalHolds
<1>4. ASSUME NEW i \in 1 .. n, NEW k, TotalHolds(zero, i - 1, k)
      PROVE  TotalHolds(zero, i, TotalStep(zero, k, lists[i]))
  <2>1. lists[i] \in NodeLists
    BY <1>2
  <2>2. Len(lists[i]) \in Nat
    BY <2>1 DEF NodeLists
  <2> QED BY <1>4, <2>2 DEF TotalHolds, TotalStep
<1>5. TotalHolds(zero, n, end)
  BY <1>2, <1>3, <1>4, TotalLoop!LoopKeeps, Inductive
<1> HIDE DEF end
<1> QED BY <1>1, <1>5 DEF TotalHolds

(* The list whose first node is the next one, or 0; c is what is left of    *)
(* the lists, the weights and how.                                         *)
Picked(left, weights, how, lists) ==
    LET weighted(i) == weights[i] * Head(left[i]).score
        better(i, p) == IF how = "max" THEN Head(left[i]).score > weighted(p)
                        ELSE Head(left[i]).score < weighted(p)
        pick(p, i) == IF left[i] = <<>> THEN p ELSE IF p = 0 \/ better(i, p) THEN i ELSE p
    IN FoldLeft(LAMBDA q, i : pick(q, i), 0, [i \in DOMAIN lists |-> i])
PickStep(c, p, i) ==
    LET weighted(j) == c[2][j] * Head(c[1][j]).score
        better(j, q) == IF c[3] = "max" THEN Head(c[1][j]).score > weighted(q)
                        ELSE Head(c[1][j]).score < weighted(q)
    IN IF c[1][i] = <<>> THEN p ELSE IF p = 0 \/ better(i, p) THEN i ELSE p
PickHolds(c, i, p) == p = 0 \/ (p \in 1 .. c[4] /\ c[1][p] # <<>>)
PickLoop == INSTANCE Loops WITH Step <- PickStep, Holds <- PickHolds

LEMMA PickedLoop ==
  ASSUME NEW c, NEW lists
  PROVE  Picked(c[1], c[2], c[3], lists) = PickLoop!Loop(c, 0, [i \in DOMAIN lists |-> i])
BY DEF Picked, PickLoop!Loop, FoldLeft, MapThenFoldSet, PickStep, PickLoop!Greatest, Max

LEMMA PickedFacts ==
  ASSUME NEW n \in Nat, NEW lists, DOMAIN lists = 1 .. n, NEW left, NEW weights, NEW how
  PROVE  LET p == Picked(left, weights, how, lists)
         IN p = 0 \/ (p \in 1 .. n /\ left[p] # <<>>)
<1> DEFINE c == <<left, weights, how, n>>
           zero == 0
           ids == [i \in DOMAIN lists |-> i]
           end == PickLoop!Loop(c, zero, ids)
<1>1. c[1] = left /\ c[2] = weights /\ c[3] = how /\ c[4] = n
  OBVIOUS
<1> HIDE DEF c
<1>2. Picked(c[1], c[2], c[3], lists) = end
  BY PickedLoop
<1>3. DOMAIN ids = 1 .. n /\ \A i \in 1 .. n : ids[i] = i
  OBVIOUS
<1>4. PickHolds(c, 0, zero)
  BY DEF PickHolds
<1> HIDE DEF zero, ids
<1>5. ASSUME NEW i \in 1 .. n, NEW p, PickHolds(c, i - 1, p)
      PROVE  PickHolds(c, i, PickStep(c, p, ids[i]))
  <2>1. ids[i] = i
    BY <1>3
  <2>2. \/ PickStep(c, p, i) = p
        \/ PickStep(c, p, i) = i /\ c[1][i] # <<>>
    BY DEF PickStep
  <2> QED BY <1>1, <1>5, <2>1, <2>2 DEF PickHolds
<1>6. PickHolds(c, n, end)
  BY <1>3, <1>4, <1>5, PickLoop!LoopKeeps, Inductive
<1> HIDE DEF end
<1> QED BY <1>1, <1>2, <1>6 DEF PickHolds

(* c is the target, the lists, the weights and how. *)
TakeStep(c, st, k) ==
    LET weighted(i) == c[3][i] * Head(st.left[i]).score
        take(p) ==
          [db |-> AddMember(st.db, c[1], weighted(p), Head(st.left[p]).member).db,
           left |-> [i \in DOMAIN c[2] |-> IF i = p THEN Tail(st.left[i]) ELSE st.left[i]]]
        p == Picked(st.left, c[3], c[4], c[2])
    IN IF p = 0 THEN st ELSE take(p)
TakeHolds(c, i, st) ==
    /\ AtRest(st.db)
    /\ IsZsetAt(st.db, c[1])
    /\ \A j \in DOMAIN c[2] : st.left[j] \in NodeLists
TakeLoop == INSTANCE Loops WITH Step <- TakeStep, Holds <- TakeHolds

LEMMA MergedLoop ==
  ASSUME NEW c, NEW d
  PROVE  Merged(d, c[1], c[2], c[3], c[4])
           = TakeLoop!Loop(c, [db |-> d, left |-> c[2]], [k \in 1 .. Total(c[2]) |-> k]).db
BY DEF Merged, TakeLoop!Loop, FoldLeft, MapThenFoldSet, TakeStep, TakeLoop!Greatest, Max, Picked, Total

LEMMA TakeStepOwn ==
  ASSUME NEW n \in Nat, NEW c, DOMAIN c[2] = 1 .. n, AreWeights(c[3], n),
         NEW i, NEW j, NEW st, TakeHolds(c, i, st), NEW k
  PROVE  TakeHolds(c, j, TakeStep(c, st, k))
<1> DEFINE target == c[1]
           lists == c[2]
           weights == c[3]
           how == c[4]
           left == st.left
           p == Picked(left, weights, how, lists)
           node == Head(left[p])
           score == weights[p] * node.score
           m == node.member
           e == AddMember(st.db, target, score, m).db
           rest == [q \in DOMAIN lists |-> IF q = p THEN Tail(left[q]) ELSE left[q]]
           t == TakeStep(c, st, k)
<1>1. t = IF p = 0 THEN st ELSE [db |-> e, left |-> rest]
  BY DEF TakeStep
<1>2. /\ AtRest(st.db) /\ IsZsetAt(st.db, target)
      /\ \A q \in 1 .. n : left[q] \in NodeLists
  BY DEF TakeHolds
<1>3. DOMAIN lists = 1 .. n /\ AreWeights(weights, n)
  OBVIOUS
<1> HIDE DEF left, lists, weights, how
<1>4. p = 0 \/ (p \in 1 .. n /\ left[p] # <<>>)
  BY <1>3, PickedFacts
<1> HIDE DEF p
<1>5. CASE p = 0
  <2>1. t = st
    BY <1>1, <1>5
  <2> HIDE DEF t
  <2> QED BY <2>1 DEF TakeHolds, t
<1>6. CASE p # 0
  <2>1. p \in 1 .. n /\ left[p] \in NodeLists /\ left[p] # <<>> /\ weights[p] \in Int
    BY <1>2, <1>3, <1>4, <1>6 DEF AreWeights
  <2>2. node \in NodeRecords /\ Tail(left[p]) \in NodeLists
    <3> DEFINE list == left[p]
    <3>1. list \in Seq(NodeRecords) /\ list # <<>>
      BY <2>1 DEF NodeLists
    <3> HIDE DEF list
    <3>2. Head(list) \in NodeRecords /\ Tail(list) \in Seq(NodeRecords)
      BY <3>1
    <3> QED BY <3>2 DEF list, NodeLists
  <2>3. score \in Int /\ m \in Name
    <3>1. node.score \in Int /\ node.member \in Name
      BY <2>2 DEF NodeRecords
    <3> HIDE DEF node
    <3> QED BY <2>1, <3>1
  <2> HIDE DEF score, m
  <2>4. AtRest(e) /\ IsZsetAt(e, target)
    <3> HIDE DEF target
    <3> QED BY <1>2, <2>3, AddMemberOwn
  <2> HIDE DEF e
  <2>5. \A q \in 1 .. n : rest[q] \in NodeLists
    BY <1>2, <1>3, <2>2
  <2> HIDE DEF rest
  <2>6. t.db = e /\ t.left = rest
    BY <1>1, <1>6
  <2> HIDE DEF t
  <2>7. DOMAIN c[2] = 1 .. n
    OBVIOUS
  <2> QED BY <2>4, <2>5, <2>6, <2>7 DEF TakeHolds, t, target
<1> QED BY <1>5, <1>6

LEMMA MergedOwn ==
  ASSUME NEW d, AtRest(d), NEW target, IsZsetAt(d, target), NEW n \in Nat, NEW lists \in Seq(NodeLists),
         Len(lists) = n, NEW weights, AreWeights(weights, n), NEW how
  PROVE  LET e == Merged(d, target, lists, weights, how) IN AtRest(e) /\ IsZsetAt(e, target)
<1> DEFINE c == <<target, lists, weights, how>>
           total == Total(lists)
           b == [db |-> d, left |-> lists]
           ids == [k \in 1 .. total |-> k]
           end == TakeLoop!Loop(c, b, ids)
<1>1. c[1] = target /\ c[2] = lists /\ c[3] = weights /\ c[4] = how
  OBVIOUS
<1> HIDE DEF c
<1>2. Merged(d, c[1], c[2], c[3], c[4]) = end.db
  <2>1. Merged(d, c[1], c[2], c[3], c[4])
          = TakeLoop!Loop(c, [db |-> d, left |-> c[2]], [k \in 1 .. Total(c[2]) |-> k]).db
    BY MergedLoop
  <2> QED BY <1>1, <2>1
<1>3. total \in Nat /\ DOMAIN ids = 1 .. total
  BY TotalNatural
<1>4. DOMAIN lists = 1 .. n /\ \A j \in 1 .. n : lists[j] \in NodeLists
  OBVIOUS
<1>5. b.db = d /\ b.left = lists
  OBVIOUS
<1> HIDE DEF total, b, ids
<1>6. TakeHolds(c, 0, b)
  BY <1>1, <1>4, <1>5 DEF TakeHolds
<1>7. ASSUME NEW i \in 1 .. total, NEW st, TakeHolds(c, i - 1, st)
      PROVE  TakeHolds(c, i, TakeStep(c, st, ids[i]))
  <2>1. DOMAIN c[2] = 1 .. n /\ AreWeights(c[3], n)
    BY <1>1, <1>4
  <2> QED BY <1>7, <2>1, TakeStepOwn
<1>8. TakeHolds(c, total, end)
  BY <1>3, <1>6, <1>7, TakeLoop!LoopKeeps, Inductive
<1> HIDE DEF end
<1> QED BY <1>1, <1>2, <1>8 DEF TakeHolds

LEMMA UnionMinMaxOwn ==
  ASSUME NEW d, AtRest(d), NEW target, target \notin DOMAIN d.keys, NEW n \in Nat,
         NEW keys, DOMAIN keys = 1 .. n, NEW weights, AreWeights(weights, n), NEW how
  PROVE  AtRest(UnionMinMax(d, target, keys, weights, how).db)
<1> DEFINE yes == TRUE
           o == ZsetObjects(d, target, yes, yes)
           q == MergeSources(o.db, keys, how)
           out == q.out
           e == Merged(q.db, target, out, weights, how)
           gone == DeleteWithValue(e, target).db
           r == UnionMinMax(d, target, keys, weights, how)
<1>1. r = IF q.ret # "ok" THEN q ELSE Ret(IF Ranks(e, target) = <<>> THEN gone ELSE e, <<>>)
  BY DEF UnionMinMax
<1>2. AtRest(o.db) /\ IsResultZset(o.db, target)
  <2> DEFINE zset == "zset"
             expires == ExpiresOf(d, target, yes)
  <2>1. zset \in Aggregates
    BY DEF Aggregates
  <2>2. AtRest(o.db) /\ (o.ret = "ok" => IsZsetAt(o.db, target))
    <3> HIDE DEF yes
    <3> QED BY ZsetObjectsOwn
  <2>3. o = Objects(d, target, zset, yes, TRUE, expires)
    BY DEF ZsetObjects
  <2> HIDE DEF zset, expires, o, yes
  <2>4. LET s == Objects(d, target, zset, yes, TRUE, expires)
        IN s.ret = "ok" /\ s.db.keys[target].expires = 0
    BY <2>1, ObjectsNew
  <2> QED BY <2>2, <2>3, <2>4 DEF IsResultZset
<1> HIDE DEF o
<1>3. /\ AtRest(q.db)
      /\ IsResultZset(q.db, target)
      /\ q.ret = "ok" => q.out \in Seq(NodeLists) /\ Len(q.out) = n
  BY <1>2, MergeSourcesOwn
<1>4. q.ret = "ok" => out \in Seq(NodeLists) /\ Len(out) = n
  BY <1>3
<1> HIDE DEF q, out
<1>5. q.ret = "ok" => AtRest(e)
  BY <1>3, <1>4, MergedOwn DEF IsResultZset
<1> HIDE DEF e
<1>6. q.ret = "ok" => AtRest(gone)
  BY <1>5, DeleteWithValueRest
<1> HIDE DEF gone, r
<1>7. AtRest(r.db)
  BY <1>1, <1>3, <1>5, <1>6 DEF Ret
<1> QED BY <1>7 DEF r

LEMMA ZunionstoreOwn ==
  ASSUME NEW d, AtRest(d), NEW target, NEW n \in Nat, NEW keys, DOMAIN keys = 1 .. n,
         NEW weights, AreWeights(weights, n), NEW how
  PROVE  AtRest(Zunionstore(d, target, keys, weights, how).db)
<1> DEFINE a == Argument(d)
           b == DeleteWithValue(a, target).db
           u == IF how = "sum" THEN UnionSum(b, target, keys, weights)
                ELSE UnionMinMax(b, target, keys, weights, how)
           e == u.db
           no == FALSE
           o == ZsetObjects(e, target, no, no)
           r == Zunionstore(d, target, keys, weights, how)
<1>1. r = IF u.ret = "ok"
            THEN IF o.ret = "ok" THEN Ret(o.db, <<Len(Ranks(o.db, target))>>) ELSE Fail(o.db, o.ret)
          ELSE Fail(e, u.ret)
  BY DEF Zunionstore, Zcard, Then
<1>2. AtRest(a)
  BY ArgumentOwn
<1> HIDE DEF a
<1>3. AtRest(b) /\ target \notin DOMAIN b.keys
  BY <1>2, DeleteWithValueRest
<1> HIDE DEF b
<1>4. AtRest(e)
  <2>1. CASE how = "sum"
    BY <1>3, <2>1, UnionSumOwn
  <2>2. CASE how # "sum"
    BY <1>3, <2>2, UnionMinMaxOwn
  <2> QED BY <2>1, <2>2
<1> HIDE DEF u, e, no
<1>5. AtRest(o.db)
  BY <1>4, ZsetObjectsOwn
<1> HIDE DEF o, r
<1>6. AtRest(r.db)
  BY <1>1, <1>4, <1>5 DEF Ret, Fail
<1> QED BY <1>6 DEF r
=============================================================================
