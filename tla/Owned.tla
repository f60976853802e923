------------------------------- MODULE Owned --------------------------------
(***************************************************************************)
(* The databases that commands leave: what is to hold of the keys, of      *)
(* their values and of the strings of Keyspace.tla together, between two   *)
(* commands and within one.                                                *)
(***************************************************************************)
EXTENDS Lists, Hashes, SortedSets

(* A member of a set, which can be compared with other members *)
Name == Seq(Nat)
IsFunction(f) == f = [x \in DOMAIN f |-> f[x]]
IsDatabase(d) ==
    d = [keys |-> d.keys, heap |-> d.heap, now |-> d.now, given |-> d.given, erange |-> d.erange]
IsEntry(e) ==
    e = [type |-> e.type, string |-> e.string, value |-> e.value,
         expires |-> e.expires, version |-> e.version]
IsHeap(heap) ==
    /\ IsFunction(heap)
    /\ IsFiniteSet(DOMAIN heap)
    /\ DOMAIN heap \in SUBSET Nat

(* The values of each type: their form, and how they go with their strings *)
IsList(list) == list \in Seq(Nat) /\ IsInjective(list)
IsSet(heap, set) ==
    /\ IsFunction(set)
    /\ IsFiniteSet(DOMAIN set)
    /\ \A m \in DOMAIN set : m \in Name /\ heap[set[m]] = m
IsHash(heap, hash) ==
    /\ IsFunction(hash)
    /\ \A f \in DOMAIN hash :
         /\ hash[f] = [string |-> hash[f].string, value |-> hash[f].value]
         /\ heap[hash[f].string] = f
    /\ \A f, g \in DOMAIN hash :
         /\ hash[f].string # hash[g].value
         /\ hash[f].value = hash[g].value => f = g
Sorts(score, m, other, n) == score < other \/ (score = other /\ Before(m, n))
IsZset(heap, zset) ==
    /\ zset = [scores |-> zset.scores, ranks |-> zset.ranks]
    /\ IsFunction(zset.scores)
    /\ IsFiniteSet(DOMAIN zset.scores)
    /\ \A m \in DOMAIN zset.scores : m \in Name /\ zset.scores[m] \in Int
    /\ zset.ranks \in Seq([score : Int, value : Nat])
    /\ \A i \in DOMAIN zset.ranks :
         /\ heap[zset.ranks[i].value] \in DOMAIN zset.scores
         /\ zset.scores[heap[zset.ranks[i].value]] = zset.ranks[i].score
    /\ \A m \in DOMAIN zset.scores :
         \E i \in DOMAIN zset.ranks : heap[zset.ranks[i].value] = m
    /\ \A i, j \in DOMAIN zset.ranks :
         i < j => Sorts(zset.ranks[i].score, heap[zset.ranks[i].value],
                        zset.ranks[j].score, heap[zset.ranks[j].value])
Types == {"string", "list", "set", "hash", "zset"}
IsValue(heap, type, value) ==
    /\ type \in Types
    /\ type = "list" => IsList(value)
    /\ type = "set" => IsSet(heap, value)
    /\ type = "hash" => IsHash(heap, value)
    /\ type = "zset" => IsZset(heap, value)

(* A key with its strings *)
Keeps(heap, key, e) ==
    /\ IsEntry(e)
    /\ HeldBy(e) \subseteq DOMAIN heap
    /\ e.string \notin StringsOf(e.type, e.value)
    /\ heap[e.string] = key
    /\ IsValue(heap, e.type, e.value)

(* Every page is loose or held by one key, and no list is empty but that of *)
(* a bare key.                                                              *)
Own(d, loose, bare) ==
    /\ IsDatabase(d)
    /\ IsHeap(d.heap)
    /\ IsFunction(d.keys)
    /\ \A k \in DOMAIN d.keys : Keeps(d.heap, k, d.keys[k])
    /\ \A k \in DOMAIN d.keys : d.keys[k].type = "list" /\ d.keys[k].value = <<>> => k \in bare
    /\ \A k, l \in DOMAIN d.keys : k # l => HeldBy(d.keys[k]) \cap HeldBy(d.keys[l]) = {}
    /\ \A k \in DOMAIN d.keys : HeldBy(d.keys[k]) \cap loose = {}
    /\ loose \subseteq DOMAIN d.heap
    /\ \A p \in DOMAIN d.heap : p \in loose \/ \E k \in DOMAIN d.keys : p \in HeldBy(d.keys[k])

(* Between two commands no string is loose and no list is empty; within one *)
(* a list is made to be filled.                                             *)
AtRest(d) == Own(d, {}, {})
Filling(d, key) == Own(d, {}, {key})

=============================================================================
