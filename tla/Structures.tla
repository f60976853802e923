----------------------------- MODULE Structures -----------------------------
(***************************************************************************)
(* A list of pages, a string and a skiplist that live beside each other,   *)
(* as the values of three keys do, and take their pages from one page      *)
(* layer: PageList.tla, MultiString.tla and Skiplist.tla composed.  Their  *)
(* owners (page_key.c, type_*.c) keep the number of their page.            *)
(***************************************************************************)
EXTENDS Skiplist

CONSTANTS
    Marks,        \* what the list holds
    Writes,       \* the bytes that are written to the string at once
    Offsets,      \* where
    Strings,      \* the strings the string is compared with
    SkipScores,   \* the scores in the skiplist
    Members,      \* the values in the skiplist
    Loads,        \* what the structures may hold when a run starts
    MaxOps        \* bound on the operations after that

Bytes == Seq(0 .. 255)
ASSUME StructuresAssumption ==
    /\ MaxOps \in Nat /\ Offsets \subseteq Nat /\ SkipScores \subseteq Int
    /\ Writes \cup Strings \cup Members \subseteq Bytes

VARIABLES
    db,        \* the handle
    list,      \* the page of the list, or 0: likewise str and skip
    str,
    skip,
    seq,       \* history: the elements of the list
    bytes,     \* history: the string
    ranked,    \* history: the scores and values in the skiplist
    overrun,   \* history: a write went past the end on a later page
    ops        \* how many operations there have been
vars == <<db, list, str, skip, seq, bytes, ranked, overrun, ops>>

Entry(score, value) == [score |-> score, value |-> value]

-----------------------------------------------------------------------------
(* A sequence with an element more, at a position of the code's *)
Placed(s, e, position) ==
    InsertAt(s, IF position < 0 THEN Len(s) + position + 2 ELSE position + 1, e)

(* What is held before a run starts: elements added in turn at positions   *)
(* of the list, a string, and entries with the levels of their nodes.      *)
LoadedList(d, load) ==
    LET add(e, i) == AddElement(e, ListPage(d), i, load[i])
    IN FoldLeft(add, ListCreate(d), [i \in DOMAIN load |-> i])
LoadedSeq(load) ==
    LET add(s, i) == Placed(s, i, load[i])
    IN FoldLeft(add, <<>>, [i \in DOMAIN load |-> i])
LoadedSkip(d, load) ==
    LET add(e, x) == SkipAdd(e, SkipPage(d), x.score, x.value, x.level)
    IN FoldLeft(add, SkipCreate(d), load)

Init ==
    \E load \in Loads :
       LET a == IF load.list = <<>> THEN NewDb ELSE LoadedList(NewDb, load.list)
           b == IF load.bytes = <<>> THEN a ELSE SetString(a, load.bytes)
           c == IF load.skip = <<>> THEN b ELSE LoadedSkip(b, load.skip)
       IN /\ db = c
          /\ list = IF load.list = <<>> THEN 0 ELSE ListPage(NewDb)
          /\ str = IF load.bytes = <<>> THEN 0 ELSE ListPage(a)
          /\ skip = IF load.skip = <<>> THEN 0 ELSE SkipPage(b)
          /\ seq = LoadedSeq(load.list)
          /\ bytes = load.bytes
          /\ ranked = {Entry(x.score, x.value) : x \in ToSet(load.skip)}
          /\ overrun = FALSE
          /\ ops = 0

(* Every operation counts, and finds the pages it may need. *)
Operation == ops < MaxOps /\ ops' = ops + 1 /\ Room(db) >= 8
OnList == Operation /\ UNCHANGED <<str, skip, bytes, ranked, overrun>>
OnString == Operation /\ UNCHANGED <<list, skip, seq, ranked>>
OnSkip == Operation /\ UNCHANGED <<list, str, seq, bytes, overrun>>

-----------------------------------------------------------------------------
(* As rl_push: a list is made for its first element. *)
NewList(e) ==
    /\ OnList /\ list = 0
    /\ list' = ListPage(db)
    /\ db' = AddElement(ListCreate(db), list', e, 0)
    /\ seq' = <<e>>

Add(e, position) ==
    /\ OnList /\ list # 0 /\ ValidPosition(Obj(db, list), position, 1)
    /\ db' = AddElement(db, list, e, position)
    /\ seq' = Placed(seq, e, position)
    /\ UNCHANGED list

RemoveAtPosition(position) ==
    /\ OnList /\ list # 0 /\ ValidPosition(Obj(db, list), position, 0)
    /\ db' = RemoveElement(db, list, position)
    /\ seq' = RemoveAt(seq, IF position < 0 THEN Len(seq) + position + 1 ELSE position + 1)
    /\ list' = IF Len(seq) = 1 THEN 0 ELSE list

DropList ==
    /\ OnList /\ list # 0
    /\ db' = ListDelete(db, list)
    /\ list' = 0 /\ seq' = <<>>

-----------------------------------------------------------------------------
(* The bytes of a string after data has been written at an offset *)
Written(data, offset) ==
    [i \in 1 .. Greatest(Len(bytes), offset + Len(data)) |->
       IF i \in offset + 1 .. offset + Len(data) THEN data[i - offset]
       ELSE IF i <= Len(bytes) THEN bytes[i] ELSE 0]

NewString(data) ==
    /\ OnString /\ str = 0
    /\ str' = ListPage(db)
    /\ db' = SetString(db, data)
    /\ bytes' = data /\ overrun' = FALSE

AppendTo(data) ==
    /\ OnString /\ str # 0
    /\ db' = AppendString(db, str, data)
    /\ bytes' = bytes \o data
    /\ UNCHANGED <<str, overrun>>

(* A write that starts before the end and ends after it, when the end is   *)
(* within a page that is not the first.                                    *)
Overruns(data, offset) ==
    /\ offset < Len(bytes) /\ offset + Len(data) > Len(bytes)
    /\ Len(bytes) > PageSize /\ Len(bytes) % PageSize # 0

WriteAt(data, offset) ==
    /\ OnString /\ str # 0
    /\ db' = SetRange(db, str, data, offset)
    /\ bytes' = Written(data, offset)
    /\ overrun' = (overrun \/ Overruns(data, offset))
    /\ UNCHANGED str

DropString ==
    /\ OnString /\ str # 0
    /\ db' = DeleteString(db, str)
    /\ str' = 0 /\ bytes' = <<>> /\ overrun' = FALSE

-----------------------------------------------------------------------------
(* As zset: an empty skiplist is made for its first element, and a value   *)
(* that is there is deleted before it is added again.                      *)
NewSkip(score, value, level) ==
    /\ OnSkip /\ skip = 0
    /\ skip' = SkipPage(db)
    /\ db' = SkipAdd(SkipCreate(db), skip', score, value, level)
    /\ ranked' = {Entry(score, value)}

AddRanked(score, value, level) ==
    /\ OnSkip /\ skip # 0 /\ \A e \in ranked : e.value # value
    /\ db' = SkipAdd(db, skip, score, value, level)
    /\ ranked' = ranked \cup {Entry(score, value)}
    /\ UNCHANGED skip

DeleteRanked(e) ==
    /\ OnSkip /\ skip # 0
    /\ db' = SkipDelete(db, skip, e.score, e.value)
    /\ ranked' = ranked \ {e}
    /\ skip' = IF ranked = {e} THEN 0 ELSE skip

DropSkip ==
    /\ OnSkip /\ skip # 0
    /\ db' = SkipDeleteAll(db, skip)
    /\ skip' = 0 /\ ranked' = {}

Next ==
    \/ \E e \in Marks :
          \/ NewList(e)
          \/ \E position \in -Len(seq) - 1 .. Len(seq) : Add(e, position)
    \/ \E position \in -Len(seq) .. Len(seq) - 1 : RemoveAtPosition(position)
    \/ DropList
    \/ \E data \in Writes :
          NewString(data) \/ AppendTo(data) \/ \E offset \in Offsets : WriteAt(data, offset)
    \/ DropString
    \/ \E score \in SkipScores, value \in Members, level \in 1 .. MaxLevel :
          NewSkip(score, value, level) \/ AddRanked(score, value, level)
    \/ \E e \in ranked : DeleteRanked(e)
    \/ DropSkip

Spec == Init /\ [][Next]_vars

-----------------------------------------------------------------------------
(* However its nodes are filled, split and merged, a list is the sequence  *)
(* that was added and removed: from either end, and at every position      *)
(* counted from either end (page_list.c).                                  *)
ListHolds ==
    list # 0 =>
       /\ Flattened(db, list) = seq
       /\ FlattenedBack(db, list) = Reverse(seq)
       /\ \A i \in DOMAIN seq : /\ GetElement(db, list, i - 1) = seq[i]
                                /\ GetElement(db, list, i - 1 - Len(seq)) = seq[i]

(* Lexicographic order, with a string after its prefixes *)
Less(a, b) ==
    \/ CompareBytes(a, b) < 0
    \/ CompareBytes(a, b) = 0 /\ Len(a) < Len(b)

(* A string reads back, whole and in every range, as what was set, appended *)
(* and written over; what enters its digest is the same; and it compares    *)
(* with other strings as its bytes do (page_multi_string.c).                *)
StringHolds ==
    str # 0 /\ ~overrun =>
       /\ StringLength(db, str) = Len(bytes)
       /\ \A start, stop \in -Len(bytes) - 1 .. Len(bytes) :
             LET from == IF start < 0 THEN Greatest(start + Len(bytes), 0) ELSE start
                 to == IF stop < 0 THEN Greatest(stop + Len(bytes), 0) ELSE stop
             IN GetRange(db, str, start, stop)
                  = SubSeq(bytes, from + 1, Least(to + 1, Len(bytes)))
       /\ Digested(db, str) = bytes
       /\ \A other \in Strings :
             CompareString(db, str, other)
               = IF bytes = other THEN 0 ELSE IF Less(bytes, other) THEN -1 ELSE 1

(* The same of a write over the end of a string, wherever that is: "if      *)
(* there's more bytes that did not enter in this page it will be caught     *)
(* with an append" (page_multi_string.c:451).                               *)
WritesHold == str # 0 => Get(db, str) = bytes

(* The entries in their order *)
Before(e, f) == e.score < f.score \/ (e.score = f.score /\ Less(e.value, f.value))
Ranking == SetToSortSeq(ranked, Before)

(* The elements that come before a score and value, and those that match it *)
Preceding(score, value) ==
    {e \in ranked : IF value = AnyValue THEN e.score < score ELSE Before(e, Entry(score, value))}
Matching(score, value) ==
    {e \in ranked : e.score = score /\ (value = AnyValue \/ e.value = value)}

(* rl_skiplist_first_node, as its comment has it (page_skiplist.c:281): the *)
(* rank that ends a range before or upto an element, or that starts one     *)
(* with or after it.                                                        *)
RankAt(score, mode, value) ==
    LET n == Cardinality(Preceding(score, value))
        m == Cardinality(Matching(score, value))
    IN CASE mode = "before" -> n - 1
         [] mode = "upto" -> n + m - 1
         [] mode = "include" -> n
         [] mode = "exclude" -> n + m

Modes == {"before", "upto", "include", "exclude"}
FindsRank(score, mode, value) ==
    LET f == FirstNode(db, skip, score, mode, value)
        rank == RankAt(score, mode, value)
    IN /\ f.found <=> rank < Cardinality(ranked)
       /\ f.found => f.rank = rank

(* Whatever the levels, the skiplist has its entries in the order of their *)
(* scores and values, finds the element of every rank, and the rank of     *)
(* every score and value, as long as that matches one element at most      *)
(* (page_skiplist.c).                                                      *)
Ranks ==
    skip # 0 =>
       /\ [k \in DOMAIN SkipNodes(db, skip) |->
             LET n == Obj(db, SkipNodes(db, skip)[k])
             IN Entry(n.score, Get(db, n.value))] = Ranking
       /\ \A k \in 1 .. Cardinality(ranked) :
             LET f == NodeByRank(db, skip, k - 1)
             IN f.found /\ f.page = SkipNodes(db, skip)[k]
       /\ \A score \in SkipScores, value \in Members \cup {AnyValue}, mode \in Modes :
             Cardinality(Matching(score, value)) <= 1 => FindsRank(score, mode, value)

(* The same of every score, also one that several elements have.  *)
RanksEqual ==
    skip # 0 => \A score \in SkipScores, mode \in Modes : FindsRank(score, mode, AnyValue)

(* Links to the right and to the left agree, sizes are right, no two       *)
(* neighbours could be one node, and spans count elements on every level   *)
(* (rl_list_is_balanced, rl_skiplist_is_balanced).                         *)
LinksAgree ==
    /\ list # 0 => ListBalanced(db, list)
    /\ str # 0 => ListBalanced(db, str)
    /\ skip # 0 => SkipBalanced(db, skip)

(* No page is lost, used twice, or free while it is used.                  *)
PagesHeld ==
    LET held == FreePages(db)
                \o (IF list = 0 THEN <<>> ELSE ListPages(db, list))
                \o (IF str = 0 THEN <<>> ELSE PagesOfString(db, str))
                \o (IF skip = 0 THEN <<>> ELSE SkipPages(db, skip))
    IN Len(held) = db.npages - 1 /\ ToSet(held) = 1 .. db.npages - 1

=============================================================================
