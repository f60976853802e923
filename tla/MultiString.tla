---------------------------- MODULE MultiString ----------------------------
(***************************************************************************)
(* page_multi_string.c: a string of any length as a list of longs, the     *)
(* first of which is its length and the others the pages that hold it.     *)
(* p is the list's page.  A string is a sequence of bytes; its last page   *)
(* is padded with zeros.                                                   *)
(***************************************************************************)
EXTENDS PageList, FiniteSets

CONSTANT PageSize         \* page_size, in bytes
ASSUME PageSizeAssumption == PageSize \in Nat \ {0}

Least(a, b) == IF a < b THEN a ELSE b
Greatest(a, b) == IF a > b THEN a ELSE b
Zeros(n) == [i \in 1 .. n |-> 0]
Padded(bytes) == bytes \o Zeros(PageSize - Len(bytes))

(* memcpy of bytes to a place in a page or a buffer, counted from 0 *)
Patched(buffer, at, bytes) ==
    [i \in DOMAIN buffer |-> IF i \in at + 1 .. at + Len(bytes) THEN bytes[i - at]
                                                                ELSE buffer[i]]
Slice(bytes, from, size) == SubSeq(bytes, from + 1, from + size)

StringLength(d, p) == GetElement(d, p, 0)
StringPages(d, p) == Tail(Flattened(d, p))

-----------------------------------------------------------------------------
(* append: the bytes that fill new pages *)
AppendPages(d, p, data) ==
    LET add(e, i) ==
          AddElement(Save(e, e.next,
                          Padded(Slice(data, (i - 1) * PageSize,
                                       Least(PageSize, Len(data) - (i - 1) * PageSize)))),
                     p, e.next, -1)
        count == (Len(data) + PageSize - 1) \div PageSize
    IN FoldLeft(add, d, [i \in 1 .. count |-> i])

(* rl_multi_string_set *)
SetString(d, data) ==
    LET p == ListPage(d)
    IN AppendPages(AddElement(ListCreate(d), p, Len(data), -1), p, data)

(* Mutant: the last page is not filled. *)
AppendUnfilled(d, p, data) ==
    LET size == StringLength(d, p)
        a == RemoveElement(AddElement(d, p, size + Len(data), 0), p, 1)
    IN AppendPages(a, p, data)

(* rl_multi_string_append: the new length goes in before the old one, the  *)
(* last page is filled from where it is used up to, and the rest goes to   *)
(* new pages.                                                              *)
FillLast(d, p, data, used) ==
    LET copied == Least(PageSize - used, Len(data))
        last == GetElement(d, p, -1)
        filled == Save(d, last, Patched(Obj(d, last), used, Slice(data, 0, copied)))
    IN IF used = 0 THEN AppendPages(d, p, data)
       ELSE AppendPages(filled, p, Slice(data, copied, Len(data) - copied))
AppendString(d, p, data) ==
    LET size == StringLength(d, p)
    IN FillLast(RemoveElement(AddElement(d, p, size + Len(data), 0), p, 1), p, data,
                size % PageSize)

-----------------------------------------------------------------------------
(* rl_multi_string_setrange *)

(* The pages from the one that has the offset on are written over, as far  *)
(* as they go.  c.size is the length the string had, raised to where the   *)
(* bytes end within a page; the comparison is with the place in the page   *)
(* and not in the string.                                                  *)
Overwrite(d, p, data, offset, old) ==
    LET pages == StringPages(d, p)
        first == offset \div PageSize + 1
        over(c, i) ==
          LET start == IF i = first THEN offset % PageSize ELSE 0
              n == Least(PageSize - start, Len(c.data))
          IN IF c.data = <<>> THEN c
             ELSE [d |-> Save(c.d, pages[i],
                              Patched(Obj(c.d, pages[i]), start, Slice(c.data, 0, n))),
                   data |-> Slice(c.data, n, Len(c.data) - n),
                   offset |-> c.offset + n,
                   size |-> Greatest(c.size, n + start)]
    IN FoldLeft(over, [d |-> d, data |-> data, offset |-> offset, size |-> old],
                [i \in 1 .. Len(pages) - first + 1 |-> first + i - 1])

(* The length is raised first, up to what the pages hold. *)
RaiseLength(d, p, end) ==
    LET room == (Obj(d, p).size - 1) * PageSize
        size == Least(end, room)
    IN IF size <= StringLength(d, p) THEN d
       ELSE AddElement(RemoveElement(d, p, 0), p, size, 0)

(* What is then left is appended, after zeros if there is a gap. *)
SetRange(d, p, data, offset) ==
    LET old == StringLength(d, p)
        append(c) == IF c.size < c.offset \/ (c.size = c.offset /\ c.data # <<>>)
                       THEN AppendString(c.d, p, Zeros(c.offset - c.size) \o c.data)
                       ELSE c.d
    IN append(IF old <= offset
                THEN [d |-> d, data |-> data, offset |-> offset, size |-> old]
                ELSE Overwrite(RaiseLength(d, p, offset + Len(data)), p, data, offset, old))

-----------------------------------------------------------------------------
(* rl_multi_string_getrange and rl_multi_string_cpyrange *)

(* rl_normalize_string_range *)
NormalStart(size, start) ==
    Least(size, IF start < 0 THEN Greatest(start + size, 0) ELSE start)
NormalStop(size, stop) ==
    Least(size - 1, IF stop < 0 THEN Greatest(stop + size, 0) ELSE stop)

GetRange(d, p, start, stop) ==
    LET total == StringLength(d, p)
        from == NormalStart(total, start)
        size == NormalStop(total, stop) - from + 1
        pages == StringPages(d, p)
        first == from \div PageSize + 1
        copy(bytes, i) ==
          LET at == IF i = first THEN from % PageSize ELSE 0
          IN bytes \o Slice(Obj(d, pages[i]), at, Least(PageSize - at, size - Len(bytes)))
    IN IF total = 0 \/ size <= 0 THEN <<>>
       ELSE FoldLeft(copy, <<>>, [i \in 1 .. Len(pages) - first + 1 |-> first + i - 1])

(* rl_multi_string_get, rl_multi_string_cpy *)
Get(d, p) == GetRange(d, p, 0, -1)

(* rl_multi_string_sha1: the bytes that enter the digest.  As long as the  *)
(* size is 0 an element is taken for the size.                             *)
Digested(d, p) ==
    LET take(c, e) ==
          IF c.size = 0 THEN [c EXCEPT !.size = e]
          ELSE LET n == Least(c.size, PageSize)
               IN [size |-> c.size - n, bytes |-> c.bytes \o Slice(Obj(d, e), 0, n)]
    IN FoldLeft(take, [size |-> 0, bytes |-> <<>>], Flattened(d, p)).bytes

-----------------------------------------------------------------------------
(* memcmp *)
CompareBytes(a, b) ==
    LET differ == {i \in 1 .. Least(Len(a), Len(b)) : a[i] # b[i]}
        i == CHOOSE i \in differ : \A j \in differ : i <= j
    IN IF differ = {} THEN 0 ELSE IF a[i] < b[i] THEN -1 ELSE 1

(* rl_multi_string_cmp_str: page by page, then by the lengths *)
CompareString(d, p, str) ==
    LET pages == StringPages(d, p)
        len == Len(str)
        at(i) == (i - 1) * PageSize
        here(i) == LET chunk == Slice(str, at(i), Least(PageSize, len - at(i)))
                   IN CompareBytes(Obj(d, pages[i]), chunk)
        differ == {i \in DOMAIN pages : at(i) < len /\ here(i) # 0}
        stored == StringLength(d, p)
    IN IF differ # {} THEN here(CHOOSE i \in differ : \A j \in differ : i <= j)
       ELSE IF \E i \in DOMAIN pages : at(i) >= len THEN 1
       ELSE IF Len(pages) * PageSize < len THEN -1
       ELSE IF stored = len THEN 0 ELSE IF stored > len THEN 1 ELSE -1

-----------------------------------------------------------------------------
(* Mutant: the pages of the bytes stay. *)
DeleteStringList(d, p) == ListDelete(d, p)
(* rl_multi_string_delete: the pages of the bytes, the nodes, the list *)
DeleteString(d, p) == ListDelete(FoldLeft(Drop, d, StringPages(d, p)), p)

(* rl_multi_string_pages, and the string's own page *)
PagesOfString(d, p) == StringPages(d, p) \o ListPages(d, p)

=============================================================================
