----------------------------- MODULE MemoryPages -----------------------------
(***************************************************************************)
(* What the page_*.c structures share: the objects they keep in pages.     *)
(* All of them take their pages from one page layer, here the memory       *)
(* driver's, in one transaction: nothing has been committed, the storage   *)
(* is empty, every page is in the write cache, and an object is the        *)
(* contents of its page.                                                   *)
(***************************************************************************)
EXTENDS PageLayer, Sequences

NewDb == CreateDb("memory")

Obj(d, p) == d.wpages[p].val
Save(d, p, obj) == RlWrite(d, EmptyCache, p, Data(obj))
Drop(d, p) == RlDelete(d, EmptyCache, p)

(* The free list, as rl_is_balanced follows it, and how many pages there   *)
(* are to be taken before the bound is reached.                            *)
FreePages(d) ==
    LET list[n \in 1 .. MaxPages] ==
          IF n = d.npages THEN <<>> ELSE <<n>> \o list[Obj(d, n)]
    IN list[d.next]
Room(d) == Len(FreePages(d)) + MaxPages - d.npages

=============================================================================
