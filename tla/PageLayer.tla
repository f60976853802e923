----------------------------- MODULE PageLayer -----------------------------
(***************************************************************************)
(* The page layer of rlite.c as operators.  A database handle (struct      *)
(* rlite) is a record d and the driver's storage (the file, or the memory  *)
(* driver's data) a function disk; each operator is one C function and     *)
(* returns the handle the function leaves behind.  Nothing here is a state *)
(* machine: Pager.tla drives these operators.                              *)
(*                                                                         *)
(* Fields of a handle: next, npages, dbs are next_empty_page,              *)
(* number_of_pages and databases[]; inext, inpages, idbs their "initial_"  *)
(* copies; rpages and wpages the read_pages and write_pages arrays, as     *)
(* functions from page numbers (the arrays are sorted and hold a page at   *)
(* most once); fp tells whether the file is open (and so locked); driver is *)
(* driver_type.                                                            *)
(***************************************************************************)
EXTENDS Naturals

CONSTANTS
    MaxPages,    \* bound on number_of_pages
    Databases,   \* the numbered databases, and the internal ones
    Values       \* what clients store in a page

ASSUME MaxPagesAssumption == MaxPages \in Nat \ {0}

Page == 0 .. MaxPages - 1
ClientPage == Page \ {0}

(* The contents of a page.  Page 0 is the header; in write_pages its obj is *)
(* NULL and what counts is that the page is there.                          *)
NoPage == [type |-> "none"]
HeaderMark == [type |-> "dirty header"]
Data(v) == [type |-> "data", val |-> v]
Long(n) == [type |-> "long", val |-> n]
HeaderOf(d) ==
    [type |-> "header", next |-> d.next, npages |-> d.npages, dbs |-> d.dbs]

EmptyCache == [p \in Page |-> NoPage]

Drivers == {"file", "memory"}

(* rl_create_db, on the handle rl_open has just built *)
CreateDb(driver) ==
    [driver |-> driver, fp |-> driver = "file",
     next   |-> 1, npages  |-> 1, dbs  |-> [i \in Databases |-> 0],
     inext  |-> 1, inpages |-> 1, idbs |-> [i \in Databases |-> 0],
     rpages |-> EmptyCache, wpages |-> EmptyCache]

(* rl_read_from_cache: the write cache is searched first. *)
Cached(d, p) == IF d.wpages[p] # NoPage THEN d.wpages[p] ELSE d.rpages[p]

(* What rl_read hands to its caller, and the handle it leaves. *)
Stored(d, disk, p) == IF Cached(d, p) # NoPage THEN Cached(d, p) ELSE disk[p]
RlRead(d, disk, p) ==
    IF Cached(d, p) # NoPage THEN d ELSE [d EXCEPT !.rpages[p] = disk[p]]

(* rl_alloc_page_number: grow the file, or take the head of the free list  *)
(* and follow the link stored in it.                                       *)
AllocPageNumber(d, disk) ==
    IF d.next = d.npages
      THEN [d EXCEPT !.next = @ + 1, !.npages = @ + 1]
      ELSE [RlRead(d, disk, d.next) EXCEPT !.next = Stored(d, disk, d.next).val]

(* rl_write: writing to next_empty_page is what allocates it, and the only *)
(* case in which the header is marked dirty.                               *)
Put(d, p, c) == [d EXCEPT !.wpages[p] = c, !.rpages[p] = NoPage]
RlWrite(d, disk, p, c) ==
    IF p = d.next
      THEN Put(Put(AllocPageNumber(d, disk), 0, HeaderMark), p, c)
      ELSE Put(d, p, c)

(* Mutants of rl_delete: the link to the old head is lost; 0 ends the list. *)
RlDeleteUnlinked(d, disk, p) ==
    [RlWrite(d, disk, p, Long(d.npages)) EXCEPT !.next = p]
RlDeleteZero(d, disk, p) ==
    [RlWrite(d, disk, p, Long(IF d.next = d.npages THEN 0 ELSE d.next)) EXCEPT !.next = p]

(* rl_delete: push the page on the free list; the header is not written. *)
RlDelete(d, disk, p) ==
    [RlWrite(d, disk, p, Long(d.next)) EXCEPT !.next = p]

(* rl_write_apply_wal without a failure: every dirty page reaches the     *)
(* storage, the header serialised from the handle's fields.                *)
Applied(d, disk) ==
    [p \in Page |-> IF d.wpages[p] = NoPage THEN disk[p]
                    ELSE IF p = 0 THEN HeaderOf(d) ELSE d.wpages[p]]

(* Mutants of rl_discard: the dirty pages, the number of pages or the        *)
(* databases survive it.                                                   *)
DiscardedDirty(d) ==
    [d EXCEPT !.next = d.inext, !.npages = d.inpages, !.dbs = d.idbs,
              !.rpages = EmptyCache, !.fp = FALSE]
DiscardedPages(d) ==
    [d EXCEPT !.next = d.inext, !.dbs = d.idbs,
              !.rpages = EmptyCache, !.wpages = EmptyCache, !.fp = FALSE]
DiscardedDbs(d) ==
    [d EXCEPT !.next = d.inext, !.npages = d.inpages,
              !.rpages = EmptyCache, !.wpages = EmptyCache, !.fp = FALSE]

(* rl_discard: close the file, empty both caches, restore the initial      *)
(* fields.                                                                 *)
Discarded(d) ==
    [d EXCEPT !.next = d.inext, !.npages = d.inpages, !.dbs = d.idbs,
              !.rpages = EmptyCache, !.wpages = EmptyCache, !.fp = FALSE]

(* rl_commit, after the storage has been written: the current fields       *)
(* become the initial ones, then rl_discard.                               *)
Committed(d) ==
    Discarded([d EXCEPT !.inext = d.next, !.inpages = d.npages, !.idbs = d.dbs])

(* rl_read_header of an existing file: rl_header_deserialize sets the      *)
(* fields and their initial copies, and page 0 enters the read cache.      *)
HeaderRead(h) ==
    [driver |-> "file", fp |-> TRUE,
     next   |-> h.next, npages  |-> h.npages, dbs  |-> h.dbs,
     inext  |-> h.next, inpages |-> h.npages, idbs |-> h.dbs,
     rpages |-> [EmptyCache EXCEPT ![0] = h], wpages |-> EmptyCache]

(* rl_read_header: a file without a header becomes a new database, and     *)
(* the header is dirty from the start.                                     *)
ReadHeader(disk) ==
    IF disk[0] = NoPage THEN RlWrite(CreateDb("file"), disk, 0, HeaderMark)
                        ELSE HeaderRead(disk[0])

(* rl_refresh: the file driver starts over from the file, the memory       *)
(* driver does nothing.                                                    *)
Refreshed(d, disk) == IF d.driver = "file" THEN ReadHeader(disk) ELSE d

=============================================================================
