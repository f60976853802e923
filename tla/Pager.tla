------------------------------- MODULE Pager -------------------------------
(***************************************************************************)
(* One database handle and the transactions run through it: pages are      *)
(* created, rewritten and freed by the data structures built on the page   *)
(* layer, and a transaction ends in rl_commit or rl_discard.  With the     *)
(* file driver every transaction starts with rl_refresh, which is what     *)
(* rliteAppendCommandClient does before each command.                      *)
(*                                                                         *)
(* The client is any client: it may write any page it owns, in any order.  *)
(* What it owns is recorded in img, a history variable:                    *)
(*   img.pages[p]  the last contents the client stored in p, or NoPage;    *)
(*   img.depth[p]  0, or the place of p among the freed pages, counted     *)
(*                 from the page freed first;                              *)
(*   img.height    how many freed pages there are.                         *)
(* saved is the image the last commit left in the storage.                 *)
(***************************************************************************)
EXTENDS PageLayer

VARIABLES db, disk, img, saved
vars == <<db, disk, img, saved>>

EmptyImage ==
    [pages |-> EmptyCache, depth |-> [p \in Page |-> 0], height |-> 0]

Init ==
    /\ db \in {ReadHeader(EmptyCache), CreateDb("memory")}
    /\ disk = EmptyCache
    /\ img = EmptyImage
    /\ saved = EmptyImage

-----------------------------------------------------------------------------
(* The client's view of an allocation and of a deletion. *)
Taken(m, p, v) ==
    [m EXCEPT !.pages[p] = Data(v), !.depth[p] = 0,
              !.height = IF @ = 0 THEN 0 ELSE @ - 1]
Freed(m, p) ==
    [m EXCEPT !.pages[p] = NoPage, !.depth[p] = m.height + 1, !.height = @ + 1]

Roots(d) == {d.dbs[i] : i \in Databases} \ {0}
Live(p) == img.pages[p] # NoPage

(* The bound on the number of pages: there is a page for the client to take. *)
HasRoom(d) == d.next < MaxPages
InTransaction == db.driver = "memory" \/ db.fp

(* rl_string_create, rl_long_create and the node and list constructors:    *)
(* an rl_write to next_empty_page.                                         *)
Create(v) ==
    /\ InTransaction /\ HasRoom(db)
    /\ db' = RlWrite(db, disk, db.next, Data(v))
    /\ img' = Taken(img, db.next, v)
    /\ UNCHANGED <<disk, saved>>

(* rl_write of a page the client owns. *)
Update(p, v) ==
    /\ InTransaction /\ Live(p)
    /\ db' = RlWrite(db, disk, p, Data(v))
    /\ img' = [img EXCEPT !.pages[p] = Data(v)]
    /\ UNCHANGED <<disk, saved>>

(* rl_delete of a page the client owns, other than a tree's root page. *)
Free(p) ==
    /\ InTransaction /\ Live(p) /\ p \notin Roots(db)
    /\ db' = RlDelete(db, disk, p)
    /\ img' = Freed(img, p)
    /\ UNCHANGED <<disk, saved>>

(* rl_read with cache: the page enters the read cache. *)
Read(p) ==
    /\ InTransaction /\ Live(p)
    /\ db' = RlRead(db, disk, p)
    /\ UNCHANGED <<disk, img, saved>>

(* rl_get_key_btree with create: rl_btree_create takes a page for the root *)
(* node, and the tree's own page follows; databases[i] is set before it is *)
(* written.                                                                *)
CreateTree(i, v) ==
    LET d == RlWrite(db, disk, db.next, Data(v))
        r == [d EXCEPT !.dbs[i] = d.next]
    IN /\ InTransaction /\ HasRoom(db) /\ HasRoom(d)
       /\ db.dbs[i] = 0
       /\ db' = RlWrite(r, disk, r.next, Data(v))
       /\ img' = Taken(Taken(img, db.next, v), d.next, v)
       /\ UNCHANGED <<disk, saved>>

(* The end of rl_key_delete of a database's last key: the tree's page has  *)
(* been deleted and databases[i] is reset in memory only.                  *)
DropTree(i) ==
    LET p == db.dbs[i]
    IN /\ InTransaction /\ p # 0 /\ Live(p)
       /\ db' = [RlDelete(db, disk, p) EXCEPT !.dbs[i] = 0]
       /\ img' = Freed(img, p)
       /\ UNCHANGED <<disk, saved>>

(* The end of rl_flushdb: the same, and the header is written. *)
FlushTree(i) ==
    LET p == db.dbs[i]
        d == [RlDelete(db, disk, p) EXCEPT !.dbs[i] = 0]
    IN /\ InTransaction /\ p # 0 /\ Live(p)
       /\ db' = RlWrite(d, disk, 0, HeaderMark)
       /\ img' = Freed(img, p)
       /\ UNCHANGED <<disk, saved>>

(* rl_key_get_or_create of a new key: the value's page number is reserved  *)
(* first, a page is taken for the key (rl_key_set), and the caller writes  *)
(* the reserved page last.                                                 *)
CreateReserved(v, w) ==
    LET p == db.next
        d == AllocPageNumber(db, disk)
        e == RlWrite(d, disk, d.next, Data(w))
    IN /\ InTransaction /\ HasRoom(db) /\ HasRoom(d)
       /\ db' = RlWrite(e, disk, p, Data(v))
       /\ img' = Taken(Taken(img, p, v), d.next, w)
       /\ UNCHANGED <<disk, saved>>

(* rl_commit.  The free list the next transaction of a file handle will    *)
(* find is the one of the last header written.                             *)
Commit ==
    /\ InTransaction
    /\ disk' = Applied(db, disk)
    /\ db' = Committed(db)
    /\ saved' = IF db.driver = "memory" \/ db.wpages[0] # NoPage
                  THEN img ELSE [saved EXCEPT !.pages = img.pages]
    /\ UNCHANGED img

(* rl_discard by the library's user, or by rl_write when it fails. *)
Discard ==
    /\ InTransaction
    /\ db' = Discarded(db)
    /\ img' = saved
    /\ UNCHANGED <<disk, saved>>

(* rl_refresh at the start of a command, also over an open transaction. *)
Refresh ==
    /\ db' = Refreshed(db, disk)
    /\ img' = IF db.driver = "file" THEN saved ELSE img
    /\ UNCHANGED <<disk, saved>>

Next ==
    \/ \E v \in Values : Create(v)
    \/ \E p \in ClientPage, v \in Values : Update(p, v)
    \/ \E p \in ClientPage : Free(p)
    \/ \E p \in ClientPage : Read(p)
    \/ \E i \in Databases, v \in Values : CreateTree(i, v)
    \/ \E i \in Databases : DropTree(i)
    \/ \E i \in Databases : FlushTree(i)
    \/ \E v, w \in Values : CreateReserved(v, w)
    \/ Commit
    \/ Discard
    \/ Refresh

Spec == Init /\ [][Next]_vars

-----------------------------------------------------------------------------
PageContent ==
    {NoPage} \cup [type : {"data"}, val : Values]
             \cup [type : {"long"}, val : 1 .. MaxPages]
Header ==
    [type : {"header"}, next : 1 .. MaxPages, npages : 1 .. MaxPages,
     dbs : [Databases -> Page]]
Cache == [Page -> PageContent \cup {HeaderMark} \cup Header]
Handle ==
    [driver : Drivers, fp : BOOLEAN,
     next   : 1 .. MaxPages, npages  : 1 .. MaxPages, dbs  : [Databases -> Page],
     inext  : 1 .. MaxPages, inpages : 1 .. MaxPages, idbs : [Databases -> Page],
     rpages : Cache, wpages : Cache]
Image == [pages : [Page -> PageContent], depth : [Page -> Nat], height : Nat]

(* Every variable keeps its type: no page number runs past the file, and   *)
(* what is read as a link is a page number.                                *)
TypeOK ==
    /\ db \in Handle
    /\ disk \in Cache
    /\ img \in Image
    /\ saved \in Image

(* What rl_read returns for every page. *)
Contents(d, dk) == [p \in Page |-> Stored(d, dk, p)]

(* The pages of image m have the contents c. *)
Holds(m, c) ==
    \A p \in ClientPage : m.pages[p] # NoPage => c[p] = m.pages[p]

(* With the page contents c, the list that starts at page n visits the     *)
(* freed pages of image m last in first out, and ends at page end.         *)
IsFreeList(m, c, n, end) ==
    /\ \A p, q \in ClientPage :
          m.depth[p] # 0 /\ m.depth[p] = m.depth[q] => p = q
    /\ \A p \in ClientPage : m.depth[p] <= m.height
    /\ IF m.height = 0 THEN n = end
                       ELSE n \in ClientPage /\ m.depth[n] = m.height
    /\ \A p \in ClientPage :
          m.depth[p] # 0 =>
             /\ c[p].type = "long"
             /\ IF m.depth[p] = 1
                  THEN c[p].val = end
                  ELSE /\ c[p].val \in ClientPage
                       /\ m.depth[c[p].val] = m.depth[p] - 1

(* Free and live pages are disjoint, and all of them come before end. *)
Disjoint(m, end) ==
    \A p \in ClientPage :
       /\ m.depth[p] # 0 => m.pages[p] = NoPage
       /\ m.depth[p] # 0 \/ m.pages[p] # NoPage => p < end

(* A page reads back as what its owner last stored in it, whichever of the *)
(* write cache, the read cache and the storage rl_read finds it in, and    *)
(* after any sequence of commits, discards and refreshes.                  *)
ReadBack == Holds(img, Contents(db, disk))

(* The list of empty pages that rl_alloc_page_number walks holds pages     *)
(* that were freed and nothing else, each once, and never a live page: a   *)
(* page is not handed out twice.                                           *)
FreeList ==
    InTransaction => /\ IsFreeList(img, Contents(db, disk), db.next, db.npages)
                     /\ Disjoint(img, db.npages)

(* rl_is_balanced's check: every page is in use or on the list of empty    *)
(* pages ("Found orphan page").  Only the memory driver keeps it: its      *)
(* rl_refresh does not read the header back.                               *)
NoOrphan ==
    db.driver = "memory" =>
       \A p \in ClientPage : p < db.npages => Live(p) \/ img.depth[p] # 0

(* rl_is_balanced reads every tree that databases[] names: with the memory *)
(* driver the page a database's entry names is a live page.                *)
RootLive ==
    db.driver = "memory" => \A i \in Databases : db.dbs[i] # 0 => Live(db.dbs[i])

-----------------------------------------------------------------------------
(* The inductive invariant.                                                 *)

(* A page in the read cache that is not dirty is a copy of the stored one. *)
Coherent(d, dk) ==
    \A p \in Page :
       d.wpages[p] = NoPage /\ d.rpages[p] # NoPage => d.rpages[p] = dk[p]

(* A handle d over the storage dk represents the image m. *)
Represents(d, dk, m) ==
    /\ Coherent(d, dk)
    /\ Holds(m, Contents(d, dk))
    /\ IsFreeList(m, Contents(d, dk), d.next, d.npages)
    /\ Disjoint(m, d.npages)

(* The storage alone represents m, for whoever starts from next and npages. *)
Keeps(dk, m, next, npages) ==
    /\ Holds(m, dk)
    /\ IsFreeList(m, dk, next, npages)
    /\ Disjoint(m, npages)

(* What Discard and Refresh return to. *)
SavedOK ==
    /\ InTransaction => Keeps(disk, saved, db.inext, db.inpages)
    /\ db.driver = "file" =>
          IF disk[0] = NoPage
            THEN /\ saved = EmptyImage
                 /\ InTransaction => /\ db.inext = 1 /\ db.inpages = 1
                                     /\ db.wpages[0] # NoPage
            ELSE /\ disk[0] \in Header
                 /\ Keeps(disk, saved, disk[0].next, disk[0].npages)
                 /\ InTransaction => /\ db.inext = disk[0].next
                                     /\ db.inpages = disk[0].npages

(* While the header is clean nothing has been allocated: the free list the *)
(* stored header starts is intact, in the storage and in the cache.        *)
CleanHeader ==
    db.driver = "file" /\ InTransaction /\ db.wpages[0] = NoPage =>
       /\ db.npages = db.inpages
       /\ \A p \in ClientPage :
             saved.depth[p] # 0 => db.wpages[p] = NoPage /\ img.pages[p] = NoPage

IInv ==
    /\ TypeOK
    /\ ReadBack
    /\ InTransaction => Represents(db, disk, img)
    /\ SavedOK
    /\ CleanHeader

(* The part that only the memory driver keeps. *)
Balanced(m, dbs, npages) ==
    /\ \A p \in ClientPage : p < npages => m.pages[p] # NoPage \/ m.depth[p] # 0
    /\ \A i \in Databases : dbs[i] # 0 => m.pages[dbs[i]] # NoPage
    /\ \A i, j \in Databases : dbs[i] # 0 /\ dbs[i] = dbs[j] => i = j
MemoryInv ==
    db.driver = "memory" => /\ Balanced(img, db.dbs, db.npages)
                            /\ Balanced(saved, db.idbs, db.inpages)

=============================================================================
