---------------------------- MODULE PagerProofs ----------------------------
(***************************************************************************)
(* Proofs about Pager: for every driver, number of pages, set of databases *)
(* and set of values, the variables keep their types, every page reads     *)
(* back, and the free list holds exactly the freed pages.                  *)
(*                                                                         *)
(* The first lemmas are about the operators of PageLayer: each says what a *)
(* C function does to the image a handle represents.  The invariance proof *)
(* then has one step per action.                                           *)
(***************************************************************************)
EXTENDS Pager, TLAPS

(* Put changes the two caches and nothing else. *)
LEMMA PutFrame ==
  ASSUME NEW d \in Handle, NEW p \in Page, NEW c \in PageContent \cup {HeaderMark}
  PROVE  LET e == Put(d, p, c)
         IN /\ e \in Handle
            /\ e.next = d.next /\ e.npages = d.npages /\ e.dbs = d.dbs
            /\ e.inext = d.inext /\ e.inpages = d.inpages /\ e.idbs = d.idbs
            /\ e.fp = d.fp /\ e.driver = d.driver
            /\ \A q \in Page : /\ e.wpages[q] = IF q = p THEN c ELSE d.wpages[q]
                              /\ e.rpages[q] = IF q = p THEN NoPage ELSE d.rpages[q]
  BY DEF Put, Handle, Cache, PageContent, NoPage, HeaderMark

(* What is stored after Put: the new contents in p, the old ones elsewhere. *)
LEMMA PutContents ==
  ASSUME NEW d \in Handle, NEW dk \in Cache, NEW p \in Page,
         NEW c \in (PageContent \cup {HeaderMark}) \ {NoPage},
         Coherent(d, dk)
  PROVE  /\ Contents(Put(d, p, c), dk) = [Contents(d, dk) EXCEPT ![p] = c]
         /\ Coherent(Put(d, p, c), dk)
<1> DEFINE e == Put(d, p, c)
<1>1. \A q \in Page : /\ e.wpages[q] = IF q = p THEN c ELSE d.wpages[q]
                      /\ e.rpages[q] = IF q = p THEN NoPage ELSE d.rpages[q]
  BY PutFrame
<1>2. d.wpages \in Cache /\ d.rpages \in Cache
  BY DEF Handle
<1> HIDE DEF e
<1>3. \A q \in Page : Stored(e, dk, q) = IF q = p THEN c ELSE Stored(d, dk, q)
  BY <1>1, <1>2 DEF Stored, Cached, Cache
<1>4. Contents(e, dk) = [Contents(d, dk) EXCEPT ![p] = c]
  BY <1>3 DEF Contents
<1>5. Coherent(e, dk)
  BY <1>1, <1>2 DEF Coherent, Cache
<1> QED BY <1>4, <1>5 DEF e

(* Marking the header dirty does not change what a handle represents. *)
LEMMA PutHeader ==
  ASSUME NEW d \in Handle, NEW dk \in Cache, NEW m \in Image,
         Represents(d, dk, m)
  PROVE  Represents(Put(d, 0, HeaderMark), dk, m)
<1> DEFINE e == Put(d, 0, HeaderMark)
<1>0. 0 \in Page
  BY MaxPagesAssumption DEF Page
<1>1. /\ Contents(e, dk) = [Contents(d, dk) EXCEPT ![0] = HeaderMark]
      /\ Coherent(e, dk)
  BY <1>0, PutContents DEF Represents, HeaderMark, NoPage, PageContent
<1>2. e.next = d.next /\ e.npages = d.npages
  BY DEF Put, Handle
<1>3. \A p \in ClientPage : Contents(e, dk)[p] = Contents(d, dk)[p]
  BY <1>1 DEF ClientPage, Contents, Page
<1> HIDE DEF e
<1> QED BY <1>1, <1>2, <1>3 DEF Represents, Holds, IsFreeList, e

(* Writing a page that is not on the free list. *)
LEMMA PutData ==
  ASSUME NEW d \in Handle, NEW dk \in Cache, NEW m \in Image,
         Represents(d, dk, m),
         NEW p \in ClientPage, NEW v \in Values,
         m.depth[p] = 0, p < d.npages
  PROVE  LET n == [m EXCEPT !.pages[p] = Data(v)]
         IN n \in Image /\ Represents(Put(d, p, Data(v)), dk, n)
<1> DEFINE e == Put(d, p, Data(v))
           n == [m EXCEPT !.pages[p] = Data(v)]
<1>0. p \in Page /\ Data(v) \in PageContent \ {NoPage}
  BY DEF ClientPage, Data, PageContent, NoPage
<1>1. Contents(e, dk) = [Contents(d, dk) EXCEPT ![p] = Data(v)] /\ Coherent(e, dk)
  BY <1>0, PutContents DEF Represents
<1>2. e.next = d.next /\ e.npages = d.npages
  BY DEF Put, Handle
<1>3. /\ n.depth = m.depth /\ n.height = m.height
      /\ n.pages = [m.pages EXCEPT ![p] = Data(v)]
      /\ n \in Image
  BY <1>0 DEF Image
<1>4. \A q \in ClientPage : Contents(e, dk)[q] = IF q = p THEN Data(v) ELSE Contents(d, dk)[q]
  BY <1>1 DEF Contents, ClientPage
<1>5. \A q \in ClientPage : n.pages[q] = IF q = p THEN Data(v) ELSE m.pages[q]
  BY <1>3 DEF Image, ClientPage
<1> HIDE DEF e, n
<1>6. Holds(n, Contents(e, dk))
  BY <1>4, <1>5 DEF Represents, Holds
<1>7. IsFreeList(n, Contents(e, dk), e.next, e.npages)
  BY <1>2, <1>3, <1>4 DEF Represents, IsFreeList
<1>8. Disjoint(n, e.npages)
  BY <1>2, <1>3, <1>5 DEF Represents, Disjoint
<1> QED BY <1>1, <1>3, <1>6, <1>7, <1>8 DEF Represents, e, n

(* Filling the read cache does not change what is stored. *)
LEMMA ReadFrame ==
  ASSUME NEW d \in Handle, NEW dk \in Cache, NEW p \in Page, Coherent(d, dk)
  PROVE  LET e == RlRead(d, dk, p)
         IN /\ e \in Handle
            /\ e.next = d.next /\ e.npages = d.npages /\ e.dbs = d.dbs
            /\ e.inext = d.inext /\ e.inpages = d.inpages /\ e.idbs = d.idbs
            /\ e.fp = d.fp /\ e.driver = d.driver /\ e.wpages = d.wpages
            /\ Contents(e, dk) = Contents(d, dk)
            /\ Coherent(e, dk)
<1> DEFINE e == RlRead(d, dk, p)
<1>1. CASE Cached(d, p) # NoPage
  BY <1>1 DEF RlRead
<1>2. CASE Cached(d, p) = NoPage
  <2>1. /\ e \in Handle
        /\ e.next = d.next /\ e.npages = d.npages /\ e.dbs = d.dbs
        /\ e.inext = d.inext /\ e.inpages = d.inpages /\ e.idbs = d.idbs
        /\ e.fp = d.fp /\ e.driver = d.driver /\ e.wpages = d.wpages
        /\ e.rpages = [d.rpages EXCEPT ![p] = dk[p]]
    BY <1>2 DEF RlRead, Handle, Cache
  <2>2. d.wpages \in Cache /\ d.rpages \in Cache
    BY DEF Handle
  <2> HIDE DEF e
  <2>3. \A q \in Page : Stored(e, dk, q) = Stored(d, dk, q)
    BY <1>2, <2>1, <2>2 DEF Stored, Cached, Cache
  <2>4. Contents(e, dk) = Contents(d, dk)
    BY <2>3 DEF Contents
  <2>5. Coherent(e, dk)
    BY <2>1, <2>2 DEF Coherent, Cache
  <2> QED BY <2>1, <2>4, <2>5 DEF e
<1> QED BY <1>1, <1>2

(* The image of a handle whose free list has lost its first page p. *)
Popped(m, p) ==
    [m EXCEPT !.depth[p] = 0, !.height = IF @ = 0 THEN 0 ELSE @ - 1]

(* rl_alloc_page_number hands out a page that is neither live nor free any *)
(* more, and leaves the rest of the free list.                             *)
LEMMA Alloc ==
  ASSUME NEW d \in Handle, NEW dk \in Cache, NEW m \in Image,
         Represents(d, dk, m), HasRoom(d)
  PROVE  LET p == d.next
             e == AllocPageNumber(d, dk)
             n == Popped(m, p)
         IN /\ p \in ClientPage /\ m.pages[p] = NoPage
            /\ e \in Handle /\ n \in Image
            /\ Represents(e, dk, n)
            /\ n.depth[p] = 0 /\ p < e.npages /\ p # e.next
            /\ n.pages = m.pages
            /\ e.dbs = d.dbs /\ e.fp = d.fp /\ e.driver = d.driver /\ e.wpages = d.wpages
            /\ e.inext = d.inext /\ e.inpages = d.inpages /\ e.idbs = d.idbs
<1> DEFINE p == d.next
           e == AllocPageNumber(d, dk)
           n == Popped(m, p)
           c == Contents(d, dk)
<1>1. d.next \in 1 .. MaxPages /\ d.npages \in 1 .. MaxPages /\ p \in ClientPage
      /\ MaxPages \in Nat
  BY MaxPagesAssumption DEF Handle, HasRoom, ClientPage, Page
<1>2. /\ n \in Image
      /\ n.pages = m.pages
      /\ n.depth = [m.depth EXCEPT ![p] = 0]
      /\ n.height = IF m.height = 0 THEN 0 ELSE m.height - 1
      /\ m.height \in Nat
      /\ \A q \in ClientPage : m.depth[q] \in Nat
      /\ \A q \in ClientPage : n.depth[q] = IF q = p THEN 0 ELSE m.depth[q]
  <2> DEFINE h == IF m.height = 0 THEN 0 ELSE m.height - 1
             f == [m.depth EXCEPT ![p] = 0]
  <2>1. /\ m.height \in Nat /\ h \in Nat /\ m.depth \in [Page -> Nat]
        /\ m.pages \in [Page -> PageContent]
    BY DEF Image
  <2>2. f \in [Page -> Nat]
    BY <2>1
  <2>3. n = [m EXCEPT !.depth = f, !.height = h]
    BY DEF Popped, Image
  <2> HIDE DEF n, h, f
  <2>4. n \in Image /\ n.pages = m.pages /\ n.depth = f /\ n.height = h
    BY <2>1, <2>2, <2>3 DEF Image
  <2> QED BY <2>1, <2>4 DEF ClientPage, h, f
<1>3. m.pages[p] = NoPage
  BY <1>1, <1>2 DEF Represents, IsFreeList, Disjoint
<1>4. CASE d.next = d.npages
  <2>1. m.height = 0
    BY <1>1, <1>2, <1>4 DEF Represents, IsFreeList, Disjoint
  <2>2. /\ e \in Handle /\ e.next = d.next + 1 /\ e.npages = d.npages + 1
        /\ e.dbs = d.dbs /\ e.fp = d.fp /\ e.driver = d.driver /\ e.wpages = d.wpages
        /\ e.inext = d.inext /\ e.inpages = d.inpages /\ e.idbs = d.idbs
        /\ e.rpages = d.rpages
    <3>1. e = [d EXCEPT !.next = d.next + 1, !.npages = d.npages + 1]
      BY <1>4 DEF AllocPageNumber
    <3>2. d.next + 1 \in 1 .. MaxPages /\ d.npages + 1 \in 1 .. MaxPages
      BY <1>1, <1>4 DEF HasRoom
    <3> HIDE DEF e
    <3> QED BY <3>1, <3>2 DEF Handle
  <2> HIDE DEF e, n
  <2>3. Contents(e, dk) = c /\ Coherent(e, dk)
    BY <2>2 DEF Contents, Stored, Cached, Represents, Coherent
  <2>4. \A q \in ClientPage : m.depth[q] = 0
    BY <1>2, <2>1 DEF Represents, IsFreeList
  <2>5. Holds(n, c)
    BY <1>2 DEF Represents, Holds
  <2>6. IsFreeList(n, c, e.next, e.npages)
    BY <1>1, <1>2, <1>4, <2>1, <2>2, <2>4 DEF IsFreeList
  <2>7. Disjoint(n, e.npages)
    BY <1>1, <1>2, <2>2, <2>4 DEF Represents, Disjoint, ClientPage, Page
  <2>8. Represents(e, dk, n)
    BY <2>3, <2>5, <2>6, <2>7 DEF Represents
  <2>9. n.depth[p] = 0 /\ p < e.npages /\ p # e.next
    BY <1>1, <1>2, <1>4, <2>2
  <2> QED BY <1>1, <1>2, <1>3, <2>2, <2>8, <2>9 DEF e, n
<1>5. CASE d.next # d.npages
  <2> DEFINE r == RlRead(d, dk, p)
  <2>1. m.height > 0 /\ m.depth[p] = m.height
    BY <1>1, <1>2, <1>5 DEF Represents, IsFreeList
  <2>2. /\ c[p].type = "long"
        /\ IF m.height = 1
             THEN c[p].val = d.npages
             ELSE c[p].val \in ClientPage /\ m.depth[c[p].val] = m.height - 1
    BY <1>1, <1>2, <2>1 DEF Represents, IsFreeList
  <2>3. c[p] = Stored(d, dk, p) /\ p \in Page
    BY <1>1 DEF Contents, ClientPage
  <2>4. c[p].val \in 1 .. MaxPages
    BY <1>1, <2>2 DEF ClientPage, Page
  <2>5. /\ r \in Handle
        /\ r.next = d.next /\ r.npages = d.npages /\ r.dbs = d.dbs
        /\ r.inext = d.inext /\ r.inpages = d.inpages /\ r.idbs = d.idbs
        /\ r.fp = d.fp /\ r.driver = d.driver /\ r.wpages = d.wpages
        /\ Contents(r, dk) = Contents(d, dk)
        /\ Coherent(r, dk)
    BY <2>3, ReadFrame DEF Represents
  <2>6. e = [r EXCEPT !.next = c[p].val]
    BY <1>5, <2>3 DEF AllocPageNumber
  <2> HIDE DEF r, e
  <2>7. /\ e \in Handle /\ e.next = c[p].val /\ e.npages = d.npages
        /\ e.dbs = d.dbs /\ e.fp = d.fp /\ e.driver = d.driver /\ e.wpages = d.wpages
        /\ e.inext = d.inext /\ e.inpages = d.inpages /\ e.idbs = d.idbs
        /\ e.rpages = r.rpages
    BY <2>4, <2>5, <2>6 DEF Handle
  <2>8. Contents(e, dk) = c /\ Coherent(e, dk)
    BY <2>5, <2>7 DEF Contents, Stored, Cached, Coherent
  <2> HIDE DEF n, c
  <2>9. Holds(n, c)
    BY <1>2 DEF Represents, Holds, c
  <2>10. Disjoint(n, e.npages)
    BY <1>2, <2>7 DEF Represents, Disjoint
  <2>11. p < e.npages /\ p # e.next /\ n.depth[p] = 0
    BY <1>1, <1>2, <2>1, <2>2, <2>7 DEF Represents, Disjoint
  <2>12. IsFreeList(n, c, e.next, e.npages)
    <3>1. IsFreeList(m, c, d.next, d.npages)
      BY DEF Represents, c
    <3>2. \A q \in ClientPage : n.depth[q] # 0 => q # p /\ m.depth[q] = n.depth[q]
      BY <1>2
    <3>3. \A q, s \in ClientPage : n.depth[q] # 0 /\ n.depth[q] = n.depth[s] => q = s
      BY <3>1, <3>2 DEF IsFreeList
    <3>4. \A q \in ClientPage : n.depth[q] <= n.height
      <4> SUFFICES ASSUME NEW q \in ClientPage, n.depth[q] # 0
                   PROVE  n.depth[q] <= n.height
        BY <1>2
      <4>1. m.depth[q] <= m.height /\ m.depth[q] # m.height
        BY <1>1, <2>1, <3>1, <3>2 DEF IsFreeList
      <4> QED BY <1>2, <2>1, <3>2, <4>1
    <3>5. IF n.height = 0 THEN e.next = e.npages
                          ELSE e.next \in ClientPage /\ n.depth[e.next] = n.height
      BY <1>2, <2>1, <2>2, <2>7, <2>11
    <3>6. ASSUME NEW q \in ClientPage, n.depth[q] # 0
          PROVE  /\ c[q].type = "long"
                 /\ IF n.depth[q] = 1
                      THEN c[q].val = e.npages
                      ELSE /\ c[q].val \in ClientPage
                           /\ n.depth[c[q].val] = n.depth[q] - 1
      <4>1. m.depth[q] = n.depth[q] /\ m.depth[q] <= m.height /\ q # p
        BY <3>1, <3>2, <3>6 DEF IsFreeList
      <4>2. /\ c[q].type = "long"
            /\ IF m.depth[q] = 1
                 THEN c[q].val = d.npages
                 ELSE c[q].val \in ClientPage /\ m.depth[c[q].val] = m.depth[q] - 1
        BY <3>1, <3>6, <4>1 DEF IsFreeList
      <4>3. m.depth[q] # 1 => c[q].val # p
        BY <1>2, <2>1, <4>1, <4>2
      <4> QED BY <1>2, <2>7, <4>1, <4>2, <4>3
    <3> QED BY <3>3, <3>4, <3>5, <3>6 DEF IsFreeList
  <2>13. Represents(e, dk, n)
    BY <2>8, <2>9, <2>10, <2>12 DEF Represents
  <2> QED BY <1>1, <1>2, <1>3, <2>7, <2>11, <2>13 DEF e, n
<1> QED BY <1>4, <1>5

(* The fields that only rl_commit, rl_discard and rl_refresh change. *)
SameInitial(e, d) ==
    /\ e.inext = d.inext /\ e.inpages = d.inpages /\ e.idbs = d.idbs
    /\ e.fp = d.fp /\ e.driver = d.driver

(* rl_write to next_empty_page takes that page and marks the header dirty. *)
LEMMA WriteNew ==
  ASSUME NEW d \in Handle, NEW dk \in Cache, NEW m \in Image,
         Represents(d, dk, m), HasRoom(d), NEW v \in Values
  PROVE  LET p == d.next
             e == RlWrite(d, dk, p, Data(v))
         IN /\ p \in ClientPage /\ m.pages[p] = NoPage
            /\ e \in Handle /\ Taken(m, p, v) \in Image
            /\ Represents(e, dk, Taken(m, p, v))
            /\ e.dbs = d.dbs /\ SameInitial(e, d) /\ e.wpages[0] # NoPage
<1> DEFINE p == d.next
           a == AllocPageNumber(d, dk)
           h == Put(a, 0, HeaderMark)
           e == Put(h, p, Data(v))
           n == Popped(m, p)
<1>1. /\ p \in ClientPage /\ m.pages[p] = NoPage
      /\ a \in Handle /\ n \in Image
      /\ Represents(a, dk, n)
      /\ n.depth[p] = 0 /\ p < a.npages
      /\ a.dbs = d.dbs /\ SameInitial(a, d)
  BY Alloc DEF SameInitial
<1>2. RlWrite(d, dk, p, Data(v)) = e
  BY DEF RlWrite
<1>3. /\ 0 \in Page /\ p \in Page /\ p # 0
      /\ Data(v) \in PageContent \cup {HeaderMark}
      /\ HeaderMark \in PageContent \cup {HeaderMark}
  BY <1>1, MaxPagesAssumption DEF Page, ClientPage, Data, PageContent
<1> HIDE DEF a, n
<1>4. Represents(h, dk, n)
  BY <1>1, PutHeader
<1>5. /\ h \in Handle /\ h.npages = a.npages /\ h.dbs = a.dbs /\ SameInitial(h, a)
      /\ h.wpages[0] = HeaderMark
  BY <1>1, <1>3, PutFrame DEF SameInitial
<1> HIDE DEF h
<1>6. /\ e \in Handle /\ e.dbs = h.dbs /\ SameInitial(e, h)
      /\ e.wpages[0] = h.wpages[0]
  BY <1>3, <1>5, PutFrame DEF SameInitial
<1>7. LET k == [n EXCEPT !.pages[p] = Data(v)]
      IN k \in Image /\ Represents(e, dk, k)
  BY <1>1, <1>4, <1>5, PutData
<1>8. [n EXCEPT !.pages[p] = Data(v)] = Taken(m, p, v)
  <2>1. m = [pages |-> m.pages, depth |-> m.depth, height |-> m.height]
    BY DEF Image
  <2> QED BY <2>1 DEF n, Popped, Taken
<1> HIDE DEF e
<1>9. e.wpages[0] # NoPage
  <2>1. HeaderMark # NoPage
    BY DEF HeaderMark, NoPage
  <2> QED BY <1>5, <1>6, <2>1
<1> QED BY <1>1, <1>2, <1>5, <1>6, <1>7, <1>8, <1>9 DEF SameInitial, e

(* A live page is not the one rl_alloc_page_number hands out next. *)
LEMMA LiveNotNext ==
  ASSUME NEW d \in Handle, NEW dk \in Cache, NEW m \in Image,
         Represents(d, dk, m), NEW p \in ClientPage, m.pages[p] # NoPage
  PROVE  p # d.next /\ m.depth[p] = 0 /\ p < d.npages
  BY DEF Represents, IsFreeList, Disjoint, Handle, ClientPage, Page

(* rl_write of a live page allocates nothing. *)
LEMMA WriteLive ==
  ASSUME NEW d \in Handle, NEW dk \in Cache, NEW m \in Image,
         Represents(d, dk, m), NEW p \in ClientPage, m.pages[p] # NoPage,
         NEW v \in Values
  PROVE  LET e == RlWrite(d, dk, p, Data(v))
             n == [m EXCEPT !.pages[p] = Data(v)]
         IN /\ e = Put(d, p, Data(v))
            /\ e \in Handle /\ n \in Image
            /\ Represents(e, dk, n)
<1>1. p # d.next /\ m.depth[p] = 0 /\ p < d.npages
  BY LiveNotNext
<1>2. RlWrite(d, dk, p, Data(v)) = Put(d, p, Data(v))
  BY <1>1 DEF RlWrite
<1>3. p \in Page /\ Data(v) \in PageContent
  BY DEF ClientPage, Data, PageContent
<1>4. Put(d, p, Data(v)) \in Handle
  BY <1>3, PutFrame
<1>5. LET n == [m EXCEPT !.pages[p] = Data(v)]
      IN n \in Image /\ Represents(Put(d, p, Data(v)), dk, n)
  BY <1>1, PutData
<1> QED BY <1>2, <1>4, <1>5

(* rl_delete pushes a live page on the free list. *)
LEMMA Delete ==
  ASSUME NEW d \in Handle, NEW dk \in Cache, NEW m \in Image,
         Represents(d, dk, m), NEW p \in ClientPage, m.pages[p] # NoPage
  PROVE  LET e == RlDelete(d, dk, p)
             n == Freed(m, p)
         IN /\ e \in Handle /\ n \in Image
            /\ Represents(e, dk, n)
            /\ e.dbs = d.dbs /\ e.npages = d.npages /\ SameInitial(e, d)
            /\ \A q \in Page :
                  e.wpages[q] = IF q = p THEN Long(d.next) ELSE d.wpages[q]
<1> DEFINE w == Put(d, p, Long(d.next))
           e == RlDelete(d, dk, p)
           n == Freed(m, p)
           c == Contents(d, dk)
<1>1. p # d.next /\ m.depth[p] = 0 /\ p < d.npages
  BY LiveNotNext
<1>2. e = [w EXCEPT !.next = p]
  BY <1>1 DEF RlDelete, RlWrite
<1>3. /\ p \in Page /\ p \in 1 .. MaxPages /\ d.next \in 1 .. MaxPages
      /\ d.npages \in 1 .. MaxPages /\ MaxPages \in Nat
      /\ Long(d.next) \in PageContent \ {NoPage}
      /\ Long(d.next) \in PageContent \cup {HeaderMark}
  BY MaxPagesAssumption DEF ClientPage, Page, Long, PageContent, NoPage, Handle
<1>4. /\ w \in Handle /\ w.npages = d.npages /\ w.dbs = d.dbs /\ SameInitial(w, d)
      /\ \A q \in Page :
            w.wpages[q] = IF q = p THEN Long(d.next) ELSE d.wpages[q]
  BY <1>3, PutFrame DEF SameInitial
<1>5. Contents(w, dk) = [c EXCEPT ![p] = Long(d.next)] /\ Coherent(w, dk)
  BY <1>3, PutContents DEF Represents
<1> HIDE DEF w, e
<1>6. /\ e \in Handle /\ e.next = p /\ e.rpages = w.rpages
      /\ e.npages = d.npages /\ e.dbs = d.dbs /\ SameInitial(e, d)
      /\ e.wpages = w.wpages
  BY <1>2, <1>3, <1>4 DEF Handle, SameInitial
<1>7. Contents(e, dk) = [c EXCEPT ![p] = Long(d.next)] /\ Coherent(e, dk)
  BY <1>5, <1>6 DEF Contents, Stored, Cached, Coherent
<1>8. \A q \in ClientPage :
        Contents(e, dk)[q] = IF q = p THEN Long(d.next) ELSE c[q]
  BY <1>7 DEF Contents, ClientPage
<1>9. /\ n \in Image /\ n.height = m.height + 1 /\ m.height \in Nat
      /\ \A q \in ClientPage :
            /\ n.pages[q] = IF q = p THEN NoPage ELSE m.pages[q]
            /\ n.depth[q] = IF q = p THEN m.height + 1 ELSE m.depth[q]
            /\ m.depth[q] \in Nat
  <2>1. m.height \in Nat /\ m.depth \in [Page -> Nat] /\ m.pages \in [Page -> PageContent]
    BY DEF Image
  <2>2. n = [pages |-> [m.pages EXCEPT ![p] = NoPage],
             depth |-> [m.depth EXCEPT ![p] = m.height + 1],
             height |-> m.height + 1]
    <3> DEFINE f == [m.pages EXCEPT ![p] = NoPage]
               g == [m.depth EXCEPT ![p] = m.height + 1]
               h == m.height + 1
    <3>1. n = [m EXCEPT !.pages = f, !.depth = g, !.height = h]
      BY DEF Freed, Image
    <3> HIDE DEF f, g, h, n
    <3>2. n = [pages |-> f, depth |-> g, height |-> h]
      BY <3>1 DEF Image
    <3> QED BY <3>2 DEF f, g, h
  <2> HIDE DEF n
  <2> QED BY <1>3, <2>1, <2>2 DEF Image, ClientPage, PageContent
<1> HIDE DEF n, c
<1>10. IsFreeList(m, c, d.next, d.npages) /\ Disjoint(m, d.npages) /\ Holds(m, c)
  BY DEF Represents, c
<1>11. Holds(n, Contents(e, dk))
  BY <1>8, <1>9, <1>10 DEF Holds
<1>12. Disjoint(n, e.npages)
  BY <1>1, <1>6, <1>9, <1>10 DEF Disjoint
<1>13. IsFreeList(n, Contents(e, dk), e.next, e.npages)
  <2>1. \A q, s \in ClientPage : n.depth[q] # 0 /\ n.depth[q] = n.depth[s] => q = s
    BY <1>9, <1>10 DEF IsFreeList
  <2>2. \A q \in ClientPage : n.depth[q] <= n.height
    BY <1>9, <1>10 DEF IsFreeList
  <2>3. IF n.height = 0 THEN e.next = e.npages
                        ELSE e.next \in ClientPage /\ n.depth[e.next] = n.height
    BY <1>6, <1>9
  <2>4. ASSUME NEW q \in ClientPage, n.depth[q] # 0
        PROVE  /\ Contents(e, dk)[q].type = "long"
               /\ IF n.depth[q] = 1
                    THEN Contents(e, dk)[q].val = e.npages
                    ELSE /\ Contents(e, dk)[q].val \in ClientPage
                         /\ n.depth[Contents(e, dk)[q].val] = n.depth[q] - 1
    <3>1. CASE q = p
      <4>1. /\ Contents(e, dk)[q].type = "long"
            /\ Contents(e, dk)[q].val = d.next /\ n.depth[q] = m.height + 1
        BY <1>8, <1>9, <3>1 DEF Long
      <4>2. m.height = 0 => d.next = d.npages
        BY <1>10 DEF IsFreeList
      <4>3. m.height # 0 => d.next \in ClientPage /\ m.depth[d.next] = m.height
        BY <1>10 DEF IsFreeList
      <4> QED BY <1>1, <1>6, <1>9, <4>1, <4>2, <4>3
    <3>2. CASE q # p
      <4>1. Contents(e, dk)[q] = c[q] /\ n.depth[q] = m.depth[q]
        BY <1>8, <1>9, <3>2
      <4>2. /\ c[q].type = "long"
            /\ IF m.depth[q] = 1
                 THEN c[q].val = d.npages
                 ELSE c[q].val \in ClientPage /\ m.depth[c[q].val] = m.depth[q] - 1
        BY <1>10, <2>4, <4>1 DEF IsFreeList
      <4>3. m.depth[q] # 1 => c[q].val # p
        BY <1>1, <1>9, <2>4, <4>1, <4>2
      <4> QED BY <1>6, <1>9, <2>4, <4>1, <4>2, <4>3
    <3> QED BY <3>1, <3>2
  <2> QED BY <2>1, <2>2, <2>3, <2>4 DEF IsFreeList
<1> QED BY <1>4, <1>6, <1>7, <1>9, <1>11, <1>12, <1>13 DEF Represents, e, n

-----------------------------------------------------------------------------
(* The handle of a new database represents the empty image. *)
LEMMA Empty ==
  /\ EmptyCache \in Cache /\ EmptyCache \in [Page -> PageContent]
  /\ EmptyImage \in Image
<1>1. 0 \in Page /\ 0 \in Nat
  BY MaxPagesAssumption DEF Page
<1> QED BY <1>1 DEF EmptyCache, Cache, PageContent, EmptyImage, Image

LEMMA NewDatabase ==
  ASSUME NEW driver \in Drivers
  PROVE  LET d == CreateDb(driver)
         IN /\ d \in Handle /\ d.next = 1 /\ d.inext = 1 /\ d.inpages = 1 /\ d.driver = driver
           
            /\ \A dk \in Cache : /\ Represents(d, dk, EmptyImage)
                                 /\ Keeps(dk, EmptyImage, 1, 1)
<1> DEFINE d == CreateDb(driver)
<1>1. 1 \in 1 .. MaxPages /\ 0 \in Page /\ 0 \in Nat
  BY MaxPagesAssumption DEF Page
<1>2. EmptyCache \in Cache /\ EmptyCache \in [Page -> PageContent]
  BY Empty
<1>3. d \in Handle
  BY <1>1, <1>2 DEF CreateDb, Handle
<1>5. \A p \in ClientPage : EmptyImage.pages[p] = NoPage /\ EmptyImage.depth[p] = 0
  BY DEF EmptyImage, EmptyCache, ClientPage
<1>6. EmptyImage.height = 0
  BY DEF EmptyImage
<1>7. ASSUME NEW c PROVE Holds(EmptyImage, c) /\ IsFreeList(EmptyImage, c, 1, 1)
                         /\ Disjoint(EmptyImage, 1)
  BY <1>5, <1>6 DEF Holds, IsFreeList, Disjoint
<1>8. /\ d.next = 1 /\ d.npages = 1 /\ d.inext = 1 /\ d.inpages = 1
      /\ d.driver = driver /\ d.rpages = EmptyCache
  BY DEF CreateDb
<1>9. ASSUME NEW dk PROVE Coherent(d, dk)
  BY <1>8 DEF Coherent, EmptyCache
<1> QED BY <1>2, <1>3, <1>7, <1>8, <1>9 DEF Represents, Keeps

LEMMA InitInv == Init => IInv /\ (db.driver = "memory" => db = CreateDb("memory"))
<1> SUFFICES ASSUME Init
             PROVE  IInv /\ (db.driver = "memory" => db = CreateDb("memory"))
  OBVIOUS
<1> DEFINE file == CreateDb("file")
           memory == CreateDb("memory")
<1>1. "file" \in Drivers /\ "memory" \in Drivers
  BY DEF Drivers
<1>2. /\ disk = EmptyCache /\ img = EmptyImage /\ saved = EmptyImage
      /\ disk \in Cache /\ disk[0] = NoPage /\ 0 \in Page
      /\ EmptyImage \in Image
  BY Empty, MaxPagesAssumption DEF Init, EmptyCache, Page
<1>3. CASE db = memory
  <2>1. db \in Handle /\ db.inext = 1 /\ db.inpages = 1 /\ db.driver = "memory"
    BY <1>1, <1>3, NewDatabase
  <2>2. Represents(db, disk, img) /\ Keeps(disk, saved, db.inext, db.inpages)
    BY <1>1, <1>2, <1>3, <2>1, NewDatabase
  <2> QED BY <1>2, <1>3, <2>1, <2>2
          DEF IInv, TypeOK, ReadBack, Represents, SavedOK, CleanHeader
<1>4. CASE db = ReadHeader(EmptyCache)
  <2>1. file \in Handle /\ file.next = 1 /\ file.inext = 1 /\ file.inpages = 1 /\ file.driver = "file"
    BY <1>1, NewDatabase
  <2>2. db = Put(file, 0, HeaderMark)
    BY <1>2, <1>4, <2>1 DEF ReadHeader, RlWrite
  <2>3. HeaderMark \in PageContent \cup {HeaderMark} /\ HeaderMark # NoPage
    BY DEF HeaderMark, NoPage
  <2>4. Represents(file, disk, img) /\ Keeps(disk, saved, 1, 1)
    BY <1>1, <1>2, NewDatabase
  <2> HIDE DEF file
  <2>5. /\ db \in Handle /\ db.inext = 1 /\ db.inpages = 1 /\ db.driver = "file"
        /\ db.wpages[0] # NoPage
    BY <1>2, <2>1, <2>2, <2>3, PutFrame
  <2>6. Represents(db, disk, img)
    BY <1>2, <2>1, <2>2, <2>4, PutHeader
  <2> QED BY <1>2, <2>4, <2>5, <2>6
          DEF IInv, TypeOK, ReadBack, Represents, SavedOK, CleanHeader
<1> QED BY <1>3, <1>4 DEF Init

(* A step of the client inside a transaction: what is left to show of it. *)
LEMMA ClientStep ==
  ASSUME IInv, InTransaction, disk' = disk, saved' = saved,
         db' \in Handle, img' \in Image, Represents(db', disk, img'),
         SameInitial(db', db),
         db.wpages[0] # NoPage => db'.wpages[0] # NoPage,
         CleanHeader'
  PROVE  IInv' /\ db'.driver = db.driver
<1>1. InTransaction'
  BY DEF InTransaction, SameInitial
<1>2. TypeOK'
  BY DEF IInv, TypeOK
<1>3. Represents(db, disk, img)' /\ ReadBack'
  BY DEF Represents, ReadBack
<1>4. SavedOK'
  BY <1>1 DEF IInv, SavedOK, SameInitial
<1> QED BY <1>2, <1>3, <1>4 DEF IInv, SameInitial

(* A client step that leaves the header clean writes only live pages and   *)
(* keeps the number of pages, so the stored free list stays intact.        *)
LEMMA CleanStep ==
  ASSUME IInv, InTransaction, disk' = disk, saved' = saved,
         SameInitial(db', db), db'.npages = db.npages,
         NEW p \in ClientPage, Live(p),
         \A q \in Page : q # p => db'.wpages[q] = db.wpages[q],
         \A q \in ClientPage : q # p => img'.pages[q] = img.pages[q]
  PROVE  CleanHeader' /\ (db.wpages[0] # NoPage => db'.wpages[0] # NoPage)
<1>1. 0 \in Page /\ p # 0
  BY MaxPagesAssumption DEF Page, ClientPage
<1>2. db'.wpages[0] = db.wpages[0]
  BY <1>1
<1>3. CASE db.driver = "file" /\ db.wpages[0] = NoPage
  <2>1. db.npages = db.inpages
    BY <1>3 DEF IInv, CleanHeader
  <2>2. \A q \in ClientPage :
          saved.depth[q] # 0 => db.wpages[q] = NoPage /\ img.pages[q] = NoPage
    BY <1>3 DEF IInv, CleanHeader
  <2>3. saved.depth[p] = 0
    BY <2>2 DEF Live
  <2>4. \A q \in ClientPage :
          saved.depth[q] # 0 => db'.wpages[q] = NoPage /\ img'.pages[q] = NoPage
    BY <2>2, <2>3 DEF ClientPage
  <2> QED BY <1>2, <2>1, <2>4 DEF CleanHeader, SameInitial
<1> QED BY <1>2, <1>3 DEF CleanHeader, SameInitial

LEMMA CreateInv ==
  ASSUME IInv, NEW v \in Values, Create(v) PROVE IInv' /\ db'.driver = db.driver
<1>1. /\ InTransaction /\ HasRoom(db) /\ disk' = disk /\ saved' = saved
      /\ db' = RlWrite(db, disk, db.next, Data(v)) /\ img' = Taken(img, db.next, v)
  BY DEF Create
<1>2. db \in Handle /\ disk \in Cache /\ img \in Image /\ Represents(db, disk, img)
  BY <1>1 DEF IInv, TypeOK
<1>3. /\ db' \in Handle /\ img' \in Image /\ Represents(db', disk, img')
      /\ SameInitial(db', db) /\ db'.wpages[0] # NoPage
  BY <1>1, <1>2, WriteNew
<1>4. CleanHeader'
  BY <1>3 DEF CleanHeader
<1> QED BY <1>1, <1>3, <1>4, ClientStep

LEMMA UpdateInv ==
  ASSUME IInv, NEW p \in ClientPage, NEW v \in Values, Update(p, v) PROVE IInv' /\ db'.driver = db.driver
<1>1. /\ InTransaction /\ Live(p) /\ disk' = disk /\ saved' = saved
      /\ db' = RlWrite(db, disk, p, Data(v))
      /\ img' = [img EXCEPT !.pages[p] = Data(v)]
  BY DEF Update
<1>2. db \in Handle /\ disk \in Cache /\ img \in Image /\ Represents(db, disk, img)
  BY <1>1 DEF IInv, TypeOK
<1>3. /\ db' = Put(db, p, Data(v))
      /\ db' \in Handle /\ img' \in Image /\ Represents(db', disk, img')
  BY <1>1, <1>2, WriteLive DEF Live
<1>4. Data(v) \in PageContent \cup {HeaderMark} /\ p \in Page
  BY DEF Data, PageContent, ClientPage
<1>5. /\ SameInitial(db', db) /\ db'.npages = db.npages
      /\ \A q \in Page : q # p => db'.wpages[q] = db.wpages[q]
  BY <1>2, <1>3, <1>4, PutFrame DEF SameInitial
<1>6. \A q \in ClientPage : q # p => img'.pages[q] = img.pages[q]
  BY <1>1, <1>2 DEF Image, ClientPage
<1>7. CleanHeader' /\ (db.wpages[0] # NoPage => db'.wpages[0] # NoPage)
  BY <1>1, <1>5, <1>6, CleanStep
<1> QED BY <1>1, <1>3, <1>5, <1>7, ClientStep

(* What rl_delete of a live page does to the variables, whatever becomes   *)
(* of databases[].                                                         *)
LEMMA DeleteStep ==
  ASSUME IInv, InTransaction, NEW p \in ClientPage, Live(p)
  PROVE  LET e == RlDelete(db, disk, p)
         IN /\ e \in Handle /\ Freed(img, p) \in Image
            /\ Represents(e, disk, Freed(img, p))
            /\ SameInitial(e, db) /\ e.npages = db.npages
            /\ \A q \in Page : q # p => e.wpages[q] = db.wpages[q]
            /\ \A q \in ClientPage : q # p => Freed(img, p).pages[q] = img.pages[q]
<1>1. db \in Handle /\ disk \in Cache /\ img \in Image /\ Represents(db, disk, img)
  BY DEF IInv, TypeOK
<1>2. \A q \in ClientPage : q # p => Freed(img, p).pages[q] = img.pages[q]
  BY <1>1 DEF Freed, Image, ClientPage
<1> QED BY <1>1, <1>2, Delete DEF Live

LEMMA FreeInv ==
  ASSUME IInv, NEW p \in ClientPage, Free(p) PROVE IInv' /\ db'.driver = db.driver
<1>1. /\ InTransaction /\ Live(p) /\ disk' = disk /\ saved' = saved
      /\ db' = RlDelete(db, disk, p) /\ img' = Freed(img, p)
  BY DEF Free
<1>2. /\ db' \in Handle /\ img' \in Image /\ Represents(db', disk, img')
      /\ SameInitial(db', db) /\ db'.npages = db.npages
      /\ \A q \in Page : q # p => db'.wpages[q] = db.wpages[q]
      /\ \A q \in ClientPage : q # p => img'.pages[q] = img.pages[q]
  BY <1>1, DeleteStep
<1>3. CleanHeader' /\ (db.wpages[0] # NoPage => db'.wpages[0] # NoPage)
  BY <1>1, <1>2, CleanStep
<1> QED BY <1>1, <1>2, <1>3, ClientStep

(* databases[] plays no part in what a handle represents. *)
LEMMA SetDatabase ==
  ASSUME NEW d \in Handle, NEW dk \in Cache, NEW m \in Image,
         Represents(d, dk, m), NEW i \in Databases, NEW p \in Page
  PROVE  LET e == [d EXCEPT !.dbs[i] = p]
         IN /\ e \in Handle /\ Represents(e, dk, m)
            /\ e.next = d.next /\ e.npages = d.npages
            /\ e.wpages = d.wpages /\ SameInitial(e, d)
            /\ e.dbs = [d.dbs EXCEPT ![i] = p]
<1> DEFINE e == [d EXCEPT !.dbs[i] = p]
<1>1. /\ e \in Handle
      /\ e.next = d.next /\ e.npages = d.npages
      /\ e.wpages = d.wpages /\ e.rpages = d.rpages /\ SameInitial(e, d)
      /\ e.dbs = [d.dbs EXCEPT ![i] = p]
  <2> DEFINE f == [d.dbs EXCEPT ![i] = p]
  <2>1. f \in [Databases -> Page]
    BY DEF Handle
  <2>2. e = [d EXCEPT !.dbs = f]
    BY DEF Handle
  <2> HIDE DEF e, f
  <2>3. /\ e \in Handle
        /\ e.next = d.next /\ e.npages = d.npages
        /\ e.wpages = d.wpages /\ e.rpages = d.rpages /\ SameInitial(e, d)
        /\ e.dbs = f
    BY <2>1, <2>2 DEF Handle, SameInitial
  <2> QED BY <2>3 DEF f
<1> HIDE DEF e
<1>2. Contents(e, dk) = Contents(d, dk) /\ Coherent(e, dk)
  BY <1>1 DEF Contents, Stored, Cached, Represents, Coherent
<1>3. Represents(e, dk, m)
  BY <1>1, <1>2 DEF Represents
<1> QED BY <1>1, <1>3 DEF e

LEMMA DropTreeInv ==
  ASSUME IInv, NEW i \in Databases, DropTree(i) PROVE IInv' /\ db'.driver = db.driver
<1> DEFINE p == db.dbs[i]
           d == RlDelete(db, disk, p)
<1>1. /\ InTransaction /\ p # 0 /\ Live(p) /\ disk' = disk /\ saved' = saved
      /\ db' = [d EXCEPT !.dbs[i] = 0] /\ img' = Freed(img, p)
  BY DEF DropTree
<1>2. db \in Handle /\ disk \in Cache /\ p \in ClientPage /\ 0 \in Page
  BY <1>1, MaxPagesAssumption DEF IInv, TypeOK, Handle, ClientPage, Page
<1> HIDE DEF p
<1>3. /\ d \in Handle /\ img' \in Image /\ Represents(d, disk, img')
      /\ SameInitial(d, db) /\ d.npages = db.npages
      /\ \A q \in Page : q # p => d.wpages[q] = db.wpages[q]
      /\ \A q \in ClientPage : q # p => img'.pages[q] = img.pages[q]
  BY <1>1, <1>2, DeleteStep
<1> HIDE DEF d
<1>4. /\ db' \in Handle /\ Represents(db', disk, img')
      /\ db'.npages = d.npages /\ db'.wpages = d.wpages /\ SameInitial(db', d)
  BY <1>1, <1>2, <1>3, SetDatabase
<1>5. SameInitial(db', db)
  BY <1>3, <1>4 DEF SameInitial
<1>6. CleanHeader' /\ (db.wpages[0] # NoPage => db'.wpages[0] # NoPage)
  BY <1>1, <1>2, <1>3, <1>4, <1>5, CleanStep
<1> QED BY <1>1, <1>3, <1>4, <1>5, <1>6, ClientStep

LEMMA FlushTreeInv ==
  ASSUME IInv, NEW i \in Databases, FlushTree(i) PROVE IInv' /\ db'.driver = db.driver
<1> DEFINE p == db.dbs[i]
           d == RlDelete(db, disk, p)
           e == [d EXCEPT !.dbs[i] = 0]
<1>1. /\ InTransaction /\ p # 0 /\ Live(p) /\ disk' = disk /\ saved' = saved
      /\ db' = RlWrite(e, disk, 0, HeaderMark) /\ img' = Freed(img, p)
  BY DEF FlushTree
<1>2. /\ db \in Handle /\ disk \in Cache /\ p \in ClientPage /\ 0 \in Page
      /\ HeaderMark \in PageContent \cup {HeaderMark} /\ HeaderMark # NoPage
  <2>1. db \in Handle /\ disk \in Cache /\ p \in ClientPage /\ 0 \in Page
    BY <1>1, MaxPagesAssumption DEF IInv, TypeOK, Handle, ClientPage, Page
  <2>2. HeaderMark # NoPage
    BY DEF HeaderMark, NoPage
  <2> QED BY <2>1, <2>2
<1> HIDE DEF p
<1>3. /\ d \in Handle /\ img' \in Image /\ Represents(d, disk, img')
      /\ SameInitial(d, db)
  BY <1>1, <1>2, DeleteStep
<1> HIDE DEF d
<1>4. e \in Handle /\ Represents(e, disk, img') /\ SameInitial(e, d)
  BY <1>2, <1>3, SetDatabase
<1> HIDE DEF e
<1>5. db' = Put(e, 0, HeaderMark)
  BY <1>1, <1>4 DEF RlWrite, Handle
<1>6. /\ db' \in Handle /\ Represents(db', disk, img')
      /\ SameInitial(db', e) /\ db'.wpages[0] # NoPage
  BY <1>2, <1>3, <1>4, <1>5, PutFrame, PutHeader DEF SameInitial
<1>7. SameInitial(db', db)
  BY <1>3, <1>4, <1>6 DEF SameInitial
<1>8. CleanHeader'
  BY <1>6 DEF CleanHeader
<1> QED BY <1>1, <1>3, <1>6, <1>7, <1>8, ClientStep

LEMMA ReadInv ==
  ASSUME IInv, NEW p \in ClientPage, Read(p) PROVE IInv' /\ db'.driver = db.driver
<1>1. /\ InTransaction /\ disk' = disk /\ saved' = saved /\ img' = img
      /\ db' = RlRead(db, disk, p)
  BY DEF Read
<1>2. /\ db \in Handle /\ disk \in Cache /\ img \in Image /\ p \in Page
      /\ Represents(db, disk, img)
  BY <1>1 DEF IInv, TypeOK, ClientPage
<1>3. /\ db' \in Handle /\ SameInitial(db', db)
      /\ db'.next = db.next /\ db'.npages = db.npages /\ db'.wpages = db.wpages
      /\ Contents(db', disk) = Contents(db, disk) /\ Coherent(db', disk)
  BY <1>1, <1>2, ReadFrame DEF Represents, SameInitial
<1>4. Represents(db', disk, img')
  BY <1>1, <1>2, <1>3 DEF Represents
<1>5. CleanHeader'
  BY <1>1, <1>3 DEF IInv, CleanHeader, SameInitial, InTransaction
<1> QED BY <1>1, <1>2, <1>3, <1>4, <1>5, ClientStep

LEMMA CreateTreeInv ==
  ASSUME IInv, NEW i \in Databases, NEW v \in Values, CreateTree(i, v) PROVE IInv' /\ db'.driver = db.driver
<1> DEFINE d == RlWrite(db, disk, db.next, Data(v))
           m == Taken(img, db.next, v)
           r == [d EXCEPT !.dbs[i] = d.next]
<1>1. /\ InTransaction /\ HasRoom(db) /\ HasRoom(d) /\ disk' = disk /\ saved' = saved
      /\ db' = RlWrite(r, disk, r.next, Data(v))
      /\ img' = Taken(m, d.next, v)
  BY DEF CreateTree
<1>2. db \in Handle /\ disk \in Cache /\ img \in Image /\ Represents(db, disk, img)
  BY <1>1 DEF IInv, TypeOK
<1>3. /\ d \in Handle /\ m \in Image /\ Represents(d, disk, m)
      /\ SameInitial(d, db)
  BY <1>1, <1>2, WriteNew
<1> HIDE DEF d, m
<1>4. d.next \in Page
  BY <1>1, <1>3, MaxPagesAssumption DEF HasRoom, Handle, Page
<1>5. /\ r \in Handle /\ Represents(r, disk, m) /\ r.next = d.next
      /\ SameInitial(r, d)
  BY <1>2, <1>3, <1>4, SetDatabase
<1> HIDE DEF r
<1>6. HasRoom(r)
  BY <1>1, <1>5 DEF HasRoom
<1>7. /\ db' \in Handle /\ img' \in Image /\ Represents(db', disk, img')
      /\ SameInitial(db', r) /\ db'.wpages[0] # NoPage
  BY <1>1, <1>2, <1>3, <1>5, <1>6, WriteNew
<1>8. SameInitial(db', db)
  BY <1>3, <1>5, <1>7 DEF SameInitial
<1>9. CleanHeader'
  BY <1>7 DEF CleanHeader
<1> QED BY <1>1, <1>7, <1>8, <1>9, ClientStep

(* Taking a page does not hand out one reserved before it. *)
LEMMA ReservedNotNext ==
  ASSUME NEW d \in Handle, NEW dk \in Cache, NEW m \in Image,
         Represents(d, dk, m), HasRoom(d), HasRoom(AllocPageNumber(d, dk)), NEW w
  PROVE  LET r == AllocPageNumber(d, dk)
             e == RlWrite(r, dk, r.next, Data(w))
         IN d.next # e.next /\ d.next < e.npages
<1> DEFINE p == d.next
           r == AllocPageNumber(d, dk)
           n == Popped(m, p)
           a == AllocPageNumber(r, dk)
           h == Put(a, 0, HeaderMark)
           e == Put(h, r.next, Data(w))
           o == Popped(n, r.next)
<1>1. /\ p \in ClientPage
      /\ r \in Handle /\ n \in Image /\ Represents(r, dk, n)
      /\ n.depth[p] = 0 /\ p < r.npages /\ p # r.next
  BY Alloc
<1> HIDE DEF r, n
<1>2. /\ a \in Handle /\ Represents(a, dk, o) /\ o \in Image
      /\ o.depth[r.next] = 0
  BY <1>1, Alloc DEF r
<1>3. RlWrite(r, dk, r.next, Data(w)) = e
  BY DEF RlWrite
<1>4. e.next = a.next /\ e.npages = a.npages
  BY <1>2 DEF Put, Handle
<1>5. r.npages <= a.npages /\ (r.next = r.npages => a.next = r.next + 1)
  BY <1>1 DEF AllocPageNumber, RlRead, Handle
<1>6. p < a.npages
  BY <1>1, <1>2, <1>5 DEF Handle, ClientPage, Page
<1>7. o.depth[p] = 0
  BY <1>1 DEF Popped, Image, ClientPage
<1> HIDE DEF a, o
<1>8. p # a.next
  <2>1. CASE o.height = 0
    <3>1. a.next = a.npages
      BY <1>2, <2>1 DEF Represents, IsFreeList
    <3>2. p \in Nat
      BY <1>1 DEF ClientPage, Page
    <3> QED BY <1>6, <3>1, <3>2
  <2>2. CASE o.height # 0
    BY <1>2, <1>7, <2>2 DEF Represents, IsFreeList
  <2> QED BY <2>1, <2>2
<1> QED BY <1>3, <1>4, <1>6, <1>8 DEF r

(* The reserved page is written last, when another page has been taken. *)
LEMMA CreateReservedInv ==
  ASSUME IInv, NEW v \in Values, NEW w \in Values, CreateReserved(v, w) PROVE IInv' /\ db'.driver = db.driver
<1> DEFINE p == db.next
           d == AllocPageNumber(db, disk)
           n == Popped(img, p)
           e == RlWrite(d, disk, d.next, Data(w))
           k == Taken(n, d.next, w)
<1>1. /\ InTransaction /\ HasRoom(db) /\ HasRoom(d) /\ disk' = disk /\ saved' = saved
      /\ db' = RlWrite(e, disk, p, Data(v))
      /\ img' = Taken(Taken(img, p, v), d.next, w)
  BY DEF CreateReserved
<1>2. db \in Handle /\ disk \in Cache /\ img \in Image /\ Represents(db, disk, img)
  BY <1>1 DEF IInv, TypeOK
<1>3. /\ p \in ClientPage /\ img.pages[p] = NoPage
      /\ d \in Handle /\ n \in Image /\ Represents(d, disk, n)
      /\ n.depth[p] = 0 /\ p < d.npages /\ p # d.next /\ n.pages = img.pages
      /\ SameInitial(d, db)
  BY <1>1, <1>2, Alloc DEF SameInitial
<1> HIDE DEF d, n
<1>4. /\ d.next \in ClientPage
      /\ e \in Handle /\ k \in Image /\ Represents(e, disk, k)
      /\ SameInitial(e, d) /\ e.wpages[0] # NoPage
  BY <1>1, <1>2, <1>3, WriteNew
<1>5. k.depth[p] = 0
  BY <1>3, <1>4 DEF Taken, Image, ClientPage
<1>6. p # e.next /\ p < e.npages
  BY <1>1, <1>2, ReservedNotNext DEF d, e
<1>7. db' = Put(e, p, Data(v))
  BY <1>1, <1>6 DEF RlWrite
<1>8. img' = [k EXCEPT !.pages[p] = Data(v)]
  <2>1. img = [pages |-> img.pages, depth |-> img.depth, height |-> img.height]
    BY <1>2 DEF Image
  <2>2. img.pages \in [Page -> PageContent]
    BY <1>2 DEF Image
  <2>3. [[img.pages EXCEPT ![p] = Data(v)] EXCEPT ![d.next] = Data(w)]
          = [[img.pages EXCEPT ![d.next] = Data(w)] EXCEPT ![p] = Data(v)]
    BY <1>3, <1>4, <2>2 DEF ClientPage
  <2> QED BY <1>1, <2>1, <2>3 DEF n, Popped, Taken
<1> HIDE DEF e, k
<1>9. /\ img' \in Image /\ Represents(db', disk, img')
  BY <1>2, <1>3, <1>4, <1>5, <1>6, <1>7, <1>8, PutData
<1>10. /\ p \in Page /\ 0 \in Page /\ p # 0
       /\ Data(v) \in PageContent \cup {HeaderMark}
  BY <1>3, MaxPagesAssumption DEF ClientPage, Page, Data, PageContent
<1>11. /\ db' \in Handle /\ SameInitial(db', e) /\ db'.wpages[0] = e.wpages[0]
  BY <1>4, <1>7, <1>10, PutFrame DEF SameInitial
<1>12. SameInitial(db', db) /\ db'.wpages[0] # NoPage
  BY <1>3, <1>4, <1>11 DEF SameInitial
<1>13. CleanHeader'
  BY <1>12 DEF CleanHeader
<1> QED BY <1>1, <1>9, <1>11, <1>12, <1>13, ClientStep

(* rl_discard's handle: empty caches over the storage. *)
LEMMA DiscardedHandle ==
  ASSUME NEW d \in Handle, NEW dk \in Cache
  PROVE  LET e == Discarded(d)
         IN /\ e \in Handle
            /\ e.next = d.inext /\ e.npages = d.inpages
            /\ e.inext = d.inext /\ e.inpages = d.inpages /\ e.fp = FALSE /\ e.driver = d.driver
            /\ Contents(e, dk) = dk /\ Coherent(e, dk)
<1> DEFINE e == Discarded(d)
<1>1. EmptyCache \in Cache
  BY Empty
<1>2. /\ e \in Handle
      /\ e.next = d.inext /\ e.npages = d.inpages
      /\ e.inext = d.inext /\ e.inpages = d.inpages /\ e.fp = FALSE /\ e.driver = d.driver
      /\ e.wpages = EmptyCache /\ e.rpages = EmptyCache
  BY <1>1 DEF Discarded, Handle
<1> HIDE DEF e
<1>3. \A p \in Page : Stored(e, dk, p) = dk[p]
  BY <1>2 DEF Stored, Cached, EmptyCache
<1>4. Contents(e, dk) = dk
  BY <1>3 DEF Contents, Cache
<1>5. Coherent(e, dk)
  BY <1>2 DEF Coherent, EmptyCache
<1> QED BY <1>2, <1>4, <1>5 DEF e

(* rl_commit stores what the handle represents. *)
LEMMA AppliedContents ==
  ASSUME NEW d \in Handle, NEW dk \in Cache, Coherent(d, dk)
  PROVE  /\ Applied(d, dk) \in Cache
         /\ \A p \in ClientPage : Applied(d, dk)[p] = Contents(d, dk)[p]
         /\ Applied(d, dk)[0] = IF d.wpages[0] = NoPage THEN dk[0] ELSE HeaderOf(d)
<1>1. HeaderOf(d) \in Header
  BY DEF HeaderOf, Header, Handle
<1>2. d.wpages \in Cache
  BY DEF Handle
<1>3. 0 \in Page
  BY MaxPagesAssumption DEF Page
<1>4. Applied(d, dk) \in Cache
  BY <1>1, <1>2 DEF Applied, Cache
<1>5. \A p \in ClientPage : Applied(d, dk)[p] = Contents(d, dk)[p]
  BY DEF Applied, Contents, Stored, Cached, Coherent, ClientPage
<1> QED BY <1>3, <1>4, <1>5 DEF Applied

LEMMA KeepsCongruence ==
  ASSUME NEW m, NEW a, NEW b, NEW n, NEW end,
         \A p \in ClientPage : a[p] = b[p],
         Holds(m, a), IsFreeList(m, a, n, end), Disjoint(m, end)
  PROVE  Keeps(b, m, n, end)
<1>1. Holds(m, b)
  BY DEF Holds
<1>2. IsFreeList(m, b, n, end)
  BY DEF IsFreeList
<1> QED BY <1>1, <1>2 DEF Keeps

LEMMA CommitInv == ASSUME IInv, Commit PROVE IInv' /\ db'.driver = db.driver
<1> DEFINE d == [db EXCEPT !.inext = db.next, !.inpages = db.npages, !.idbs = db.dbs]
<1>1. /\ InTransaction /\ disk' = Applied(db, disk) /\ db' = Discarded(d) /\ img' = img
      /\ saved' = IF db.driver = "memory" \/ db.wpages[0] # NoPage
                    THEN img ELSE [saved EXCEPT !.pages = img.pages]
  BY DEF Commit, Committed
<1>2. /\ db \in Handle /\ disk \in Cache /\ img \in Image /\ saved \in Image
      /\ Represents(db, disk, img)
  BY <1>1 DEF IInv, TypeOK
<1>3. /\ disk' \in Cache
      /\ \A p \in ClientPage : Contents(db, disk)[p] = disk'[p]
      /\ disk'[0] = IF db.wpages[0] = NoPage THEN disk[0] ELSE HeaderOf(db)
  BY <1>1, <1>2, AppliedContents DEF Represents
<1>4. /\ d \in Handle /\ d.inext = db.next /\ d.inpages = db.npages /\ d.driver = db.driver
  BY <1>2 DEF Handle
<1> HIDE DEF d
<1>5. /\ db' \in Handle
      /\ db'.next = db.next /\ db'.npages = db.npages
      /\ db'.inext = db.next /\ db'.inpages = db.npages /\ db'.fp = FALSE
      /\ db'.driver = db.driver
      /\ Contents(db', disk') = disk' /\ Coherent(db', disk')
  BY <1>1, <1>3, <1>4, DiscardedHandle
<1>6. Keeps(disk', img, db.next, db.npages)
  BY <1>2, <1>3, KeepsCongruence DEF Represents
<1>7. Represents(db', disk', img') /\ ReadBack'
  BY <1>1, <1>5, <1>6 DEF Represents, Keeps, ReadBack
<1>8. /\ saved' \in Image /\ saved'.pages = img.pages
      /\ db.driver = "file" /\ db.wpages[0] = NoPage =>
           saved'.depth = saved.depth /\ saved'.height = saved.height
  <2>1. CASE db.driver = "memory" \/ db.wpages[0] # NoPage
    BY <1>1, <1>2, <2>1
  <2>2. CASE ~(db.driver = "memory" \/ db.wpages[0] # NoPage)
    BY <1>1, <1>2, <2>2 DEF Image
  <2> QED BY <2>1, <2>2
<1>9. TypeOK'
  BY <1>1, <1>2, <1>3, <1>5, <1>8 DEF TypeOK
<1>10. CASE db.driver = "memory"
  <2>1. SavedOK' /\ CleanHeader'
    BY <1>1, <1>5, <1>6, <1>10 DEF SavedOK, CleanHeader
  <2> QED BY <1>7, <1>9, <2>1, <1>5 DEF IInv
<1>11. CASE db.driver = "file"
  <2>1. ~InTransaction'
    BY <1>5, <1>11 DEF InTransaction
  <2>2. disk'[0] \in Header /\ disk'[0] # NoPage
        /\ Keeps(disk', saved', disk'[0].next, disk'[0].npages)
    <3>1. CASE db.wpages[0] # NoPage
      <4>1. disk'[0] = HeaderOf(db) /\ saved' = img
        BY <1>1, <1>3, <3>1
      <4>2. HeaderOf(db).next = db.next /\ HeaderOf(db).npages = db.npages
            /\ HeaderOf(db) \in Header /\ HeaderOf(db) # NoPage
        BY <1>2 DEF HeaderOf, Header, Handle, NoPage
      <4> QED BY <1>6, <4>1, <4>2
    <3>2. CASE db.wpages[0] = NoPage
      <4>1. /\ disk[0] # NoPage /\ disk[0] \in Header
            /\ Keeps(disk, saved, disk[0].next, disk[0].npages)
            /\ db.inext = disk[0].next /\ db.inpages = disk[0].npages
        BY <1>1, <1>11, <3>2 DEF IInv, SavedOK
      <4>2. /\ db.npages = db.inpages
            /\ \A p \in ClientPage :
                 saved.depth[p] # 0 => db.wpages[p] = NoPage /\ img.pages[p] = NoPage
        BY <1>1, <1>11, <3>2 DEF IInv, CleanHeader
      <4>3. disk'[0] = disk[0]
        BY <1>3, <3>2
      <4>4. saved'.depth = saved.depth /\ saved'.height = saved.height
        BY <1>8, <1>11, <3>2
      <4>5. Holds(saved', disk')
        BY <1>6, <1>8 DEF Keeps, Holds
      <4>6. Disjoint(saved', disk[0].npages)
        BY <1>6, <1>8, <4>1, <4>2, <4>4 DEF Keeps, Disjoint
      <4>7. \A p \in ClientPage : saved.depth[p] # 0 => disk'[p] = disk[p]
        BY <1>1, <4>2 DEF Applied, ClientPage
      <4>8. IsFreeList(saved', disk', disk[0].next, disk[0].npages)
        BY <4>1, <4>4, <4>7 DEF Keeps, IsFreeList
      <4> QED BY <4>1, <4>3, <4>5, <4>6, <4>8 DEF Keeps
    <3> QED BY <3>1, <3>2
  <2>3. SavedOK' /\ CleanHeader'
    BY <2>1, <2>2 DEF SavedOK, CleanHeader
  <2> QED BY <1>7, <1>9, <2>3, <1>5 DEF IInv
<1> QED BY <1>2, <1>10, <1>11 DEF Handle, Drivers

LEMMA DiscardInv == ASSUME IInv, Discard PROVE IInv' /\ db'.driver = db.driver
<1>1. /\ InTransaction /\ db' = Discarded(db) /\ img' = saved
      /\ disk' = disk /\ saved' = saved
  BY DEF Discard
<1>2. db \in Handle /\ disk \in Cache /\ saved \in Image
  BY DEF IInv, TypeOK
<1>3. /\ db' \in Handle
      /\ db'.next = db.inext /\ db'.npages = db.inpages
      /\ db'.inext = db.inext /\ db'.inpages = db.inpages /\ db'.fp = FALSE
      /\ db'.driver = db.driver
      /\ Contents(db', disk) = disk /\ Coherent(db', disk)
  BY <1>1, <1>2, DiscardedHandle
<1>4. Keeps(disk, saved, db.inext, db.inpages)
  BY <1>1 DEF IInv, SavedOK
<1>5. Represents(db', disk', img') /\ ReadBack' /\ TypeOK'
  BY <1>1, <1>2, <1>3, <1>4 DEF Represents, Keeps, ReadBack, TypeOK
<1>6. CASE db.driver = "memory"
  <2>1. SavedOK' /\ CleanHeader'
    BY <1>1, <1>3, <1>4, <1>6 DEF SavedOK, CleanHeader
  <2> QED BY <1>5, <2>1, <1>3 DEF IInv
<1>7. CASE db.driver = "file"
  <2>1. ~InTransaction'
    BY <1>3, <1>7 DEF InTransaction
  <2>2. SavedOK' /\ CleanHeader'
    BY <1>1, <1>3, <2>1 DEF IInv, SavedOK, CleanHeader
  <2> QED BY <1>5, <2>2, <1>3 DEF IInv
<1> QED BY <1>2, <1>6, <1>7 DEF Handle, Drivers

LEMMA RefreshInv == ASSUME IInv, Refresh PROVE IInv' /\ db'.driver = db.driver
<1>1. /\ db' = Refreshed(db, disk) /\ disk' = disk /\ saved' = saved
      /\ img' = IF db.driver = "file" THEN saved ELSE img
  BY DEF Refresh
<1>2. db \in Handle /\ disk \in Cache /\ saved \in Image /\ 0 \in Page
  BY MaxPagesAssumption DEF IInv, TypeOK, Page
<1>3. CASE db.driver = "memory"
  <2>1. db' = db /\ img' = img
    BY <1>1, <1>3 DEF Refreshed
  <2> QED BY <1>1, <2>1
          DEF IInv, TypeOK, ReadBack, InTransaction, Represents, SavedOK, CleanHeader
<1>4. CASE db.driver = "file" /\ disk[0] = NoPage
  <2>1. saved = EmptyImage /\ img' = EmptyImage
    BY <1>1, <1>4 DEF IInv, SavedOK
  <2> DEFINE file == CreateDb("file")
  <2>n. /\ file \in Handle /\ file.next = 1 /\ file.inext = 1 /\ file.inpages = 1
        /\ file.driver = "file" /\ EmptyImage \in Image
        /\ Represents(file, disk, EmptyImage) /\ Keeps(disk, EmptyImage, 1, 1)
    BY <1>2, Empty, NewDatabase DEF Drivers
  <2>2. db' = Put(file, 0, HeaderMark)
    BY <1>1, <1>4, <2>n DEF Refreshed, ReadHeader, RlWrite
  <2> HIDE DEF file
  <2>3. HeaderMark \in PageContent \cup {HeaderMark} /\ HeaderMark # NoPage
    BY DEF HeaderMark, NoPage
  <2>5. /\ db' \in Handle /\ db'.inext = 1 /\ db'.inpages = 1 /\ db'.driver = "file"
        /\ db'.wpages[0] # NoPage
    BY <1>2, <2>n, <2>2, <2>3, PutFrame
  <2>6. Represents(db', disk, img') /\ Keeps(disk, saved, 1, 1)
    BY <1>2, <2>n, <2>1, <2>2, PutHeader
  <2>7. TypeOK'
    BY <1>1, <1>2, <2>n, <2>1, <2>5 DEF TypeOK
  <2>8. SavedOK' /\ CleanHeader'
    BY <1>1, <1>4, <2>1, <2>5, <2>6 DEF SavedOK, CleanHeader
  <2> QED BY <1>1, <1>4, <2>5, <2>6, <2>7, <2>8 DEF IInv, ReadBack, Represents
<1>5. CASE db.driver = "file" /\ disk[0] # NoPage
  <2> DEFINE h == disk[0]
  <2>1. h \in Header /\ Keeps(disk, saved, h.next, h.npages) /\ img' = saved
    BY <1>1, <1>5 DEF IInv, SavedOK
  <2>2. db' = HeaderRead(h)
    BY <1>1, <1>5 DEF Refreshed, ReadHeader
  <2>3. /\ EmptyCache \in Cache
        /\ [EmptyCache EXCEPT ![0] = h] \in Cache
    BY <1>2, <2>1, Empty DEF Cache
  <2>4. /\ db' \in Handle /\ db'.next = h.next /\ db'.npages = h.npages /\ db'.driver = "file"
        /\ db'.inext = h.next /\ db'.inpages = h.npages
        /\ db'.wpages = EmptyCache /\ db'.rpages = [EmptyCache EXCEPT ![0] = h]
    BY <2>1, <2>2, <2>3 DEF HeaderRead, Handle, Header, Drivers
  <2>5. \A p \in Page : db'.rpages[p] = IF p = 0 THEN h ELSE NoPage
    BY <1>2, <2>4 DEF EmptyCache
  <2>6. \A p \in Page : db'.wpages[p] = NoPage
    BY <2>4 DEF EmptyCache
  <2>7. Contents(db', disk) = disk /\ Coherent(db', disk)
    <3>1. \A p \in Page : Stored(db', disk, p) = disk[p]
      BY <2>5, <2>6 DEF Stored, Cached
    <3>2. Contents(db', disk) = disk
      BY <1>2, <3>1 DEF Contents, Cache
    <3> QED BY <2>5, <3>2 DEF Coherent
  <2>8. Represents(db', disk', img') /\ ReadBack' /\ TypeOK'
    BY <1>1, <1>2, <2>1, <2>4, <2>7 DEF Represents, Keeps, ReadBack, TypeOK
  <2>9. SavedOK'
    BY <1>1, <1>5, <2>1, <2>4 DEF SavedOK
  <2>10. CleanHeader'
    <3>1. \A p \in ClientPage : saved.depth[p] # 0 => img'.pages[p] = NoPage
      BY <2>1 DEF Keeps, Disjoint
    <3> QED BY <1>1, <2>4, <2>6, <3>1 DEF CleanHeader, ClientPage
  <2> QED BY <1>5, <2>4, <2>8, <2>9, <2>10 DEF IInv
<1> QED BY <1>2, <1>3, <1>4, <1>5 DEF Handle, Drivers

LEMMA StepInv == IInv /\ [Next]_vars => IInv' /\ db'.driver = db.driver
<1> SUFFICES ASSUME IInv, [Next]_vars PROVE IInv' /\ db'.driver = db.driver
  OBVIOUS
<1>1. CASE UNCHANGED vars
  BY <1>1 DEF vars, IInv, TypeOK, ReadBack, Live, InTransaction, Represents,
              SavedOK, CleanHeader
<1>2. CASE Next
  BY <1>2, CreateInv, UpdateInv, FreeInv, ReadInv, CreateTreeInv, DropTreeInv,
     FlushTreeInv, CreateReservedInv, CommitInv, DiscardInv, RefreshInv DEF Next
<1> QED BY <1>1, <1>2

THEOREM Invariance == Spec => []IInv
<1>1. Init => IInv
  BY InitInv
<1>2. IInv /\ [Next]_vars => IInv'
  BY StepInv
<1> QED BY <1>1, <1>2, PTL DEF Spec

(* Every variable keeps its type: links, page numbers and header fields    *)
(* stay inside the file, whatever the bound on its size.                   *)
THEOREM TypeCorrect == Spec => []TypeOK
<1>1. IInv => TypeOK
  BY DEF IInv
<1> QED BY <1>1, Invariance, PTL

(* Pages read back through every sequence of writes, frees, commits,       *)
(* discards and refreshes, with either driver.                             *)
THEOREM PagesReadBack == Spec => []ReadBack
<1>1. IInv => ReadBack
  BY DEF IInv
<1> QED BY <1>1, Invariance, PTL

(* The list of empty pages is exactly the freed pages that the header      *)
(* remembers, so rl_alloc_page_number never hands out a page in use.       *)
THEOREM FreeListCorrect == Spec => []FreeList
<1>1. IInv => FreeList
  BY DEF IInv, Represents, FreeList
<1> QED BY <1>1, Invariance, PTL

-----------------------------------------------------------------------------
(* The memory driver.  Its rl_refresh does not read the header back, so no *)
(* page is ever orphaned and databases[] always names live pages.          *)

(* Growing the file adds the page handed out and no other. *)
LEMMA WriteNewPages ==
  ASSUME NEW d \in Handle, NEW dk \in Cache, NEW v,
         NEW q \in ClientPage, q < RlWrite(d, dk, d.next, Data(v)).npages
  PROVE  q < d.npages \/ q = d.next
<1> DEFINE a == AllocPageNumber(d, dk)
<1>1. RlWrite(d, dk, d.next, Data(v)).npages = a.npages
  <2>1. a.npages = IF d.next = d.npages THEN d.npages + 1 ELSE d.npages
    BY DEF AllocPageNumber, RlRead, Handle
  <2>2. Put(Put(a, 0, HeaderMark), d.next, Data(v)).npages = a.npages
    <3>1. CASE d.next = d.npages
      BY <3>1 DEF AllocPageNumber, Put, Handle
    <3>2. CASE d.next # d.npages
      BY <3>2 DEF AllocPageNumber, RlRead, Put, Handle
    <3> QED BY <3>1, <3>2
  <2> QED BY <2>2 DEF RlWrite
<1>2. a.npages = IF d.next = d.npages THEN d.npages + 1 ELSE d.npages
  BY DEF AllocPageNumber, RlRead, Handle
<1>3. q \in Nat /\ d.npages \in Nat
  BY MaxPagesAssumption DEF ClientPage, Page, Handle
<1> HIDE DEF a
<1> QED BY <1>1, <1>2, <1>3

LEMMA TakenPages ==
  ASSUME NEW m \in Image, NEW p \in ClientPage, NEW v \in Values
  PROVE  /\ Taken(m, p, v) \in Image /\ Data(v) # NoPage
         /\ \A q \in ClientPage :
              /\ Taken(m, p, v).pages[q] = IF q = p THEN Data(v) ELSE m.pages[q]
              /\ q # p => Taken(m, p, v).depth[q] = m.depth[q]
<1> DEFINE n == Taken(m, p, v)
           f == [m.pages EXCEPT ![p] = Data(v)]
           g == [m.depth EXCEPT ![p] = 0]
           h == IF m.height = 0 THEN 0 ELSE m.height - 1
<1>1. p \in Page /\ Data(v) \in PageContent /\ Data(v) # NoPage
  BY DEF ClientPage, Data, PageContent, NoPage
<1>2. m.pages \in [Page -> PageContent] /\ m.depth \in [Page -> Nat] /\ m.height \in Nat
  BY DEF Image
<1>3. f \in [Page -> PageContent] /\ g \in [Page -> Nat] /\ h \in Nat
  BY <1>1, <1>2
<1>4. n = [m EXCEPT !.pages = f, !.depth = g, !.height = h]
  BY DEF Taken, Image
<1> HIDE DEF n, f, g, h
<1>5. n \in Image /\ n.pages = f /\ n.depth = g
  BY <1>3, <1>4 DEF Image
<1>6. \A q \in ClientPage :
        /\ n.pages[q] = IF q = p THEN Data(v) ELSE m.pages[q]
        /\ q # p => n.depth[q] = m.depth[q]
  BY <1>1, <1>2, <1>5 DEF ClientPage, f, g
<1> QED BY <1>1, <1>5, <1>6 DEF n

LEMMA BalancedTaken ==
  ASSUME NEW m \in Image, NEW dbs \in [Databases -> Page], NEW n, NEW k,
         Balanced(m, dbs, n),
         NEW p \in ClientPage, m.pages[p] = NoPage, NEW v \in Values,
         \A q \in ClientPage : q < k => q < n \/ q = p
  PROVE  /\ Balanced(Taken(m, p, v), dbs, k)
         /\ \A i \in Databases :
              Balanced(Taken(m, p, v), [dbs EXCEPT ![i] = p], k)
<1> DEFINE t == Taken(m, p, v)
<1>1. /\ Data(v) # NoPage
      /\ \A q \in ClientPage : /\ t.pages[q] = IF q = p THEN Data(v) ELSE m.pages[q]
                               /\ q # p => t.depth[q] = m.depth[q]
  BY TakenPages
<1> HIDE DEF t
<1>2. \A q \in ClientPage : q < k => t.pages[q] # NoPage \/ t.depth[q] # 0
  BY <1>1 DEF Balanced
<1>3. \A j \in Databases : dbs[j] # p /\ (dbs[j] # 0 => dbs[j] \in ClientPage)
  BY DEF Balanced, ClientPage, Page
<1>4. \A j \in Databases : dbs[j] # 0 => t.pages[dbs[j]] # NoPage
  BY <1>1, <1>3 DEF Balanced
<1>5. Balanced(t, dbs, k)
  BY <1>2, <1>4 DEF Balanced
<1>6. ASSUME NEW i \in Databases PROVE Balanced(t, [dbs EXCEPT ![i] = p], k)
  <2> DEFINE e == [dbs EXCEPT ![i] = p]
  <2>1. \A j \in Databases : e[j] = IF j = i THEN p ELSE dbs[j]
    OBVIOUS
  <2> HIDE DEF e
  <2>2. \A j \in Databases : e[j] # 0 => t.pages[e[j]] # NoPage
    BY <1>1, <1>4, <2>1
  <2>3. \A j, l \in Databases : e[j] # 0 /\ e[j] = e[l] => j = l
    BY <1>3, <2>1 DEF Balanced
  <2>4. Balanced(t, e, k)
    BY <1>2, <2>2, <2>3 DEF Balanced
  <2> QED BY <2>4 DEF e
<1> QED BY <1>5, <1>6 DEF t

LEMMA BalancedFreed ==
  ASSUME NEW m \in Image, NEW dbs \in [Databases -> Page], NEW n,
         Balanced(m, dbs, n), NEW p \in ClientPage
  PROVE  /\ (\A i \in Databases : dbs[i] # p) => Balanced(Freed(m, p), dbs, n)
         /\ \A i \in Databases :
              dbs[i] = p => Balanced(Freed(m, p), [dbs EXCEPT ![i] = 0], n)
<1> DEFINE t == Freed(m, p)
<1>1. \A q \in ClientPage : /\ t.pages[q] = IF q = p THEN NoPage ELSE m.pages[q]
                            /\ t.depth[q] = IF q = p THEN m.height + 1 ELSE m.depth[q]
  BY DEF Freed, Image, ClientPage
<1>2. m.height + 1 # 0
  BY DEF Image
<1>3. \A j \in Databases : dbs[j] # 0 => dbs[j] \in ClientPage
  BY DEF ClientPage
<1>4. 0 \in Page /\ p # 0
  BY MaxPagesAssumption DEF Page, ClientPage
<1> HIDE DEF t
<1>5. \A q \in ClientPage : q < n => t.pages[q] # NoPage \/ t.depth[q] # 0
  BY <1>1, <1>2 DEF Balanced
<1>6. ASSUME \A i \in Databases : dbs[i] # p PROVE Balanced(t, dbs, n)
  BY <1>1, <1>3, <1>5, <1>6 DEF Balanced
<1>7. ASSUME NEW i \in Databases, dbs[i] = p
      PROVE  Balanced(t, [dbs EXCEPT ![i] = 0], n)
  <2> DEFINE e == [dbs EXCEPT ![i] = 0]
  <2>1. \A j \in Databases : e[j] = IF j = i THEN 0 ELSE dbs[j]
    BY <1>4
  <2> HIDE DEF e
  <2>2. \A j \in Databases : e[j] # 0 => e[j] # p
    BY <1>4, <1>7, <2>1 DEF Balanced
  <2>3. \A j \in Databases : e[j] # 0 => t.pages[e[j]] # NoPage
    BY <1>1, <1>3, <2>1, <2>2 DEF Balanced
  <2>4. \A j, l \in Databases : e[j] # 0 /\ e[j] = e[l] => j = l
    BY <2>1 DEF Balanced
  <2>5. Balanced(t, e, n)
    BY <1>5, <2>3, <2>4 DEF Balanced
  <2> QED BY <2>5 DEF e
<1> QED BY <1>6, <1>7 DEF t

LEMMA MemoryStep ==
  ASSUME db.driver = "memory", IInv, MemoryInv, Next
  PROVE  MemoryInv'
<1>1. /\ InTransaction /\ db \in Handle /\ disk \in Cache /\ img \in Image
      /\ db.dbs \in [Databases -> Page]
      /\ Represents(db, disk, img)
      /\ Balanced(img, db.dbs, db.npages) /\ Balanced(saved, db.idbs, db.inpages)
  BY DEF InTransaction, IInv, TypeOK, MemoryInv, Handle
<1>2. ASSUME Balanced(img', db'.dbs, db'.npages),
             saved' = saved, SameInitial(db', db)
      PROVE  MemoryInv'
  BY <1>1, <1>2 DEF MemoryInv, SameInitial
<1>3. ASSUME NEW v \in Values, Create(v) PROVE MemoryInv'
  <2>1. /\ HasRoom(db) /\ saved' = saved
        /\ db' = RlWrite(db, disk, db.next, Data(v)) /\ img' = Taken(img, db.next, v)
    BY <1>3 DEF Create
  <2>2. /\ db.next \in ClientPage /\ img.pages[db.next] = NoPage
        /\ db'.dbs = db.dbs /\ SameInitial(db', db)
    BY <1>1, <2>1, WriteNew
  <2>3. \A q \in ClientPage : q < db'.npages => q < db.npages \/ q = db.next
    BY <1>1, <2>1, WriteNewPages
  <2>4. Balanced(img', db'.dbs, db'.npages)
    BY <1>1, <2>1, <2>2, <2>3, BalancedTaken
  <2> QED BY <1>2, <2>1, <2>2, <2>4
<1>4. ASSUME NEW p \in ClientPage, NEW v \in Values, Update(p, v) PROVE MemoryInv'
  <2>1. /\ Live(p) /\ saved' = saved
        /\ db' = RlWrite(db, disk, p, Data(v))
        /\ img' = [img EXCEPT !.pages[p] = Data(v)]
    BY <1>4 DEF Update
  <2>2. db' = Put(db, p, Data(v))
    BY <1>1, <2>1, WriteLive DEF Live
  <2>3. /\ Data(v) \in PageContent \cup {HeaderMark} /\ p \in Page /\ Data(v) # NoPage
    BY DEF Data, PageContent, ClientPage, NoPage
  <2>4. db'.dbs = db.dbs /\ db'.npages = db.npages /\ SameInitial(db', db)
    BY <1>1, <2>2, <2>3, PutFrame DEF SameInitial
  <2>5. /\ img'.depth = img.depth
        /\ \A q \in ClientPage : img'.pages[q] = IF q = p THEN Data(v) ELSE img.pages[q]
    BY <1>1, <2>1 DEF Image, ClientPage
  <2>6. \A i \in Databases : db.dbs[i] # 0 => db.dbs[i] \in ClientPage
    BY <1>1 DEF ClientPage
  <2>7. Balanced(img', db'.dbs, db'.npages)
    BY <1>1, <2>3, <2>4, <2>5, <2>6 DEF Balanced
  <2> QED BY <1>2, <2>1, <2>4, <2>7
<1>5. ASSUME NEW p \in ClientPage, Free(p) PROVE MemoryInv'
  <2>1. /\ Live(p) /\ saved' = saved /\ p \notin Roots(db)
        /\ db' = RlDelete(db, disk, p) /\ img' = Freed(img, p)
    BY <1>5 DEF Free
  <2>2. db'.dbs = db.dbs /\ db'.npages = db.npages /\ SameInitial(db', db)
    BY <1>1, <2>1, Delete DEF Live
  <2>3. \A i \in Databases : db.dbs[i] # p
    BY <2>1 DEF Roots, ClientPage
  <2>4. Balanced(img', db'.dbs, db'.npages)
    BY <1>1, <2>1, <2>2, <2>3, BalancedFreed
  <2> QED BY <1>2, <2>1, <2>2, <2>4
<1>6. ASSUME NEW p \in ClientPage, Read(p) PROVE MemoryInv'
  <2>1. db' = RlRead(db, disk, p) /\ img' = img /\ saved' = saved /\ p \in Page
    BY <1>6 DEF Read, ClientPage
  <2>2. db'.dbs = db.dbs /\ db'.npages = db.npages /\ SameInitial(db', db)
    BY <1>1, <2>1, ReadFrame DEF SameInitial, Represents
  <2> QED BY <1>1, <1>2, <2>1, <2>2
<1>7. ASSUME NEW i \in Databases, NEW v \in Values, CreateTree(i, v) PROVE MemoryInv'
  <2> DEFINE d == RlWrite(db, disk, db.next, Data(v))
             m == Taken(img, db.next, v)
             r == [d EXCEPT !.dbs[i] = d.next]
  <2>1. /\ HasRoom(db) /\ HasRoom(d) /\ saved' = saved
        /\ db' = RlWrite(r, disk, r.next, Data(v))
        /\ img' = Taken(m, d.next, v)
    BY <1>7 DEF CreateTree
  <2>2. /\ db.next \in ClientPage /\ img.pages[db.next] = NoPage
        /\ d \in Handle /\ m \in Image /\ Represents(d, disk, m)
        /\ d.dbs = db.dbs /\ SameInitial(d, db)
    BY <1>1, <2>1, WriteNew
  <2>3. \A q \in ClientPage : q < d.npages => q < db.npages \/ q = db.next
    BY <1>1, WriteNewPages
  <2>4. Balanced(m, d.dbs, d.npages)
    BY <1>1, <2>2, <2>3, BalancedTaken
  <2> HIDE DEF d, m
  <2>5. d.next \in Page
    BY <2>1, <2>2, MaxPagesAssumption DEF HasRoom, Handle, Page
  <2>6. /\ r \in Handle /\ Represents(r, disk, m) /\ r.next = d.next
        /\ r.npages = d.npages /\ SameInitial(r, d)
        /\ r.dbs = [d.dbs EXCEPT ![i] = d.next]
    BY <1>1, <2>2, <2>5, SetDatabase
  <2> HIDE DEF r
  <2>7. HasRoom(r)
    BY <2>1, <2>6 DEF HasRoom
  <2>8. /\ r.next \in ClientPage /\ m.pages[r.next] = NoPage
        /\ db'.dbs = r.dbs /\ SameInitial(db', r)
    BY <1>1, <2>1, <2>2, <2>6, <2>7, WriteNew
  <2>9. \A q \in ClientPage : q < db'.npages => q < d.npages \/ q = d.next
    BY <1>1, <2>1, <2>6, WriteNewPages
  <2>10. /\ d.dbs \in [Databases -> Page] /\ d.next \in ClientPage
         /\ m.pages[d.next] = NoPage
    BY <2>2, <2>6, <2>8 DEF Handle
  <2>11. Balanced(Taken(m, d.next, v), [d.dbs EXCEPT ![i] = d.next], db'.npages)
    BY <2>2, <2>4, <2>9, <2>10, BalancedTaken
  <2>12. Balanced(img', db'.dbs, db'.npages)
    BY <2>1, <2>6, <2>8, <2>11
  <2>13. SameInitial(db', db)
    BY <2>2, <2>6, <2>8 DEF SameInitial
  <2> QED BY <1>2, <2>1, <2>12, <2>13
<1>8. ASSUME NEW i \in Databases, DropTree(i) \/ FlushTree(i) PROVE MemoryInv'
  <2> DEFINE p == db.dbs[i]
             d == RlDelete(db, disk, p)
             e == [d EXCEPT !.dbs[i] = 0]
  <2>1. /\ p # 0 /\ Live(p) /\ saved' = saved /\ img' = Freed(img, p)
        /\ db' = e \/ db' = RlWrite(e, disk, 0, HeaderMark)
    BY <1>8 DEF DropTree, FlushTree
  <2>2. p \in ClientPage /\ 0 \in Page /\ HeaderMark \in PageContent \cup {HeaderMark}
    BY <1>1, <2>1, MaxPagesAssumption DEF ClientPage, Page
  <2>3. /\ d \in Handle /\ Represents(d, disk, Freed(img, p)) /\ Freed(img, p) \in Image
        /\ d.dbs = db.dbs /\ d.npages = db.npages /\ SameInitial(d, db)
    BY <1>1, <2>1, <2>2, Delete DEF Live
  <2>4. Balanced(Freed(img, p), [db.dbs EXCEPT ![i] = 0], db.npages)
    BY <1>1, <2>2, BalancedFreed
  <2> HIDE DEF d, p
  <2>5. /\ e \in Handle /\ e.dbs = [db.dbs EXCEPT ![i] = 0]
        /\ e.npages = db.npages /\ SameInitial(e, d)
    BY <1>1, <2>2, <2>3, SetDatabase
  <2> HIDE DEF e
  <2>6. db' = e \/ db' = Put(e, 0, HeaderMark)
    BY <2>1, <2>5 DEF RlWrite, Handle
  <2>7. db'.dbs = e.dbs /\ db'.npages = e.npages /\ SameInitial(db', e)
    BY <2>2, <2>5, <2>6, PutFrame DEF SameInitial
  <2>8. SameInitial(db', db)
    BY <2>3, <2>5, <2>7 DEF SameInitial
  <2> QED BY <1>2, <2>1, <2>4, <2>5, <2>7, <2>8
<1>9. ASSUME NEW v \in Values, NEW w \in Values, CreateReserved(v, w) PROVE MemoryInv'
  <2> DEFINE p == db.next
             d == AllocPageNumber(db, disk)
             n == Popped(img, p)
             e == RlWrite(d, disk, d.next, Data(w))
             m == Taken(img, p, v)
  <2>1. /\ HasRoom(db) /\ HasRoom(d) /\ saved' = saved
        /\ db' = RlWrite(e, disk, p, Data(v))
        /\ img' = Taken(m, d.next, w)
    BY <1>9 DEF CreateReserved
  <2>2. /\ p \in ClientPage /\ img.pages[p] = NoPage
        /\ d \in Handle /\ n \in Image /\ Represents(d, disk, n)
        /\ p # d.next /\ n.pages = img.pages
        /\ d.dbs = db.dbs /\ SameInitial(d, db)
    BY <1>1, <2>1, Alloc DEF SameInitial
  <2>3. \A q \in ClientPage : q < d.npages => q < db.npages \/ q = p
    BY <1>1, MaxPagesAssumption
       DEF AllocPageNumber, RlRead, Handle, ClientPage, Page
  <2>4. Balanced(m, db.dbs, d.npages)
    BY <1>1, <2>2, <2>3, BalancedTaken
  <2>5. m \in Image /\ \A q \in ClientPage : q # p => m.pages[q] = img.pages[q]
    BY <1>1, <2>2, TakenPages
  <2> HIDE DEF d, m, n
  <2>6. /\ d.next \in ClientPage /\ n.pages[d.next] = NoPage
        /\ e \in Handle /\ e.dbs = d.dbs /\ SameInitial(e, d)
    BY <1>1, <2>1, <2>2, WriteNew
  <2>7. m.pages[d.next] = NoPage
    BY <2>2, <2>5, <2>6
  <2>8. \A q \in ClientPage : q < e.npages => q < d.npages \/ q = d.next
    BY <1>1, <2>2, WriteNewPages
  <2> HIDE DEF e
  <2>9. Balanced(img', e.dbs, e.npages)
    BY <1>1, <2>1, <2>2, <2>4, <2>5, <2>6, <2>7, <2>8, BalancedTaken
  <2>10. db' = Put(e, p, Data(v))
    <3>1. p # e.next
      BY <1>1, <2>1, ReservedNotNext DEF d, e
    <3> QED BY <2>1, <3>1 DEF RlWrite
  <2>11. Data(v) \in PageContent \cup {HeaderMark} /\ p \in Page
    BY <2>2 DEF Data, PageContent, ClientPage
  <2>12. db'.dbs = e.dbs /\ db'.npages = e.npages /\ SameInitial(db', e)
    BY <2>6, <2>10, <2>11, PutFrame DEF SameInitial
  <2>13. SameInitial(db', db)
    BY <2>2, <2>6, <2>12 DEF SameInitial
  <2> QED BY <1>2, <2>1, <2>9, <2>12, <2>13
<1>10. CASE Commit
  <2>1. saved' = img /\ img' = img /\ db' = Committed(db)
    BY <1>10 DEF Commit
  <2>2. /\ db'.dbs = db.dbs /\ db'.npages = db.npages
        /\ db'.idbs = db.dbs /\ db'.inpages = db.npages
    BY <1>1, <2>1 DEF Committed, Discarded, Handle
  <2> QED BY <1>1, <2>1, <2>2 DEF MemoryInv
<1>11. CASE Discard
  <2>1. saved' = saved /\ img' = saved /\ db' = Discarded(db)
    BY <1>11 DEF Discard
  <2>2. /\ db'.dbs = db.idbs /\ db'.npages = db.inpages
        /\ db'.idbs = db.idbs /\ db'.inpages = db.inpages
    BY <1>1, <2>1 DEF Discarded, Handle
  <2> QED BY <1>1, <2>1, <2>2 DEF MemoryInv
<1>12. CASE Refresh
  BY <1>1, <1>12 DEF Refresh, Refreshed, MemoryInv
<1> QED BY <1>3, <1>4, <1>5, <1>6, <1>7, <1>8, <1>9, <1>10, <1>11, <1>12 DEF Next

LEMMA MemoryInvariance == Spec => [](IInv /\ MemoryInv)
<1>1. Init => MemoryInv
  <2> SUFFICES ASSUME Init, db.driver = "memory" PROVE MemoryInv
    BY DEF MemoryInv
  <2>1. \A p \in ClientPage : ~(p < 1)
    BY MaxPagesAssumption DEF ClientPage, Page
  <2>2. LET d == CreateDb("memory")
        IN Balanced(EmptyImage, d.dbs, d.npages) /\ Balanced(EmptyImage, d.idbs, d.inpages)
    BY <2>1 DEF Balanced, CreateDb
  <2>3. db = CreateDb("memory")
    BY InitInv
  <2> QED BY <2>2, <2>3 DEF Init, MemoryInv
<1>2. MemoryInv /\ UNCHANGED vars => MemoryInv'
  BY DEF vars, MemoryInv
<1>3. IInv /\ MemoryInv /\ [Next]_vars => (IInv /\ MemoryInv)'
  <2> SUFFICES ASSUME IInv, MemoryInv, Next PROVE IInv' /\ MemoryInv'
    BY <1>2, StepInv
  <2>1. IInv' /\ db'.driver = db.driver
    BY StepInv
  <2>2. CASE db.driver = "memory"
    BY <2>1, <2>2, MemoryStep
  <2>3. CASE db.driver # "memory"
    BY <2>1, <2>3 DEF MemoryInv
  <2> QED BY <2>2, <2>3
<1> QED BY <1>1, <1>3, InitInv, PTL DEF Spec

(* In a memory database every page is live or on the free list: nothing is *)
(* leaked.                                                                 *)
THEOREM NothingOrphaned == Spec => []NoOrphan
<1>1. MemoryInv => NoOrphan
  BY DEF MemoryInv, NoOrphan, Balanced, Live
<1> QED BY <1>1, MemoryInvariance, PTL

(* In a memory database databases[] never names a freed page.              *)
THEOREM RootsLive == Spec => []RootLive
<1>1. MemoryInv => RootLive
  BY DEF MemoryInv, RootLive, Balanced, Live
<1> QED BY <1>1, MemoryInvariance, PTL

=============================================================================
