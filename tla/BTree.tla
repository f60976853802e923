-------------------------------- MODULE BTree --------------------------------
(***************************************************************************)
(* page_btree.c: B-trees whose nodes are pages.  Every database has a tree *)
(* of its keys, and hashes, sets and sorted sets are trees of the same     *)
(* kind; all trees take their pages from one page layer, here the memory   *)
(* driver's, in one transaction.  A tree is named by the entry of          *)
(* databases[] that holds its page.                                        *)
(*                                                                         *)
(* Operators return the handle d that the C function leaves behind.  An    *)
(* element is a score and its value: the code keeps them in two arrays     *)
(* that it always moves together.  Positions count from 1 where the code   *)
(* counts from 0.                                                          *)
(***************************************************************************)
EXTENDS MemoryPages, Sequences, FiniteSets, SequencesExt

CONSTANTS
    MaxNodeSize,   \* max_node_size
    Scores,        \* digests, or other scores, in the order of cmp
    None,          \* no value
    Loads,         \* the scores added before a run starts, in their order
    MaxOps         \* bound on the scores added, updated and removed after that

(* rl_btree_create: "make btree work with even number of elements" means that *)
(* it works with no other.                                                     *)
ASSUME NodeSizeAssumption == MaxNodeSize \in Nat \ {0} /\ MaxNodeSize % 2 = 0
ASSUME ScoresAssumption == Scores \subseteq Nat /\ None \notin Values
ASSUME BoundAssumption == MaxOps \in Nat /\ Loads \subseteq Seq(Scores)

VARIABLES
    db,      \* the handle
    dict,    \* history: what the nodes hold, as functions from scores
    lost,    \* history: the roots that were replaced and not freed
    ops      \* how many scores have been added, updated and removed
vars == <<db, dict, lost, ops>>

Trees == Databases
Half == MaxNodeSize \div 2
Element(s, v) == [score |-> s, val |-> v]
NoElement == [score |-> None, val |-> None]

-----------------------------------------------------------------------------
(* Nodes and tree pages. *)

Els(d, p) == Obj(d, p).els
Kids(d, p) == Obj(d, p).kids
Tree(d, t) == Obj(d, d.dbs[t])

Node(els, kids) == [els |-> els, kids |-> kids]
TreeObj(root, height, count) == [root |-> root, height |-> height, count |-> count]

(* The pages of a tree's nodes, level by level; a page that two nodes share *)
(* occurs twice.                                                           *)
Levels(d, t) ==
    LET level[i \in 1 .. Tree(d, t).height] ==
          IF i = 1 THEN <<Tree(d, t).root>>
          ELSE FlattenSeq([j \in 1 .. Len(level[i - 1]) |-> Kids(d, level[i - 1][j])])
    IN level
Nodes(d, t) == FlattenSeq(Levels(d, t))
Elements(d, t) ==
    LET nodes == Nodes(d, t) IN FlattenSeq([j \in 1 .. Len(nodes) |-> Els(d, nodes[j])])

(* What a tree holds, whether a search finds it or not. *)
Held(d, t) ==
    LET els == ToSet(Elements(d, t))
    IN [s \in Scores |-> IF \E e \in els : e.score = s
                            THEN (CHOOSE e \in els : e.score = s).val ELSE None]
Contents(d) ==
    [t \in Trees |-> IF d.dbs[t] = 0 THEN [s \in Scores |-> None] ELSE Held(d, t)]

-----------------------------------------------------------------------------
(* rl_btree_find_score *)

(* The binary search within a node: the place of the score, or the place   *)
(* where it belongs.                                                       *)
Search(els, s) ==
    LET find[min \in 1 .. Len(els) + 1, max \in 0 .. Len(els)] ==
          LET pos == (max - min) \div 2 + min
              here == els[pos].score
          IN IF s = here THEN pos
             ELSE IF s > here
               THEN IF max = pos THEN pos + 1
                    ELSE find[IF min = pos THEN min + 1 ELSE pos, max]
               ELSE IF max = pos THEN pos ELSE find[min, pos]
    IN IF els = <<>> THEN 1 ELSE find[1, Len(els)]

(* nodes[] and positions[]: the pages from the root down to the one that   *)
(* has the score, or to a leaf.                                            *)
Visit(d, p, s) == [page |-> p, pos |-> Search(Els(d, p), s)]
HasScore(d, v, s) ==
    v.pos <= Len(Els(d, v.page)) /\ Els(d, v.page)[v.pos].score = s
Child(d, v) == Kids(d, v.page)[v.pos]

Path(d, t, s) ==
    LET down[i \in 1 .. Tree(d, t).height] ==
          IF i = 1 THEN <<Visit(d, Tree(d, t).root, s)>>
          ELSE LET v == Last(down[i - 1])
               IN IF HasScore(d, v, s) THEN down[i - 1]
                  ELSE Append(down[i - 1], Visit(d, Child(d, v), s))
    IN down[Tree(d, t).height]

Found(d, t, s) == HasScore(d, Last(Path(d, t, s)), s)

-----------------------------------------------------------------------------
(* rl_btree_add_element *)

(* The element e, and the page kid of the nodes after it, enter at pos. *)
Inserted(n, pos, e, kid) ==
    Node(InsertAt(n.els, pos, e),
         IF kid = 0 THEN n.kids ELSE InsertAt(n.kids, pos + 1, kid))

(* A full node is split around the element that goes up, which depends on  *)
(* where the new one belongs.                                              *)
Split(n, pos, e, kid) ==
    LET low == SubSeq(n.els, 1, Half)
        high == SubSeq(n.els, Half + 1, MaxNodeSize)
        lowKids == SubSeq(n.kids, 1, Half + 1)
        highKids == SubSeq(n.kids, Half + 2, MaxNodeSize + 1)
        into(els, kids, at) == Inserted(Node(els, kids), at, e, kid)
        leaf == kid = 0
    IN IF pos <= Half
         THEN [left  |-> into(Front(low), IF leaf THEN <<>> ELSE Front(lowKids), pos),
               up    |-> Last(low),
               right |-> Node(high, IF leaf THEN <<>> ELSE <<Last(lowKids)>> \o highKids)]
       ELSE IF pos = Half + 1
         THEN [left  |-> Node(low, IF leaf THEN <<>> ELSE lowKids),
               up    |-> e,
               right |-> Node(high, IF leaf THEN <<>> ELSE <<kid>> \o highKids)]
         ELSE [left  |-> Node(low, IF leaf THEN <<>> ELSE lowKids),
               up    |-> Head(high),
               right |-> into(Tail(high), IF leaf THEN <<>> ELSE highKids, pos - Half - 1)]

(* One level of the way up: c.up still has to be stored, with c.kid, the   *)
(* page of the node that was split off below.                              *)
AddAt(v, c) ==
    LET n == Obj(c.d, v.page)
        s == Split(n, v.pos, c.up, c.kid)
        d == Save(c.d, v.page, s.left)
    IN IF c.up = NoElement THEN c
       ELSE IF Len(n.els) < MaxNodeSize
         THEN [d |-> Save(c.d, v.page, Inserted(n, v.pos, c.up, c.kid)),
               up |-> NoElement, kid |-> 0]
         ELSE [d |-> Save(d, d.next, s.right), up |-> s.up, kid |-> d.next]

AddElement(d, t, e) ==
    LET tree == Tree(d, t)
        c == FoldRight(AddAt, Path(d, t, e.score), [d |-> d, up |-> e, kid |-> 0])
        root == c.d.next
        grown == Save(c.d, root, Node(<<c.up>>, <<tree.root, c.kid>>))
    IN IF c.up = NoElement
         THEN Save(c.d, d.dbs[t], [tree EXCEPT !.count = @ + 1])
         ELSE Save(grown, d.dbs[t], TreeObj(root, tree.height + 1, tree.count + 1))

-----------------------------------------------------------------------------
(* rl_btree_remove_element *)

(* The path continued to the leaf that holds the element before an inner   *)
(* one: to the left of the element, and then always to the right.          *)
ToLeaf(d, t, path) ==
    LET down[i \in Len(path) .. Tree(d, t).height] ==
          IF i = Len(path) THEN path
          ELSE LET p == Child(d, Last(down[i - 1]))
               IN Append(down[i - 1], [page |-> p, pos |-> Len(Els(d, p)) + 1])
    IN down[Tree(d, t).height]

(* The element goes away: the leaf's last element takes the place of an    *)
(* inner one.                                                              *)
TakeOut(d, v, leaf) ==
    LET n == Obj(d, v.page)
        l == Obj(d, leaf.page)
    IN IF v = leaf
         THEN Save(d, v.page, [n EXCEPT !.els = RemoveAt(@, v.pos)])
         ELSE Save(Save(d, v.page, [n EXCEPT !.els[v.pos] = Last(l.els)]),
                   leaf.page, [l EXCEPT !.els = Front(@)])

(* The node p, the child at pos of its parent q, has too few elements.     *)
(* The left sibling's last element goes to the parent, and the parent's    *)
(* comes down.                                                             *)
BorrowLeft(d, q, pos, p) ==
    LET sibling == Kids(d, q)[pos - 1]
        n == Obj(d, p)
        l == Obj(d, sibling)
        leaf == n.kids = <<>>
        a == Save(d, p, Node(<<Els(d, q)[pos - 1]>> \o n.els,
                             IF leaf THEN <<>> ELSE <<Last(l.kids)>> \o n.kids))
        b == Save(a, sibling, Node(Front(l.els), IF leaf THEN <<>> ELSE Front(l.kids)))
    IN Save(b, q, [Obj(d, q) EXCEPT !.els[pos - 1] = Last(l.els)])

BorrowRight(d, q, pos, p) ==
    LET sibling == Kids(d, q)[pos + 1]
        n == Obj(d, p)
        r == Obj(d, sibling)
        leaf == n.kids = <<>>
        a == Save(d, sibling, Node(Tail(r.els), IF leaf THEN <<>> ELSE Tail(r.kids)))
        b == Save(a, p, Node(Append(n.els, Els(d, q)[pos]),
                             IF leaf THEN <<>> ELSE Append(n.kids, Head(r.kids))))
    IN Save(b, q, [Obj(d, q) EXCEPT !.els[pos] = Head(r.els)])

(* Mutants: the parent's element is dropped; the page is not freed. *)
MergeSeparated(d, q, pos) ==
    LET n == Obj(d, q)
        l == Obj(d, n.kids[pos])
        r == Obj(d, n.kids[pos + 1])
        a == Save(d, n.kids[pos], Node(l.els \o r.els, l.kids \o r.kids))
        b == Save(a, q, Node(RemoveAt(n.els, pos), RemoveAt(n.kids, pos + 1)))
    IN Drop(b, n.kids[pos + 1])
MergeKeeping(d, q, pos) ==
    LET n == Obj(d, q)
        l == Obj(d, n.kids[pos])
        r == Obj(d, n.kids[pos + 1])
        a == Save(d, n.kids[pos],
                  Node(Append(l.els, n.els[pos]) \o r.els, l.kids \o r.kids))
    IN Save(a, q, Node(RemoveAt(n.els, pos), RemoveAt(n.kids, pos + 1)))

(* The children at pos and pos + 1 of q become one, with the element       *)
(* between them; the right one's page is freed.                            *)
Merge(d, q, pos) ==
    LET n == Obj(d, q)
        l == Obj(d, n.kids[pos])
        r == Obj(d, n.kids[pos + 1])
        a == Save(d, n.kids[pos],
                  Node(Append(l.els, n.els[pos]) \o r.els, l.kids \o r.kids))
        b == Save(a, q, Node(RemoveAt(n.els, pos), RemoveAt(n.kids, pos + 1)))
    IN Drop(b, n.kids[pos + 1])

(* Mutant: a sibling that has no more than it needs lends, too. *)
RebalanceGreedy(i, path, c) ==
    LET p == path[i].page
        q == path[i - 1].page
        pos == path[i - 1].pos
        size(at) == Len(Els(c.d, Kids(c.d, q)[at]))
    IN IF c.done \/ Len(Els(c.d, p)) >= Half THEN [c EXCEPT !.done = TRUE]
       ELSE IF pos > 1 /\ size(pos - 1) >= Half
         THEN [d |-> BorrowLeft(c.d, q, pos, p), done |-> TRUE]
       ELSE [d |-> Merge(c.d, q, IF pos > 1 THEN pos - 1 ELSE pos), done |-> FALSE]

(* One level of the way up.  A node that has enough, or borrows, ends it. *)
Rebalance(i, path, c) ==
    LET p == path[i].page
        q == path[i - 1].page
        pos == path[i - 1].pos
        size(at) == Len(Els(c.d, Kids(c.d, q)[at]))
        last == Len(Kids(c.d, q))
    IN IF c.done \/ Len(Els(c.d, p)) >= Half THEN [c EXCEPT !.done = TRUE]
       ELSE IF pos > 1 /\ size(pos - 1) > Half
         THEN [d |-> BorrowLeft(c.d, q, pos, p), done |-> TRUE]
       ELSE IF pos < last /\ size(pos + 1) > Half
         THEN [d |-> BorrowRight(c.d, q, pos, p), done |-> TRUE]
       ELSE [d |-> Merge(c.d, q, IF pos > 1 THEN pos - 1 ELSE pos), done |-> FALSE]

(* An empty root is replaced by its only child, and its page is not freed; *)
(* an empty tree's root is.                                                *)
ShrinkRoot(d, tree) ==
    LET n == Obj(d, tree.root)
    IN IF n.els # <<>> THEN [d |-> d, tree |-> tree]
       ELSE IF n.kids # <<>>
         THEN [d |-> d, tree |-> [tree EXCEPT !.root = n.kids[1], !.height = @ - 1]]
         ELSE [d |-> Drop(d, tree.root), tree |-> [tree EXCEPT !.root = 0, !.height = @ - 1]]

(* With the last element the tree's page goes, and rl_key_delete resets    *)
(* the database's entry.                                                   *)
RemoveElement(d, t, s) ==
    LET found == Path(d, t, s)
        path == ToLeaf(d, t, found)
        taken == TakeOut(d, Last(found), Last(path))
        up(i, c) == Rebalance(i, path, c)
        levels == [i \in 1 .. Len(path) - 1 |-> i + 1]
        c == FoldRight(up, levels, [d |-> taken, done |-> FALSE])
        r == IF c.done THEN [d |-> c.d, tree |-> Tree(d, t)]
                       ELSE ShrinkRoot(c.d, Tree(d, t))
    IN IF r.tree.count = 1
         THEN [Drop(r.d, d.dbs[t]) EXCEPT !.dbs[t] = 0]
         ELSE Save(r.d, d.dbs[t], [r.tree EXCEPT !.count = @ - 1])

-----------------------------------------------------------------------------
(* rl_btree_delete: the pages below a node, children before their parents. *)
PagesBelow(d, p, height) ==
    LET below[h \in 1 .. height, q \in Page] ==
          IF h = 1 THEN <<>>
          ELSE FlattenSeq([i \in 1 .. Len(Kids(d, q)) |->
                             Append(below[h - 1, Kids(d, q)[i]], Kids(d, q)[i])])
    IN below[height, p]

DeleteTree(d, t) ==
    LET tree == Tree(d, t)
        nodes == Append(PagesBelow(d, tree.root, tree.height), tree.root)
    IN FoldLeft(Drop, d, nodes)

-----------------------------------------------------------------------------
(* rl_btree_iterator_create and rl_btree_iterator_next: it is the stack of  *)
(* nodes and positions.                                                    *)
Descend(d, it, height) ==
    LET down[i \in Len(it) .. height] ==
          IF i = Len(it) THEN it
          ELSE Append(down[i - 1], [page |-> Child(d, Last(down[i - 1])), pos |-> 1])
    IN down[height]
IteratorCreate(d, tree) ==
    Descend(d, <<[page |-> tree.root, pos |-> 1]>>, tree.height)

Advanced(it) == [it EXCEPT ![Len(it)].pos = @ + 1]
(* Mutant: a node with one element left counts as done. *)
AscendPast(d, it) ==
    LET left == {i \in 1 .. Len(it) : it[i].pos < Len(Els(d, it[i].page))}
    IN SubSeq(it, 1, IF left = {} THEN 0 ELSE Max(left))
(* Back up to the nearest node that has an element left. *)
Ascend(d, it) ==
    LET left == {i \in 1 .. Len(it) : it[i].pos <= Len(Els(d, it[i].page))}
    IN SubSeq(it, 1, IF left = {} THEN 0 ELSE Max(left))
IteratorNext(d, tree, it) ==
    LET top == Last(it)
    IN IF Kids(d, top.page) # <<>> THEN Descend(d, Advanced(it), tree.height)
       ELSE IF top.pos = Len(Els(d, top.page)) THEN Ascend(d, Front(it))
       ELSE Advanced(it)

(* What an iterator yields, and where it then is. *)
Iterated(d, t) ==
    LET tree == Tree(d, t)
        run[k \in 0 .. tree.count] ==
          IF k = 0 THEN [out |-> <<>>, it |-> IteratorCreate(d, tree)]
          ELSE LET r == run[k - 1]
                   top == Last(r.it)
               IN IF r.it = <<>> THEN r
                  ELSE [out |-> Append(r.out, Els(d, top.page)[top.pos]),
                        it |-> IteratorNext(d, tree, r.it)]
    IN run[tree.count]

-----------------------------------------------------------------------------
(* The bound on the number of pages: enough for every node to be split. *)
HasRoom(t) ==
    (IF db.dbs[t] = 0 THEN 2 ELSE Tree(db, t).height + 1)
       <= Room(db)

(* rl_get_key_btree with create, rl_btree_create_size *)
CreateTree(d, t) ==
    LET e == Save(d, d.next, Node(<<>>, <<>>))
        f == [e EXCEPT !.dbs[t] = e.next]
    IN Save(f, f.next, TreeObj(d.next, 1, 0))

(* A run starts with nothing, or with one tree that has been loaded. *)
Loaded(t, load, v) ==
    LET add(d, s) == AddElement(d, t, Element(s, v))
    IN FoldLeft(add, CreateTree(NewDb, t), load)

Init ==
    /\ \/ db = NewDb
       \/ \E t \in Trees, load \in Loads, v \in Values : db = Loaded(t, load, v)
    /\ dict = Contents(db)
    /\ lost = {}
    /\ ops = 0

Create(t) ==
    /\ db.dbs[t] = 0 /\ HasRoom(t)
    /\ db' = CreateTree(db, t)
    /\ UNCHANGED <<lost, ops>>

(* A score that is there already is an error and changes nothing. *)
Add(t, s, v) ==
    /\ db.dbs[t] # 0 /\ HasRoom(t)
    /\ ops < MaxOps /\ ops' = ops + 1
    /\ db' = IF Found(db, t, s) THEN db ELSE AddElement(db, t, Element(s, v))
    /\ UNCHANGED lost

(* rl_btree_update_element *)
Update(t, s, v) ==
    LET at == Last(Path(db, t, s))
    IN /\ db.dbs[t] # 0 /\ Found(db, t, s)
       /\ ops < MaxOps /\ ops' = ops + 1
       /\ db' = Save(db, at.page, [Obj(db, at.page) EXCEPT !.els[at.pos].val = v])
       /\ UNCHANGED lost

RemoveScore(t, s) ==
    /\ db.dbs[t] # 0 /\ Found(db, t, s)
    /\ ops < MaxOps /\ ops' = ops + 1
    /\ db' = RemoveElement(db, t, s)
    /\ lost' = IF db'.dbs[t] # 0 /\ Tree(db', t).height < Tree(db, t).height
                 THEN lost \cup {Tree(db, t).root} ELSE lost

(* rl_flushdb: the nodes, then the tree's page. *)
Flush(t) ==
    /\ db.dbs[t] # 0
    /\ db' = [Drop(DeleteTree(db, t), db.dbs[t]) EXCEPT !.dbs[t] = 0]
    /\ UNCHANGED <<lost, ops>>

Next ==
    /\ \E t \in Trees :
          \/ Create(t)
          \/ \E s \in Scores, v \in Values : Add(t, s, v) \/ Update(t, s, v)
          \/ \E s \in Scores : RemoveScore(t, s)
          \/ Flush(t)
    /\ dict' = Contents(db')

Spec == Init /\ [][Next]_vars

-----------------------------------------------------------------------------
Open == {t \in Trees : db.dbs[t] # 0}

(* rl_btree_is_balanced, and what it leaves out: all leaves are on the last *)
(* level, inner nodes have a child more than elements, nodes other than the *)
(* root are at least half full, and number_of_elements counts the elements. *)
Balanced ==
    \A t \in Open :
       LET tree == Tree(db, t)
       IN /\ tree.count = Len(Elements(db, t))
          /\ \A i \in 1 .. tree.height : \A p \in ToSet(Levels(db, t)[i]) :
                LET size == Len(Els(db, p))
                IN /\ size <= MaxNodeSize
                   /\ i > 1 => size >= Half
                   /\ Len(Kids(db, p)) = IF i = tree.height THEN 0 ELSE size + 1

(* rl_btree_find_score finds every score that is in the tree, and an        *)
(* iterator yields the elements once each, in the order of their scores.    *)
Finds ==
    \A t \in Open :
       /\ \A s \in Scores :
             Found(db, t, s) <=> \E e \in ToSet(Elements(db, t)) : e.score = s
       /\ Tree(db, t).count # 0 =>
             LET r == Iterated(db, t)
             IN /\ r.it = <<>>
                /\ Len(r.out) = Tree(db, t).count
                /\ \A i \in 1 .. Len(r.out) - 1 : r.out[i].score < r.out[i + 1].score

(* Every page is a node of one tree, a tree's page, free, or a root that    *)
(* was replaced by its only child; no page is two of these, or lost in any  *)
(* other way.                                                              *)
PagesAccounted ==
    LET trees == SetToSeq(Open)
        owned == FreePages(db) \o SetToSeq(lost)
                 \o FlattenSeq([i \in 1 .. Len(trees) |->
                                  Append(Nodes(db, trees[i]), db.dbs[trees[i]])])
    IN /\ Len(owned) = db.npages - 1
       /\ ToSet(owned) = 1 .. db.npages - 1

Dict == INSTANCE Dictionary WITH open <- Open

(* Whatever is split, borrowed and merged, only the score that was added,   *)
(* updated or removed changes.                                              *)
Implements == Dict!Spec

=============================================================================
