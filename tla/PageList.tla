------------------------------ MODULE PageList ------------------------------
(***************************************************************************)
(* page_list.c: a list whose nodes are pages, linked both ways, with up to *)
(* max_node_size elements in each.  p is the page of the list, which holds *)
(* the first and the last node and the number of elements.  Operators      *)
(* return the handle d that the C function leaves behind.  Positions are   *)
(* the code's: from 0, and from -1 backwards.                              *)
(***************************************************************************)
EXTENDS MemoryPages, Integers, Sequences, SequencesExt

CONSTANT MaxListNode      \* max_node_size
ASSUME ListNodeAssumption == MaxListNode \in Nat \ {0, 1}

ListNode(els, left, right) == [els |-> els, left |-> left, right |-> right]
ListObj(left, right, size) == [left |-> left, right |-> right, size |-> size]
Size(d, q) == Len(Obj(d, q).els)

(* rl_list_create: an empty node.  The caller writes the list's own page,   *)
(* here to the next empty one.                                             *)
ListPage(d) == Save(d, d.next, ListNode(<<>>, 0, 0)).next
ListCreate(d) ==
    LET e == Save(d, d.next, ListNode(<<>>, 0, 0))
    IN Save(e, e.next, ListObj(d.next, d.next, 0))

(* The nodes from the left, and from the right. *)
ListNodes(d, p) ==
    LET from[q \in Page] == IF q = 0 THEN <<>> ELSE <<q>> \o from[Obj(d, q).right]
    IN from[Obj(d, p).left]
ListNodesBack(d, p) ==
    LET from[q \in Page] == IF q = 0 THEN <<>> ELSE <<q>> \o from[Obj(d, q).left]
    IN from[Obj(d, p).right]

(* rl_flatten_list, and what an iterator yields in either direction *)
Flattened(d, p) ==
    LET nodes == ListNodes(d, p)
    IN FlattenSeq([i \in DOMAIN nodes |-> Obj(d, nodes[i]).els])
FlattenedBack(d, p) ==
    LET nodes == ListNodesBack(d, p)
    IN FlattenSeq([i \in DOMAIN nodes |-> Reverse(Obj(d, nodes[i]).els)])

-----------------------------------------------------------------------------
(* rl_find_element_by_position: the node, and the place in it, from the    *)
(* nearer end as the sign of the position says.  add is 1 for a place      *)
(* between elements and 0 for an element.                                  *)
ValidPosition(list, position, add) ==
    position < list.size + add /\ position > -list.size - 1 - add

FindFromLeft(d, list, position) ==
    LET walk[q \in Page, pos \in 0 .. list.size] ==
          IF pos + Size(d, q) > position \/ Obj(d, q).right = 0
            THEN [page |-> q, at |-> position - pos]
            ELSE walk[Obj(d, q).right, pos + Size(d, q)]
    IN walk[list.left, 0]
FindFromRight(d, list, position) ==
    LET walk[q \in Page, end \in 0 .. list.size] ==
          LET pos == end - Size(d, q)
          IN IF pos <= position \/ Obj(d, q).left = 0
               THEN [page |-> q, at |-> position - pos]
               ELSE walk[Obj(d, q).left, pos]
    IN walk[list.right, list.size]
FindPosition(d, list, position, add) ==
    IF position >= 0 THEN FindFromLeft(d, list, position)
                     ELSE FindFromRight(d, list, list.size + position + add)

(* rl_list_get_element *)
GetElement(d, p, position) ==
    LET f == FindPosition(d, Obj(d, p), position, 0)
    IN Obj(d, f.page).els[f.at + 1]

-----------------------------------------------------------------------------
(* rl_list_add_element: into the node; or, when it is full, with the       *)
(* element that is then at its end moved to a neighbour that is not; or    *)
(* with its last element in a new node to its right.                       *)
LendLeft(d, q, all) ==
    LET n == Obj(d, q)
    IN Save(Save(d, q, [n EXCEPT !.els = Tail(all)]),
            n.left, [Obj(d, n.left) EXCEPT !.els = Append(@, Head(all))])

(* Mutant: the element goes to the wrong end of the neighbour. *)
LendRightLast(d, q, all) ==
    LET n == Obj(d, q)
    IN Save(Save(d, q, [n EXCEPT !.els = Front(all)]),
            n.right, [Obj(d, n.right) EXCEPT !.els = Append(@, Last(all))])
LendRight(d, q, all) ==
    LET n == Obj(d, q)
    IN Save(Save(d, q, [n EXCEPT !.els = Front(all)]),
            n.right, [Obj(d, n.right) EXCEPT !.els = <<Last(all)>> \o @])

NewNode(d, q, list, all) ==
    LET n == Obj(d, q)
        new == d.next
        a == Save(d, new, ListNode(<<Last(all)>>, q, n.right))
        b == Save(a, q, ListNode(Front(all), n.left, new))
    IN IF n.right = 0
         THEN [d |-> b, list |-> [list EXCEPT !.right = new]]
         ELSE [d |-> Save(b, n.right, [Obj(b, n.right) EXCEPT !.left = new]), list |-> list]

AddElement(d, p, e, position) ==
    LET list == Obj(d, p)
        f == FindPosition(d, list, position, 1)
        n == Obj(d, f.page)
        all == InsertAt(n.els, f.at + 1, e)
        roomy(q) == q # 0 /\ Size(d, q) # MaxListNode
        same(h) == [d |-> h, list |-> list]
        r == IF Len(n.els) # MaxListNode THEN same(Save(d, f.page, [n EXCEPT !.els = all]))
             ELSE IF roomy(n.left) THEN same(LendLeft(d, f.page, all))
             ELSE IF roomy(n.right) THEN same(LendRight(d, f.page, all))
             ELSE NewNode(d, f.page, list, all)
    IN Save(r.d, p, [r.list EXCEPT !.size = @ + 1])

-----------------------------------------------------------------------------
(* rl_list_remove_element *)

(* The neighbours of a node, or the list, point past it; its page is freed. *)
Unlink(d, q, list) ==
    LET n == Obj(d, q)
        a == IF n.left = 0 THEN d
             ELSE Save(d, n.left, [Obj(d, n.left) EXCEPT !.right = n.right])
        b == IF n.right = 0 THEN a
             ELSE Save(a, n.right, [Obj(a, n.right) EXCEPT !.left = n.left])
    IN [d |-> Drop(b, q),
        list |-> [list EXCEPT !.left = IF @ = q THEN n.right ELSE @,
                              !.right = IF @ = q THEN n.left ELSE @]]

(* A node that is left empty goes away; one that fits into its left or     *)
(* else its right neighbour is merged into that.                           *)
TakeElement(d, q, at, list) ==
    LET n == Obj(d, q)
        els == RemoveAt(n.els, at + 1)
        fits(s) == s # 0 /\ Size(d, s) + Len(els) <= MaxListNode
    IN IF els = <<>> THEN Unlink(d, q, list)
       ELSE IF fits(n.left)
         THEN Unlink(Save(d, n.left, [Obj(d, n.left) EXCEPT !.els = @ \o els]), q, list)
       ELSE IF fits(n.right)
         THEN Unlink(Save(d, n.right, [Obj(d, n.right) EXCEPT !.els = els \o @]), q, list)
       ELSE [d |-> Save(d, q, [n EXCEPT !.els = els]), list |-> list]

(* With its last element the list goes, its last node first. *)
RemoveElement(d, p, position) ==
    LET list == Obj(d, p)
        f == FindPosition(d, list, position, 0)
        r == TakeElement(d, f.page, f.at, list)
    IN IF list.size = 1 THEN Drop(r.d, p)
       ELSE Save(r.d, p, [r.list EXCEPT !.size = @ - 1])

(* rl_list_delete frees the nodes; its callers free the list's page. *)
ListDelete(d, p) == Drop(FoldLeft(Drop, d, ListNodes(d, p)), p)

-----------------------------------------------------------------------------
(* rl_list_pages, and the list's own page *)
ListPages(d, p) == Append(ListNodes(d, p), p)

(* rl_list_is_balanced, and the links it leaves out *)
ListBalanced(d, p) ==
    LET list == Obj(d, p)
        nodes == ListNodes(d, p)
        size(i) == Size(d, nodes[i])
    IN /\ list.size = Len(Flattened(d, p))
       /\ ListNodesBack(d, p) = Reverse(nodes)
       /\ \A i \in DOMAIN nodes : size(i) \in 1 .. MaxListNode
       /\ \A i \in 1 .. Len(nodes) - 1 : size(i) + size(i + 1) >= MaxListNode

=============================================================================
