------------------------------- MODULE Lists -------------------------------
(* type_list.c and its commands in hirlite.c: a value is the sequence of   *)
(* the pages of its strings.                                               *)
EXTENDS Keyspace

(* rl_llist_get_objects *)
ListObjects(d, key, update, create) ==
    Objects(d, key, "list", update, create, ExpiresOf(d, key, create))

(* A string at a position counted from 0, or from the right from -1 *)
ListPut(d, key, s, position) ==
    LET list == Value(d, key)
        i == IF position < 0 THEN Len(list) + position + 2 ELSE position + 1
    IN SetValue(SetString(d, s), key, InsertAt(list, i, StringPage(d)))

(* The string at a position and its place in the list; the key is deleted  *)
(* with the last one (RL_DELETED of rl_list_remove_element).               *)
ListTake(d, key, position) ==
    LET list == Value(d, key)
        i == IF position < 0 THEN Len(list) + position + 1 ELSE position + 1
        e == DeleteStrings(d, {list[i]})
    IN IF Len(list) = 1 THEN KeyDelete(e, key) ELSE SetValue(e, key, RemoveAt(list, i))

(* rl_push *)
Push(d, key, create, left, values) ==
    LET put(e, s) == ListPut(e, key, s, IF left THEN 0 ELSE -1)
    IN Then(ListObjects(d, key, TRUE, create),
            LAMBDA e : Ret(FoldLeft(put, e, values), <<Len(Value(e, key)) + Len(values)>>))

(* rl_pop *)
Pop(d, key, left) ==
    Then(ListObjects(d, key, TRUE, FALSE),
         LAMBDA e : LET list == Value(e, key)
                    IN Ret(ListTake(e, key, IF left THEN 0 ELSE -1),
                           <<e.heap[IF left THEN Head(list) ELSE Last(list)]>>))

(* rpoplpushCommand *)
Rpoplpush(d, source, destination) ==
    LET popped == Pop(d, source, FALSE)
        pushed == Push(popped.db, destination, TRUE, TRUE, popped.out)
    IN Then(popped, LAMBDA e : Then(pushed, LAMBDA f : Ret(f, popped.out)))

(* rl_linsert *)
Linsert(d, key, after, pivot, s) ==
    LET insert(e) ==
          LET list == Value(e, key)
              at == {i \in DOMAIN list : e.heap[list[i]] = pivot}
          IN IF at = {} THEN Fail(e, "not found")
             ELSE Ret(ListPut(e, key, s, Min(at) - 1 + (IF after THEN 1 ELSE 0)),
                      <<Len(list) + 1>>)
    IN Then(ListObjects(d, key, TRUE, FALSE), insert)

(* search: the first position in a direction from start on, or none *)
Search(d, list, s, start, direction) ==
    LET at == {i \in DOMAIN list : d.heap[list[i]] = s
                                   /\ IF direction > 0 THEN i - 1 >= start ELSE i - 1 <= start}
    IN IF at = {} THEN {} ELSE {(IF direction > 0 THEN Min(at) ELSE Max(at)) - 1}

(* rl_lrem: pos stays where an element was removed; to the left it goes on. *)
LremStep(key, s, direction, r) ==
    LET found == IF key \in DOMAIN r.db.keys
                   THEN Search(r.db, Value(r.db, key), s, r.pos, direction) ELSE {}
        at == CHOOSE p \in found : TRUE
    IN IF found = {} THEN r
       ELSE [db |-> ListTake(r.db, key, at), count |-> r.count + 1,
             pos |-> IF direction < 0 THEN at - 1 ELSE at]
Lrem(d, key, direction, maxcount, s) ==
    LET remove(e) ==
          LET size == Len(Value(e, key))
              step(r, i) == LremStep(key, s, direction, r)
              end == FoldLeft(step,
                       [db |-> e, count |-> 0, pos |-> IF direction > 0 THEN 0 ELSE size - 1],
                       [i \in 1 .. (IF maxcount = 0 THEN size ELSE maxcount) |-> i])
          IN IF key \in DOMAIN end.db.keys THEN Ret(end.db, <<end.count>>)
             ELSE Fail(end.db, "deleted")
    IN Then(ListObjects(d, key, FALSE, FALSE), remove)

(* rl_lset: the new element is added before the old one is removed. *)
Lset(d, key, index, s) ==
    LET set(e) ==
          LET size == Len(Value(e, key))
              i == IF index < 0 THEN index + size ELSE index
          IN IF i \notin 0 .. size - 1 THEN Fail(e, "invalid parameters")
             ELSE Ret(ListTake(ListPut(e, key, s, i + 1), key, i), <<>>)
    IN Then(ListObjects(d, key, TRUE, FALSE), set)

(* The bounds of a range from 0, as rl_ltrim and rl_lrange_iterator have it *)
ListStart(start, size) == IF start < 0 THEN Max({start + size, 0}) ELSE start
ListStop(stop, size) ==
    LET s == IF stop < 0 THEN stop + size ELSE stop IN IF s >= size THEN size - 1 ELSE s

(* rl_ltrim *)
Ltrim(d, key, start, stop) ==
    LET trim(e) ==
          LET size == Len(Value(e, key))
              from == ListStart(start, size)
              to == ListStop(stop, size)
              left(f, i) == ListTake(f, key, 0)
              right(f, i) == ListTake(f, key, -1)
          IN IF from > to THEN Fail(DeleteWithValue(e, key).db, "deleted")
             ELSE Ret(FoldLeft(right, FoldLeft(left, e, [i \in 1 .. from |-> i]),
                               [i \in 1 .. size - 1 - to |-> i]), <<>>)
    IN Then(ListObjects(d, key, TRUE, FALSE), trim)

-----------------------------------------------------------------------------
(* rl_llen, rl_lindex and rl_lrange *)
Llen(d, key) ==
    Then(ListObjects(d, key, FALSE, FALSE), LAMBDA e : Ret(e, <<Len(Value(e, key))>>))
Lindex(d, key, index) ==
    LET element(e) ==
          LET list == Value(e, key)
              i == IF index < 0 THEN index + Len(list) ELSE index
          IN IF i \notin 0 .. Len(list) - 1 THEN Fail(e, "invalid parameters")
             ELSE Ret(e, <<e.heap[list[i + 1]]>>)
    IN Then(ListObjects(d, key, FALSE, FALSE), element)
Lrange(d, key, start, stop) ==
    LET range(e) ==
          LET list == Value(e, key)
              part == SubSeq(list, ListStart(start, Len(list)) + 1, ListStop(stop, Len(list)) + 1)
          IN Ret(e, <<[i \in DOMAIN part |-> e.heap[part[i]]]>>)
    IN Then(ListObjects(d, key, FALSE, FALSE), range)

=============================================================================
