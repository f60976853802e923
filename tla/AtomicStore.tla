---------------------------- MODULE AtomicStore ----------------------------
(***************************************************************************)
(* What a database file shared by several processes promises: transactions *)
(* over the pages run one writer at a time (or any number of readers), and *)
(* a commit replaces all the pages it wrote at once.  Wal.tla, where a     *)
(* commit is a dozen of system calls, is shown to implement it.            *)
(***************************************************************************)
CONSTANTS Writers, Readers, Page, Values, None

Process == Writers \cup Readers
NoPages == [x \in Page |-> None]
Image == [Page -> Values \cup {None}]
Overlay(under, top) == [x \in Page |-> IF top[x] = None THEN under[x] ELSE top[x]]

VARIABLES
    store,    \* the pages of the database
    active,   \* the processes with a transaction under way
    work      \* the pages each of them has written
vars == <<store, active, work>>

Init ==
    /\ store \in Image
    /\ active = {}
    /\ work = [p \in Process |-> NoPages]

(* A transaction begins when no conflicting one is under way.  A database  *)
(* without a header gets one from the first writer.                        *)
Begin(p) ==
    /\ p \notin active
    /\ IF p \in Writers THEN active = {} ELSE active \cap Writers = {}
    /\ active' = active \cup {p}
    /\ work' \in {[work EXCEPT ![p][0] = v] :
                     v \in IF p \in Writers /\ store[0] = None THEN Values ELSE {None}}
    /\ UNCHANGED store

Put(p, x, v) ==
    /\ p \in active \cap Writers
    /\ work' = [work EXCEPT ![p][x] = v]
    /\ UNCHANGED <<store, active>>

Commit(p) ==
    /\ p \in active
    /\ store' = Overlay(store, work[p])
    /\ active' = active \ {p}
    /\ work' = [work EXCEPT ![p] = NoPages]

Abort(p) ==
    /\ p \in active
    /\ active' = active \ {p}
    /\ work' = [work EXCEPT ![p] = NoPages]
    /\ UNCHANGED store

Next ==
    \E p \in Process :
       \/ Begin(p)
       \/ \E x \in Page, v \in Values : Put(p, x, v)
       \/ Commit(p)
       \/ Abort(p)

Spec == Init /\ [][Next]_vars

=============================================================================
