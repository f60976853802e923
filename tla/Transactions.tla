---------------------------- MODULE Transactions ----------------------------
(***************************************************************************)
(* Clients of one database file: the commands on keys (rlite.c,            *)
(* type_string.c), MULTI, EXEC, DISCARD and WATCH (hirlite.c), and the     *)
(* versions that WATCH relies on (page_key.c).  A client is a process with *)
(* one context.                                                            *)
(*                                                                         *)
(* Wal.tla shows that what happens between taking the file's lock and      *)
(* giving it back is one atomic step, so here a command reads and writes   *)
(* keys directly, in one step.  What is kept of the locking is when it is  *)
(* taken and when it is given back: a client waits for it once per call    *)
(* and once more in EXEC, and others run in between.                       *)
(***************************************************************************)
EXTENDS Naturals, Sequences, FiniteSets

CONSTANTS
    Clients,      \* processes, each with one context
    Keys,         \* names of keys
    Databases,    \* what SELECT accepts; a new context has FirstDatabase
    FirstDatabase,
    Values,       \* what a string can be
    None,         \* no value; no client
    Ops,          \* the commands clients use, a subset of AllOps
    FirstDraw,    \* how often each process has called rand() before
    MaxDraws,     \* bound on a process's calls of rand(), those included
    MaxUpdates,   \* bound on the updates of a key between two creations
    MaxQueue,     \* bound on the commands in a transaction
    MaxWatched,   \* bound on the keys a client watches
    Watchers      \* bound: the clients that use WATCH and MULTI

AllOps == {"SET", "APPEND", "GET", "DEL", "EXPIRE", "PERSIST", "RENAME",
           "RENAMENX", "MOVE", "SELECT", "FLUSHDB", "UNWATCH"}

ASSUME DatabaseAssumption == FirstDatabase \in Databases
ASSUME NoneAssumption == None \notin Clients \cup Values
ASSUME OpsAssumption == Ops \subseteq AllOps
ASSUME DrawAssumption == FirstDraw \in [Clients -> Nat]
ASSUME BoundAssumption ==
    /\ MaxDraws \in Nat /\ MaxUpdates \in Nat /\ MaxQueue \in Nat /\ MaxWatched \in Nat
    /\ Watchers \subseteq Clients

Command == {m \in
    [op : {"SET", "APPEND"}, key : Keys, val : Values]
    \cup [op : {"GET", "DEL", "EXPIRE", "PERSIST"}, key : Keys]
    \cup [op : {"RENAME", "RENAMENX"}, key : Keys, to : Keys]
    \cup [op : {"MOVE"}, key : Keys, db : Databases]
    \cup [op : {"SELECT"}, db : Databases]
    \cup [op : {"FLUSHDB", "UNWATCH"}] : m.op \in Ops}

(* A version: the call of rand() that a key got it from when it was set    *)
(* (none for the versions 0 and 1), and how often it was increased.  That  *)
(* draws are further apart than a key is ever updated is an assumption.    *)
Zero == [draw |-> 0, updates |-> 0]
After(version) == [version EXCEPT !.updates = @ + 1]

(* An rl_key: its value, its expiry (never, still to come, or past) and    *)
(* its version; version 0 is reserved for keys that do not exist.          *)
NoEntry == [val |-> None, ttl |-> "never", version |-> Zero]

VARIABLES
    keys,      \* the key trees, as committed
    lock,      \* the client that holds the file's lock, or None
    draws,     \* how often each process has called rand()
    selected,  \* selected_database of each client's handle
    watched,   \* each client's watchedKeys
    ctx        \* the rest of each client's rliteContext
vars == <<keys, lock, draws, selected, watched, ctx>>

(* A context: pc, where the client is in a call; inTransaction;            *)
(* transactionFailed; enqueuedCommands.  A watched key has the key, the    *)
(* database and the version of the WATCH, and three history fields: what   *)
(* was seen, whether a command has touched the key since, and whether      *)
(* rand() has returned the version's number again since.                   *)
NewContext == [pc |-> "idle", multi |-> FALSE, failed |-> FALSE, queue |-> <<>>]

Init ==
    /\ keys = [d \in Databases |-> [k \in Keys |-> NoEntry]]
    /\ lock = None
    /\ draws = FirstDraw
    /\ selected = [c \in Clients |-> FirstDatabase]
    /\ watched = [c \in Clients |-> {}]
    /\ ctx = [c \in Clients |-> NewContext]

-----------------------------------------------------------------------------
(* The commands on keys.  What a command works on is a record s: the key   *)
(* trees, the selected database and the process's calls of rand().         *)

Exists(e) == e.version # Zero
Content(e) == [val |-> e.val, expires |-> e.ttl # "never"]
Found(e) == Exists(e) /\ e.ttl # "past"

(* rand(), never seeded: the n-th call returns the same in every process. *)
Rand(n) == [draw |-> n + 1, updates |-> 0]

Entry(s, k) == s.keys[s.db][k]
With(s, k, e) == [s EXCEPT !.keys[s.db][k] = e]
Without(s, k) == With(s, k, NoEntry)

(* rl_key_get: an expired key is deleted by whoever looks it up. *)
Lookup(s, k) == IF Found(Entry(s, k)) THEN s ELSE Without(s, k)

(* Mutant: the version reserved for missing keys is stored. *)
KeySetReserved(s, k, val, ttl, version) ==
    With(s, k, [val |-> val, ttl |-> ttl, version |-> version])

(* rl_key_set: version 0 becomes 1. *)
KeySet(s, k, val, ttl, version) ==
    With(s, k, [val |-> val, ttl |-> ttl, version |-> IF version = Zero THEN After(Zero) ELSE version])

(* Mutants of rl_set and rl_append: an existing key keeps its version. *)
SetUnversioned(s, k, v) ==
    IF Found(Entry(s, k))
      THEN KeySet(s, k, v, "never", Entry(s, k).version)
      ELSE KeySet([s EXCEPT !.draws = @ + 1], k, v, "never", After(Rand(s.draws)))

Set(s, k, v) ==
    IF Found(Entry(s, k))
      THEN KeySet(s, k, v, "never", After(Entry(s, k).version))
      ELSE KeySet([s EXCEPT !.draws = @ + 1], k, v, "never", After(Rand(s.draws)))

AppendUnversioned(s, k, v) ==
    IF Found(Entry(s, k))
      THEN KeySet(s, k, v, "never", Entry(s, k).version)
      ELSE KeySet([s EXCEPT !.draws = @ + 1], k, v, "never", Rand(s.draws))

(* A key that exists loses its expiry. *)
AppendTo(s, k, v) ==
    IF Found(Entry(s, k))
      THEN KeySet(s, k, v, "never", After(Entry(s, k).version))
      ELSE KeySet([s EXCEPT !.draws = @ + 1], k, v, "never", Rand(s.draws))

Delete(s, k) == Without(s, k)

SetExpiry(s, k, ttl) ==
    LET e == Entry(s, k) IN KeySet(s, k, e.val, ttl, After(e.version))

Expire(s, k) ==
    IF Found(Entry(s, k)) THEN SetExpiry(s, k, "later") ELSE Lookup(s, k)

Persist(s, k) ==
    IF Found(Entry(s, k)) /\ Entry(s, k).ttl # "never"
      THEN SetExpiry(s, k, "never") ELSE Lookup(s, k)

(* Mutant: a target that was there keeps its version. *)
RenameUnversioned(s, k, to, overwrite) ==
    LET target == Entry(s, to)
        r == IF overwrite THEN Without(s, to) ELSE Lookup(s, to)
        e == Entry(r, k)
        version == IF Found(target) THEN target.version ELSE Zero
    IN IF ~overwrite /\ Found(target) THEN s
       ELSE IF Found(e) THEN KeySet(Without(r, k), to, e.val, e.ttl, version)
       ELSE Lookup(r, k)

(* rl_rename: with overwrite the target is deleted before the source is    *)
(* looked up.                                                              *)
Rename(s, k, to, overwrite) ==
    LET target == Entry(s, to)
        r == IF overwrite THEN Without(s, to) ELSE Lookup(s, to)
        e == Entry(r, k)
        version == IF Found(target) THEN After(target.version) ELSE Zero
    IN IF ~overwrite /\ Found(target) THEN s
       ELSE IF Found(e) THEN KeySet(Without(r, k), to, e.val, e.ttl, version)
       ELSE Lookup(r, k)

(* rl_move: the version starts over. *)
Move(s, k, db) ==
    LET e == Entry(s, k)
        there == [Lookup([s EXCEPT !.db = db], k) EXCEPT !.db = s.db]
    IN IF ~Found(e) THEN Lookup(s, k)
       ELSE IF Found(s.keys[db][k]) THEN s
       ELSE [KeySet([Without(there, k) EXCEPT !.db = db], k, e.val, e.ttl, Zero)
               EXCEPT !.db = s.db]

Run(s, m) ==
    CASE m.op = "SET"      -> Set(s, m.key, m.val)
      [] m.op = "APPEND"   -> AppendTo(s, m.key, m.val)
      [] m.op = "GET"      -> Lookup(s, m.key)
      [] m.op = "DEL"      -> Delete(s, m.key)
      [] m.op = "EXPIRE"   -> Expire(s, m.key)
      [] m.op = "PERSIST"  -> Persist(s, m.key)
      [] m.op = "RENAME"   -> Rename(s, m.key, m.to, TRUE)
      [] m.op = "RENAMENX" -> Rename(s, m.key, m.to, FALSE)
      [] m.op = "MOVE"     -> Move(s, m.key, m.db)
      [] m.op = "SELECT"   -> [s EXCEPT !.db = m.db]
      [] m.op = "FLUSHDB"  -> [s EXCEPT !.keys[s.db] = [k \in Keys |-> NoEntry]]
      [] m.op = "UNWATCH"  -> s

RunAll(s, queue) ==
    LET after[i \in 0 .. Len(queue)] ==
          IF i = 0 THEN s ELSE Run(after[i - 1], queue[i])
    IN after[Len(queue)]

(* The bounds, on what a command outside MULTI leaves behind and on what   *)
(* an EXEC starts from.                                                    *)
Bounded(c, s) ==
    /\ s.draws <= MaxDraws
    /\ \A d \in Databases, k \in Keys :
          s.keys[d][k].version.updates <= MaxUpdates + 1

-----------------------------------------------------------------------------
(* Has a command touched a key?  The deletion of an expired key by whoever *)
(* looks it up does not count.                                             *)
Touched(e, f) == f # e /\ ~(e.ttl = "past" /\ ~Exists(f))
(* Has a process that calls rand() from the m-th time to the n-th got a    *)
(* version's number?                                                       *)
DrawnAgain(version, m, n) == m < version.draw /\ version.draw <= n
(* The watches, when the commands of c have worked on s *)
Follow(c, watches, s) ==
    {[w EXCEPT !.touched = @ \/ Touched(keys[w.db][w.key], s.keys[w.db][w.key]),
               !.repeated = @ \/ DrawnAgain(w.version, draws[c], s.draws)] : w \in watches}

(* Mutant: a call that leaves a transaction open keeps the lock. *)
ReturnLocked(c, s, context, watches) ==
    /\ keys' = s.keys
    /\ draws' = [draws EXCEPT ![c] = s.draws]
    /\ selected' = [selected EXCEPT ![c] = s.db]
    /\ watched' = [d \in Clients |-> Follow(c, IF d = c THEN watches ELSE watched[d], s)]
    /\ lock' = IF context.multi THEN c ELSE None
    /\ ctx' = [ctx EXCEPT ![c] = [context EXCEPT !.pc = "idle"]]

(* A call ends in rl_commit, which gives the lock back.  s is what the     *)
(* command has worked on; the command leaves the client a context and      *)
(* watched keys.                                                           *)
Return(c, s, context, watches) ==
    /\ keys' = s.keys
    /\ draws' = [draws EXCEPT ![c] = s.draws]
    /\ selected' = [selected EXCEPT ![c] = s.db]
    /\ watched' = [d \in Clients |-> Follow(c, IF d = c THEN watches ELSE watched[d], s)]
    /\ lock' = None
    /\ ctx' = [ctx EXCEPT ![c] = [context EXCEPT !.pc = "idle"]]

Work(c) == [keys |-> keys, db |-> selected[c], draws |-> draws[c]]
At(c, l) == ctx[c].pc = l

(* rliteAppendCommandClient: rl_refresh closes the file, which gives back  *)
(* a lock still held from a queued command, and opens it again.            *)
Call(c) ==
    /\ At(c, "idle")
    /\ ctx' = [ctx EXCEPT ![c].pc = "refresh"]
    /\ lock' = IF lock = c THEN None ELSE lock
    /\ UNCHANGED <<keys, draws, selected, watched>>

Flock(c) ==
    /\ ctx[c].pc \in {"refresh", "exec"}
    /\ lock = None
    /\ lock' = c
    /\ ctx' = [ctx EXCEPT ![c].pc = IF @ = "refresh" THEN "run" ELSE "check"]
    /\ UNCHANGED <<keys, draws, selected, watched>>

(* Mutant: a command rejected outside MULTI is remembered. *)
RejectAlways(c) ==
    /\ At(c, "idle")
    /\ ctx' = [ctx EXCEPT ![c].failed = TRUE]
    /\ UNCHANGED <<keys, lock, draws, selected, watched>>

(* An unknown command or a wrong number of arguments: no refresh. *)
Reject(c) ==
    /\ At(c, "idle")
    /\ ctx' = [ctx EXCEPT ![c].failed = ctx[c].multi \/ @]
    /\ UNCHANGED <<keys, lock, draws, selected, watched>>

(* A command inside MULTI: it returns without a commit, lock in hand. *)
Queue(c, m) ==
    /\ At(c, "run") /\ ctx[c].multi
    /\ Len(ctx[c].queue) < MaxQueue
    /\ ctx' = [ctx EXCEPT ![c] = [ctx[c] EXCEPT !.queue = Append(@, m), !.pc = "idle"]]
    /\ UNCHANGED <<keys, lock, draws, selected, watched>>

Execute(c, m) ==
    /\ At(c, "run") /\ ~ctx[c].multi
    /\ Bounded(c, Run(Work(c), m))
    /\ Return(c, Run(Work(c), m), ctx[c], IF m.op = "UNWATCH" THEN {} ELSE watched[c])

(* MULTI, or the error for a nested one. *)
Multi(c) ==
    /\ At(c, "run") /\ c \in Watchers
    /\ Return(c, Work(c),
              IF ctx[c].multi THEN ctx[c] ELSE [NewContext EXCEPT !.multi = TRUE],
              watched[c])

(* Mutant: a missing key is watched with the version of a new one. *)
WatchMissing(c, k) ==
    LET e == keys[selected[c]][k]
        w == [key |-> k, db |-> selected[c], version |-> IF Exists(e) THEN e.version ELSE After(Zero),
              seen |-> Content(e), touched |-> FALSE, repeated |-> FALSE]
    IN /\ At(c, "run") /\ c \in Watchers
       /\ Cardinality(watched[c]) < MaxWatched
       /\ Return(c, Work(c), ctx[c],
                 IF ctx[c].multi THEN watched[c] ELSE watched[c] \cup {w})

(* rl_watch reads the version whether the key has expired or not; inside   *)
(* MULTI there is an error and no more.                                    *)
Watch(c, k) ==
    LET e == keys[selected[c]][k]
        w == [key |-> k, db |-> selected[c], version |-> e.version,
              seen |-> Content(e), touched |-> FALSE, repeated |-> FALSE]
    IN /\ At(c, "run") /\ c \in Watchers
       /\ Cardinality(watched[c]) < MaxWatched
       /\ Return(c, Work(c), ctx[c],
                 IF ctx[c].multi THEN watched[c] ELSE watched[c] \cup {w})

(* discard() ends a transaction, or none. *)
Discard(c) ==
    /\ At(c, "run")
    /\ Return(c, Work(c), NewContext, {})

(* EXEC without MULTI is an error; a transaction with a rejected command   *)
(* is discarded.                                                           *)
ExecFailed(c) ==
    /\ At(c, "run")
    /\ \/ ~ctx[c].multi /\ Return(c, Work(c), ctx[c], watched[c])
       \/ ctx[c].multi /\ ctx[c].failed /\ Return(c, Work(c), NewContext, {})

(* Mutant: EXEC's own refresh waits for a lock that it holds. *)
ExecLocked(c) ==
    /\ At(c, "run")
    /\ ctx[c].multi /\ ~ctx[c].failed /\ Bounded(c, Work(c))
    /\ ctx' = [ctx EXCEPT ![c].pc = "exec"]
    /\ UNCHANGED <<keys, lock, draws, selected, watched>>

(* EXEC refreshes for itself: the lock is given back and taken again. *)
Exec(c) ==
    /\ At(c, "run")
    /\ ctx[c].multi /\ ~ctx[c].failed /\ Bounded(c, Work(c))
    /\ ctx' = [ctx EXCEPT ![c].pc = "exec"]
    /\ lock' = None
    /\ UNCHANGED <<keys, draws, selected, watched>>

(* rl_check_watched_keys looks the key up in the database selected now. *)
Outdated(c) ==
    \E w \in watched[c] : keys[selected[c]][w.key].version # w.version

ExecNil(c) ==
    /\ At(c, "check") /\ Outdated(c)
    /\ Return(c, Work(c), NewContext, {})

ExecRun(c) ==
    /\ At(c, "check") /\ ~Outdated(c)
    /\ Return(c, RunAll(Work(c), ctx[c].queue), NewContext, {})

(* rliteFree between two calls, and a new connection. *)
Reconnect(c) ==
    /\ At(c, "idle")
    /\ ctx' = [ctx EXCEPT ![c] = NewContext]
    /\ selected' = [selected EXCEPT ![c] = FirstDatabase]
    /\ watched' = [watched EXCEPT ![c] = {}]
    /\ lock' = IF lock = c THEN None ELSE lock
    /\ UNCHANGED <<keys, draws>>

(* Time goes by. *)
Tick(d, k) ==
    /\ keys[d][k].ttl = "later"
    /\ keys' = [keys EXCEPT ![d][k].ttl = "past"]
    /\ UNCHANGED <<lock, draws, selected, watched, ctx>>

Step(c) ==
    \/ \E m \in Command : Queue(c, m) \/ Execute(c, m)
    \/ Multi(c) \/ Discard(c) \/ ExecFailed(c) \/ Exec(c)
    \/ \E k \in Keys : Watch(c, k)
    \/ ExecNil(c) \/ ExecRun(c)

Next ==
    \/ \E c \in Clients : Call(c) \/ Flock(c) \/ Reject(c) \/ Step(c) \/ Reconnect(c)
    \/ \E d \in Databases, k \in Keys : Tick(d, k)

Spec == Init /\ [][Next]_vars

-----------------------------------------------------------------------------
Version == [draw : Nat, updates : Nat]
EntryType ==
    [val : Values \cup {None}, ttl : {"never", "later", "past"}, version : Version]
WatchedKey ==
    [key : Keys, db : Databases, version : Version,
     seen : [val : Values \cup {None}, expires : BOOLEAN],
     touched : BOOLEAN, repeated : BOOLEAN]
Context ==
    [pc : {"idle", "refresh", "run", "exec", "check"},
     multi : BOOLEAN, failed : BOOLEAN, queue : Seq(Command)]

(* Every variable keeps its type, and version 0 means that there is no key. *)
TypeOK ==
    /\ keys \in [Databases -> [Keys -> EntryType]]
    /\ \A d \in Databases, k \in Keys : ~Exists(keys[d][k]) => keys[d][k] = NoEntry
    /\ lock \in Clients \cup {None}
    /\ draws \in [Clients -> Nat]
    /\ selected \in [Clients -> Databases]
    /\ watched \in [Clients -> SUBSET WatchedKey]
    /\ ctx \in [Clients -> Context]

(* The lock is held by a client that is inside a call, or has commands     *)
(* queued: MULTI, WATCH, EXEC, DISCARD and every error give it back, and   *)
(* nobody works on the file without it.                                    *)
LockDiscipline ==
    \A c \in Clients :
       /\ ctx[c].pc \in {"run", "check"} => lock = c
       /\ lock = c => \/ ctx[c].pc \in {"run", "check"}
                      \/ /\ At(c, "idle")
                         /\ ctx[c].multi /\ ctx[c].queue # <<>>

(* Nothing of a transaction is left when it is over: what was queued or    *)
(* rejected in one never reaches the next.                                 *)
CleanContext ==
    \A c \in Clients : ~ctx[c].multi => ctx[c].queue = <<>> /\ ~ctx[c].failed

(* When EXEC goes on to run the queue, every watched key that its version  *)
(* can tell of is what the WATCH has seen: the same value, expiring or not *)
(* (the clock apart).  Three versions tell nothing: one that is compared   *)
(* in another database than the WATCH's; one whose number a process has    *)
(* drawn again since the WATCH, as rand() is not seeded; and one without a *)
(* number, which rl_rename and rl_move give to every key that they bring   *)
(* where there is none.                                                    *)
Telling(c, w) ==
    /\ w.db = selected[c]
    /\ w.version = Zero \/ (w.version.draw # 0 /\ ~w.repeated)
WatchSafe ==
    \A c \in Clients :
       At(c, "check") /\ ~Outdated(c) =>
          \A w \in watched[c] : Telling(c, w) => w.seen = Content(keys[w.db][w.key])

(* EXEC gives up only if a command has touched a watched key, or a key that *)
(* was to expire is gone, or another database is selected: reading a key,   *)
(* watching it twice or failing a command is no reason.                     *)
NoSpuriousAbort ==
    \A c \in Clients :
       At(c, "check") /\ Outdated(c) =>
          \E w \in watched[c] :
             \/ w.touched
             \/ w.seen.expires /\ ~Exists(keys[w.db][w.key])
             \/ w.db # selected[c]

(* A command that changes a key in place changes the version that WATCH    *)
(* relies on.                                                              *)
ChangesVersion ==
    [][(\E d \in Databases, k \in Keys :
           /\ Found(keys[d][k]) /\ Exists(keys'[d][k])
           /\ keys'[d][k] # keys[d][k]
           /\ keys'[d][k].version = keys[d][k].version)
       => \A c \in Clients, m \in Command : ~Execute(c, m)]_vars

(* RENAME without a source changes nothing, and with one the target holds  *)
(* the value afterwards.                                                   *)
RenameKeepsValue ==
    \A c \in Clients, k, to \in Keys :
       LET s == Work(c)
           after == Rename(s, k, to, TRUE)
       IN At(c, "run") =>
            IF Found(Entry(s, k))
              THEN Entry(after, to).val = Entry(s, k).val
              ELSE \A j \in Keys : Found(Entry(s, j)) => Entry(after, j) = Entry(s, j)

(* A call runs on once it has the lock; flock is granted in the end to a   *)
(* process that finds the lock free again and again; and a client that     *)
(* holds the lock between two calls makes the next one.                    *)
Fairness ==
    \A c \in Clients :
       /\ WF_vars(Step(c))
       /\ SF_vars(Flock(c))
       /\ WF_vars(lock = c /\ Call(c))
LiveSpec == Spec /\ Fairness

(* Every call returns: a client that keeps the file locked while it queues *)
(* commands, or an EXEC that takes the lock twice, blocks nobody for ever. *)
CallsReturn ==
    \A c \in Clients : At(c, "refresh") ~> At(c, "idle")

=============================================================================
