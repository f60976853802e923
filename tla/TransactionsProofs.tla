------------------------- MODULE TransactionsProofs -------------------------
(***************************************************************************)
(* Proofs about Transactions, for every set of clients, keys and commands: *)
(* the lock's discipline; that nothing of a transaction outlives it; what  *)
(* each command does to the key trees and to versions, and EXEC, which     *)
(* runs a queue of them.                                                   *)
(***************************************************************************)
EXTENDS Transactions, Induction

(* EXEC's second refresh is reached inside a transaction only. *)
InExec ==
    \A c \in Clients : ctx[c].pc \in {"exec", "check"} => ctx[c].multi

TInv ==
    /\ ctx \in [Clients -> Context]
    /\ LockDiscipline
    /\ CleanContext
    /\ InExec

(* A call that returns keeps the invariant, if the context it leaves is    *)
(* clean: the caller held the lock, so nobody else did.                    *)
LEMMA ReturnInv ==
  ASSUME TInv, NEW c \in Clients, ctx[c].pc \in {"run", "check"},
         NEW s, NEW w, NEW x \in Context, ~x.multi => x.queue = <<>> /\ ~x.failed,
         Return(c, s, x, w)
  PROVE  TInv'
<1> DEFINE y == [x EXCEPT !.pc = "idle"]
<1>1. /\ y \in Context /\ y.pc = "idle"
      /\ y.multi = x.multi /\ y.queue = x.queue /\ y.failed = x.failed
  BY DEF Context
<1>2. lock' = None /\ ctx' = [ctx EXCEPT ![c] = y]
  BY DEF Return
<1> HIDE DEF y
<1>3. /\ ctx' \in [Clients -> Context] /\ ctx'[c] = y
      /\ \A d \in Clients \ {c} : ctx'[d] = ctx[d]
  BY <1>1, <1>2 DEF TInv
<1>4. \A d \in Clients \ {c} : ctx[d].pc \notin {"run", "check"}
  BY DEF TInv, LockDiscipline
<1>5. LockDiscipline'
  BY <1>1, <1>2, <1>3, <1>4, NoneAssumption DEF LockDiscipline
<1>6. CleanContext'
  BY <1>1, <1>3 DEF TInv, CleanContext
<1>7. InExec'
  BY <1>1, <1>3 DEF TInv, InExec
<1> QED BY <1>3, <1>5, <1>6, <1>7 DEF TInv

LEMMA FreshContext ==
  ASSUME NEW b \in BOOLEAN
  PROVE  LET x == [NewContext EXCEPT !.multi = b]
         IN /\ NewContext \in Context /\ NewContext.pc = "idle"
            /\ ~NewContext.failed /\ NewContext.queue = <<>> /\ ~NewContext.multi
            /\ x \in Context /\ x.pc = "idle" /\ x.multi = b
            /\ ~x.failed /\ x.queue = <<>>
<1>1. <<>> \in Seq(Command)
  OBVIOUS
<1> QED BY <1>1 DEF NewContext, Context

LEMMA InitTInv == Init => TInv
<1> SUFFICES ASSUME Init PROVE TInv
  OBVIOUS
<1>1. /\ \A c \in Clients : ctx[c] = NewContext
      /\ ctx \in [Clients -> Context] /\ lock = None
  BY FreshContext DEF Init
<1>2. LockDiscipline /\ CleanContext /\ InExec
  BY <1>1, FreshContext, NoneAssumption DEF LockDiscipline, CleanContext, InExec
<1> QED BY <1>1, <1>2 DEF TInv

LEMMA CallInv == ASSUME TInv, NEW c \in Clients, Call(c) PROVE TInv'
<1>1. /\ ctx' \in [Clients -> Context] /\ ctx'[c] = [ctx[c] EXCEPT !.pc = "refresh"]
      /\ \A d \in Clients \ {c} : ctx'[d] = ctx[d]
  BY DEF TInv, Call, Context
<1>2. /\ ctx'[c].pc = "refresh" /\ ctx'[c].multi = ctx[c].multi
      /\ ctx'[c].failed = ctx[c].failed /\ ctx'[c].queue = ctx[c].queue
  BY <1>1 DEF TInv, Context
<1>3. LockDiscipline'
  BY <1>1, <1>2, NoneAssumption DEF TInv, LockDiscipline, Call, At
<1>4. CleanContext' /\ InExec'
  BY <1>1, <1>2 DEF TInv, CleanContext, InExec
<1> QED BY <1>1, <1>3, <1>4 DEF TInv

LEMMA FlockInv == ASSUME TInv, NEW c \in Clients, Flock(c) PROVE TInv'
<1> DEFINE l == IF ctx[c].pc = "refresh" THEN "run" ELSE "check"
<1>1. /\ ctx' \in [Clients -> Context] /\ ctx'[c] = [ctx[c] EXCEPT !.pc = l]
      /\ \A d \in Clients \ {c} : ctx'[d] = ctx[d]
  BY DEF TInv, Flock, Context
<1>2. /\ ctx'[c].pc = l /\ ctx'[c].multi = ctx[c].multi
      /\ ctx'[c].failed = ctx[c].failed /\ ctx'[c].queue = ctx[c].queue
  BY <1>1 DEF TInv, Context
<1>3. LockDiscipline'
  BY <1>1, <1>2, NoneAssumption DEF TInv, LockDiscipline, Flock
<1>4. CleanContext' /\ InExec'
  BY <1>1, <1>2 DEF TInv, CleanContext, InExec, Flock
<1> QED BY <1>1, <1>3, <1>4 DEF TInv

LEMMA RejectInv == ASSUME TInv, NEW c \in Clients, Reject(c) PROVE TInv'
<1> DEFINE f == ctx[c].multi \/ ctx[c].failed
<1>1. /\ ctx' \in [Clients -> Context] /\ ctx'[c] = [ctx[c] EXCEPT !.failed = f]
      /\ \A d \in Clients \ {c} : ctx'[d] = ctx[d]
  BY DEF TInv, Reject, Context
<1>2. /\ ctx'[c].pc = ctx[c].pc /\ ctx'[c].multi = ctx[c].multi
      /\ ctx'[c].failed = f /\ ctx'[c].queue = ctx[c].queue
  BY <1>1 DEF TInv, Context
<1>3. LockDiscipline'
  BY <1>1, <1>2 DEF TInv, LockDiscipline, Reject, At
<1>4. CleanContext' /\ InExec'
  BY <1>1, <1>2 DEF TInv, CleanContext, InExec
<1> QED BY <1>1, <1>3, <1>4 DEF TInv

LEMMA QueueInv ==
  ASSUME TInv, NEW c \in Clients, NEW m \in Command, Queue(c, m)
  PROVE  TInv'
<1> DEFINE q == Append(ctx[c].queue, m)
           x == [ctx[c] EXCEPT !.queue = q, !.pc = "idle"]
<1>0. ctx[c] \in Context /\ ctx[c].queue \in Seq(Command)
  BY DEF TInv, Context
<1>1. ctx[c] \in Context /\ q \in Seq(Command) /\ q # <<>>
  <2>1. q \in Seq(Command) /\ Len(q) = Len(ctx[c].queue) + 1 /\ Len(ctx[c].queue) \in Nat
    BY <1>0
  <2> QED BY <1>0, <2>1
<1>2. /\ x \in Context /\ x.pc = "idle" /\ x.multi = ctx[c].multi
      /\ x.failed = ctx[c].failed /\ x.queue = q
  <2> HIDE DEF q
  <2> QED BY <1>1 DEF Context
<1>3. ctx' = [ctx EXCEPT ![c] = x]
  BY DEF Queue
<1> HIDE DEF x, q
<1>4. ctx' \in [Clients -> Context] /\ ctx'[c] = x /\ \A d \in Clients \ {c} : ctx'[d] = ctx[d]
  BY <1>2, <1>3 DEF TInv
<1>5. LockDiscipline'
  BY <1>1, <1>2, <1>4 DEF TInv, LockDiscipline, Queue, At
<1>6. CleanContext' /\ InExec'
  BY <1>2, <1>4 DEF TInv, CleanContext, InExec, Queue
<1> QED BY <1>4, <1>5, <1>6 DEF TInv

LEMMA ExecInv == ASSUME TInv, NEW c \in Clients, Exec(c) PROVE TInv'
<1>1. /\ ctx' \in [Clients -> Context] /\ ctx'[c] = [ctx[c] EXCEPT !.pc = "exec"]
      /\ \A d \in Clients \ {c} : ctx'[d] = ctx[d]
  BY DEF TInv, Exec, Context
<1>2. /\ ctx'[c].pc = "exec" /\ ctx'[c].multi = ctx[c].multi
      /\ ctx'[c].failed = ctx[c].failed /\ ctx'[c].queue = ctx[c].queue
  BY <1>1 DEF TInv, Context
<1>3. LockDiscipline'
  BY <1>1, <1>2, NoneAssumption DEF TInv, LockDiscipline, Exec, At
<1>4. CleanContext' /\ InExec'
  BY <1>1, <1>2 DEF TInv, CleanContext, InExec, Exec
<1> QED BY <1>1, <1>3, <1>4 DEF TInv

LEMMA ReconnectInv == ASSUME TInv, NEW c \in Clients, Reconnect(c) PROVE TInv'
<1>1. /\ ctx' \in [Clients -> Context] /\ ctx'[c] = NewContext
      /\ \A d \in Clients \ {c} : ctx'[d] = ctx[d]
  BY FreshContext DEF TInv, Reconnect
<1>2. LockDiscipline'
  BY <1>1, FreshContext, NoneAssumption DEF TInv, LockDiscipline, Reconnect, At
<1>3. CleanContext' /\ InExec'
  BY <1>1, FreshContext DEF TInv, CleanContext, InExec
<1> QED BY <1>1, <1>2, <1>3 DEF TInv

(* Every action that ends in Return: the context it leaves is the one it   *)
(* found, a new one, or a new one inside MULTI.                            *)
LEMMA CommandInv ==
  ASSUME TInv, NEW c \in Clients,
         \/ \E m \in Command : Execute(c, m)
         \/ \E k \in Keys : Watch(c, k)
         \/ Multi(c) \/ Discard(c) \/ ExecFailed(c) \/ ExecNil(c) \/ ExecRun(c)
  PROVE  TInv'
<1> DEFINE m == [NewContext EXCEPT !.multi = TRUE]
<1>1. ctx[c].pc \in {"run", "check"}
  BY DEF Execute, Watch, Multi, Discard, ExecFailed, ExecNil, ExecRun, At
<1>2. PICK s, w : \/ Return(c, s, ctx[c], w)
                  \/ Return(c, s, NewContext, w)
                  \/ Return(c, s, m, w)
  BY Zenon DEF Execute, Watch, Multi, Discard, ExecFailed, ExecNil, ExecRun
<1>3. /\ ctx[c] \in Context
      /\ ~ctx[c].multi => ctx[c].queue = <<>> /\ ~ctx[c].failed
  BY DEF TInv, CleanContext
<1>4. CASE Return(c, s, ctx[c], w)
  BY <1>1, <1>3, <1>4, ReturnInv
<1>5. CASE Return(c, s, NewContext, w)
  BY <1>1, <1>5, FreshContext, ReturnInv
<1>6. CASE Return(c, s, m, w)
  BY <1>1, <1>6, FreshContext, ReturnInv
<1> QED BY <1>2, <1>4, <1>5, <1>6

LEMMA TStepInv == TInv /\ [Next]_vars => TInv'
<1> SUFFICES ASSUME TInv, [Next]_vars PROVE TInv'
  OBVIOUS
<1>1. ASSUME NEW c \in Clients, Call(c) \/ Flock(c) \/ Reject(c) \/ Reconnect(c) \/ Exec(c)
      PROVE  TInv'
  BY <1>1, CallInv, FlockInv, RejectInv, ReconnectInv, ExecInv
<1>2. ASSUME NEW c \in Clients, NEW m \in Command, Queue(c, m)
      PROVE  TInv'
  BY <1>2, QueueInv
<1>3. ASSUME NEW c \in Clients,
             \/ \E m \in Command : Execute(c, m)
             \/ \E k \in Keys : Watch(c, k)
             \/ Multi(c) \/ Discard(c) \/ ExecFailed(c) \/ ExecNil(c) \/ ExecRun(c)
      PROVE  TInv'
  BY <1>3, CommandInv
<1>4. ASSUME UNCHANGED <<lock, ctx>> PROVE TInv'
  BY <1>4 DEF TInv, LockDiscipline, CleanContext, InExec, At
<1>5. CASE \E d \in Databases, k \in Keys : Tick(d, k)
  BY <1>4, <1>5 DEF Tick
<1>6. CASE UNCHANGED vars
  BY <1>4, <1>6 DEF vars
<1>7. CASE \E c \in Clients : Call(c) \/ Flock(c) \/ Reject(c) \/ Step(c) \/ Reconnect(c)
  BY <1>1, <1>2, <1>3, <1>7 DEF Step
<1> QED BY <1>5, <1>6, <1>7 DEF Next

LEMMA TInvariance == Spec => []TInv
<1> QED BY InitTInv, TStepInv, PTL DEF Spec

(* Whoever works on the file holds its lock, and every call that is not a  *)
(* queued command gives it back.                                           *)
THEOREM LocksReturned == Spec => []LockDiscipline
<1>1. TInv => LockDiscipline
  BY DEF TInv
<1> QED BY <1>1, TInvariance, PTL

(* EXEC, DISCARD and every error path leave a context fit for the next     *)
(* transaction.                                                            *)
THEOREM ContextsClean == Spec => []CleanContext
<1>1. TInv => CleanContext
  BY DEF TInv
<1> QED BY <1>1, TInvariance, PTL

-----------------------------------------------------------------------------
(* What the commands do to the keys.  The sets of what a command works on, *)
(* and of the key trees that the file can hold.                            *)
Sound(e) == e \in EntryType /\ (~Exists(e) => e = NoEntry)
KeyTrees ==
    {t \in [Databases -> [Keys -> EntryType]] : \A d \in Databases, k \in Keys : Sound(t[d][k])}
Works == [keys : KeyTrees, db : Databases, draws : Nat]

LEMMA VersionFacts ==
  ASSUME NEW v \in Version
  PROVE  /\ After(v) \in Version /\ After(v) # Zero /\ After(v) # v
         /\ After(v).draw = v.draw /\ After(v).updates = v.updates + 1
BY DEF Version, After, Zero

LEMMA ZeroFacts == Zero \in Version /\ Sound(NoEntry) /\ ~Exists(NoEntry) /\ ~Found(NoEntry)
BY DEF Zero, Version, Sound, NoEntry, EntryType, Exists, Found

LEMMA RandFacts ==
  ASSUME NEW n \in Nat
  PROVE  /\ Rand(n) \in Version /\ Rand(n) # Zero /\ Rand(n).draw = n + 1
         /\ After(Rand(n)) \in Version /\ After(Rand(n)) # Zero /\ After(Rand(n)).draw = n + 1
BY DEF Rand, Version, After, Zero

(* A command's work with one entry replaced *)
LEMMA WithFacts ==
  ASSUME NEW s \in Works, NEW k \in Keys, NEW e, Sound(e)
  PROVE  /\ With(s, k, e) \in Works
         /\ With(s, k, e).db = s.db /\ With(s, k, e).draws = s.draws
         /\ \A d \in Databases, j \in Keys :
               With(s, k, e).keys[d][j] = IF d = s.db /\ j = k THEN e ELSE s.keys[d][j]
<1> DEFINE t == [s.keys EXCEPT ![s.db][k] = e]
<1>1. s.keys \in KeyTrees /\ s.db \in Databases /\ s.draws \in Nat /\ e \in EntryType
  BY DEF Works, Sound
<1>2. s.keys \in [Databases -> [Keys -> EntryType]]
  BY <1>1 DEF KeyTrees
<1>3. /\ t \in [Databases -> [Keys -> EntryType]]
      /\ \A d \in Databases, j \in Keys :
            t[d][j] = IF d = s.db /\ j = k THEN e ELSE s.keys[d][j]
  BY <1>1, <1>2
<1>4. With(s, k, e) = [s EXCEPT !.keys = t]
  BY <1>1 DEF With, Works
<1> HIDE DEF t
<1>5. t \in KeyTrees
  BY <1>1, <1>3 DEF KeyTrees
<1> QED BY <1>1, <1>3, <1>4, <1>5 DEF Works

LEMMA EntryFacts ==
  ASSUME NEW s \in Works, NEW k \in Keys
  PROVE  /\ Entry(s, k) = s.keys[s.db][k] /\ Sound(Entry(s, k))
         /\ Entry(s, k).version \in Version
         /\ Entry(s, k).ttl \in {"never", "later", "past"}
         /\ Entry(s, k).val \in Values \cup {None}
BY DEF Entry, Works, KeyTrees, Sound, EntryType

(* rl_key_set writes an entry that exists, with the version it is given *)
(* unless that is the reserved one.                                     *)
LEMMA KeySetFacts ==
  ASSUME NEW s \in Works, NEW k \in Keys, NEW val \in Values \cup {None},
         NEW ttl \in {"never", "later", "past"}, NEW version \in Version
  PROVE  \E e : /\ KeySet(s, k, val, ttl, version) = With(s, k, e)
                /\ Sound(e) /\ Exists(e)
                /\ e.version = IF version = Zero THEN After(Zero) ELSE version
<1> DEFINE v == IF version = Zero THEN After(Zero) ELSE version
           e == [val |-> val, ttl |-> ttl, version |-> v]
<1>1. v \in Version /\ v # Zero
  BY VersionFacts, ZeroFacts
<1>2. KeySet(s, k, val, ttl, version) = With(s, k, e)
  BY DEF KeySet
<1> HIDE DEF v
<1>3. Sound(e) /\ Exists(e) /\ e.version = v
  BY <1>1 DEF Sound, EntryType, Exists
<1> QED BY <1>2, <1>3 DEF v

(* How a command changes the entry of a key it names, when the process has *)
(* called rand() m times before and n times after it: not at all; to no    *)
(* entry; to a new one, with a draw of its own, if there was none to be    *)
(* found; or in place.                                                     *)
Moves(e, f, m, n) ==
    \/ f = e
    \/ f = NoEntry
    \/ Exists(f) /\ ~Found(e) /\ n = m + 1 /\ f.version.draw = n
    \/ Exists(f) /\ Exists(e) /\ f.version = After(e.version)
Drawn(s, n) == [s EXCEPT !.draws = n]

(* The commands that leave all but one key alone *)
OneKeyOps == {"SET", "APPEND", "GET", "DEL", "EXPIRE", "PERSIST"}

LEMMA DrawnFacts ==
  ASSUME NEW s \in Works, NEW n \in Nat
  PROVE  /\ Drawn(s, n) \in Works /\ Drawn(s, n).keys = s.keys
         /\ Drawn(s, n).db = s.db /\ Drawn(s, n).draws = n
BY DEF Drawn, Works

LEMMA LookupFacts ==
  ASSUME NEW s \in Works, NEW k \in Keys
  PROVE  \E f : /\ Lookup(s, k) = With(s, k, f) /\ Sound(f)
                /\ f = IF Found(Entry(s, k)) THEN Entry(s, k) ELSE NoEntry
<1>1. With(s, k, Entry(s, k)) = s
  <2>1. s.keys \in [Databases -> [Keys -> EntryType]] /\ s.db \in Databases
    BY DEF Works, KeyTrees
  <2>2. [s.keys EXCEPT ![s.db][k] = s.keys[s.db][k]] = s.keys
    BY <2>1
  <2> QED BY <2>1, <2>2 DEF With, Entry, Works
<1>2. CASE Found(Entry(s, k))
  BY <1>1, <1>2, EntryFacts DEF Lookup
<1>3. CASE ~Found(Entry(s, k))
  BY <1>3, ZeroFacts DEF Lookup, Without
<1> QED BY <1>2, <1>3

LEMMA SetFacts ==
  ASSUME NEW s \in Works, NEW k \in Keys, NEW v \in Values, NEW append \in BOOLEAN
  PROVE  \E f, n : /\ (IF append THEN AppendTo(s, k, v) ELSE Set(s, k, v))
                        = With(Drawn(s, n), k, f)
                   /\ Sound(f) /\ n \in {s.draws, s.draws + 1}
                   /\ Moves(Entry(s, k), f, s.draws, n)
<1> DEFINE e == Entry(s, k)
           r == IF append THEN Rand(s.draws) ELSE After(Rand(s.draws))
           t == Drawn(s, s.draws + 1)
<1>1. /\ s.draws \in Nat /\ e.version \in Version /\ After(e.version) \in Version
      /\ After(e.version) # Zero
  BY EntryFacts, VersionFacts DEF Works
<1>2. r \in Version /\ r # Zero /\ r.draw = s.draws + 1
  BY <1>1, RandFacts
<1>3. Drawn(s, s.draws) = s
  BY DEF Drawn, Works
<1>4. CASE Found(e)
  <2>1. PICK f : /\ KeySet(s, k, v, "never", After(e.version)) = With(s, k, f)
                 /\ Sound(f) /\ Exists(f) /\ f.version = After(e.version)
    BY <1>1, KeySetFacts
  <2>2. Moves(e, f, s.draws, s.draws)
    BY <1>4, <2>1 DEF Moves, Found
  <2> QED BY <1>1, <1>3, <1>4, <2>1, <2>2 DEF Set, AppendTo
<1>5. CASE ~Found(e)
  <2>1. t \in Works
    BY <1>1, DrawnFacts
  <2>2. PICK f : /\ KeySet(t, k, v, "never", r) = With(t, k, f)
                 /\ Sound(f) /\ Exists(f) /\ f.version = r
    BY <1>2, <2>1, KeySetFacts
  <2>3. Moves(e, f, s.draws, s.draws + 1)
    BY <1>2, <1>5, <2>2 DEF Moves
  <2>4. (IF append THEN AppendTo(s, k, v) ELSE Set(s, k, v)) = KeySet(t, k, v, "never", r)
    BY <1>5 DEF Set, AppendTo, Drawn
  <2> QED BY <1>1, <2>2, <2>3, <2>4
<1> QED BY <1>4, <1>5

LEMMA CommandFields ==
  ASSUME NEW m \in Command
  PROVE  /\ m.op \in {"SET", "APPEND"} => m.key \in Keys /\ m.val \in Values
         /\ m.op \in {"GET", "DEL", "EXPIRE", "PERSIST", "MOVE"} => m.key \in Keys
         /\ m.op \in {"RENAME", "RENAMENX"} => m.key \in Keys /\ m.to \in Keys
         /\ m.op \in {"MOVE", "SELECT"} => m.db \in Databases
         /\ m.op \in AllOps
BY OpsAssumption DEF Command

(* EXPIRE and PERSIST of a key that is there *)
LEMMA SetExpiryFacts ==
  ASSUME NEW s \in Works, NEW k \in Keys, NEW ttl \in {"never", "later", "past"},
         Found(Entry(s, k))
  PROVE  \E f : /\ SetExpiry(s, k, ttl) = With(s, k, f) /\ Sound(f)
                /\ Moves(Entry(s, k), f, s.draws, s.draws)
<1> DEFINE e == Entry(s, k)
<1>1. /\ e.version \in Version /\ After(e.version) \in Version /\ After(e.version) # Zero
      /\ e.val \in Values \cup {None}
  BY EntryFacts, VersionFacts
<1>2. PICK f : /\ KeySet(s, k, e.val, ttl, After(e.version)) = With(s, k, f)
               /\ Sound(f) /\ Exists(f) /\ f.version = After(e.version)
  BY <1>1, KeySetFacts
<1>3. Moves(e, f, s.draws, s.draws)
  BY <1>2 DEF Moves, Found
<1> QED BY <1>2, <1>3 DEF SetExpiry

LEMMA OneKeyFacts ==
  ASSUME NEW s \in Works, NEW m \in Command, m.op \in OneKeyOps
  PROVE  \E f, n : /\ m.key \in Keys /\ n \in {s.draws, s.draws + 1}
                   /\ Run(s, m) = With(Drawn(s, n), m.key, f) /\ Sound(f)
                   /\ Moves(Entry(s, m.key), f, s.draws, n)
<1> DEFINE k == m.key
<1>1. k \in Keys
  BY CommandFields DEF OneKeyOps
<1>2. Drawn(s, s.draws) = s
  BY DEF Drawn, Works
<1>3. ASSUME NEW f, Run(s, m) = With(s, k, f), Sound(f), Moves(Entry(s, k), f, s.draws, s.draws)
      PROVE  \E g, n : /\ k \in Keys /\ n \in {s.draws, s.draws + 1}
                       /\ Run(s, m) = With(Drawn(s, n), k, g) /\ Sound(g)
                       /\ Moves(Entry(s, k), g, s.draws, n)
  BY <1>1, <1>2, <1>3
<1>4. \E f : /\ Lookup(s, k) = With(s, k, f) /\ Sound(f)
             /\ Moves(Entry(s, k), f, s.draws, s.draws)
  BY <1>1, LookupFacts DEF Moves
<1>5. CASE m.op \in {"SET", "APPEND"}
  <2>1. m.val \in Values
    BY <1>5, CommandFields
  <2>2. Run(s, m) = IF m.op = "APPEND" THEN AppendTo(s, k, m.val) ELSE Set(s, k, m.val)
    BY <1>5 DEF Run
  <2> QED BY <1>1, <2>1, <2>2, SetFacts
<1>6. CASE m.op = "GET"
  <2>1. Run(s, m) = Lookup(s, k)
    BY <1>6 DEF Run
  <2> QED BY <1>3, <1>4, <2>1
<1>7. CASE m.op = "DEL"
  <2>1. Run(s, m) = With(s, k, NoEntry)
    BY <1>7 DEF Run, Delete, Without
  <2> QED BY <1>3, <2>1, ZeroFacts DEF Moves
<1>8. CASE m.op = "EXPIRE"
  <2>1. Run(s, m) = Expire(s, k)
    BY <1>8 DEF Run
  <2>2. CASE Found(Entry(s, k))
    BY <1>1, <1>3, <2>1, <2>2, SetExpiryFacts DEF Expire
  <2>3. CASE ~Found(Entry(s, k))
    BY <1>3, <1>4, <2>1, <2>3 DEF Expire
  <2> QED BY <2>2, <2>3
<1>9. CASE m.op = "PERSIST"
  <2>1. Run(s, m) = Persist(s, k)
    BY <1>9 DEF Run
  <2>2. CASE Found(Entry(s, k)) /\ Entry(s, k).ttl # "never"
    BY <1>1, <1>3, <2>1, <2>2, SetExpiryFacts DEF Persist
  <2>3. CASE ~(Found(Entry(s, k)) /\ Entry(s, k).ttl # "never")
    BY <1>3, <1>4, <2>1, <2>3 DEF Persist
  <2> QED BY <2>2, <2>3
<1> QED BY <1>5, <1>6, <1>7, <1>8, <1>9 DEF OneKeyOps

(* What every command promises of every entry e that it leaves as f, when   *)
(* the process has called rand() m times before and n times after it: a    *)
(* key that is changed in place gets another version; and an entry stays,  *)
(* goes, comes anew with a number drawn meanwhile or with none, or is      *)
(* updated and its version grows.                                          *)
Reversioned(e, f) == Found(e) /\ Exists(f) /\ f # e => f.version # e.version
Evolves(e, f, m, n) ==
    \/ f = e
    \/ f = NoEntry
    \/ Exists(f) /\ (f.version.draw = 0 \/ DrawnAgain(f.version, m, n))
    \/ /\ Exists(e) /\ Exists(f)
       /\ f.version.draw = e.version.draw /\ e.version.updates < f.version.updates
Becomes(e, f, m, n) == Reversioned(e, f) /\ Evolves(e, f, m, n)

LEMMA StaysOrGoes ==
  ASSUME NEW e, NEW f, f = e \/ f = NoEntry, NEW m, NEW n
  PROVE  Becomes(e, f, m, n)
BY ZeroFacts DEF Becomes, Reversioned, Evolves

(* One command: the work stays typed, there is at most one draw, and every *)
(* entry becomes what it may.                                              *)
Lawful(s, t) ==
    /\ t \in Works /\ t.draws \in {s.draws, s.draws + 1}
    /\ \A d \in Databases, j \in Keys :
          Becomes(s.keys[d][j], t.keys[d][j], s.draws, t.draws)

LEMMA OneKeyLawful ==
  ASSUME NEW s \in Works, NEW m \in Command, m.op \in OneKeyOps
  PROVE  Lawful(s, Run(s, m))
<1>1. PICK f, n : /\ m.key \in Keys /\ n \in {s.draws, s.draws + 1}
                  /\ Run(s, m) = With(Drawn(s, n), m.key, f) /\ Sound(f)
                  /\ Moves(Entry(s, m.key), f, s.draws, n)
  BY OneKeyFacts
<1> DEFINE t == Drawn(s, n)
<1>2. t \in Works /\ t.keys = s.keys /\ t.db = s.db /\ t.draws = n
  BY <1>1, DrawnFacts DEF Works
<1> HIDE DEF t
<1>3. /\ With(t, m.key, f) \in Works /\ With(t, m.key, f).draws = n
      /\ \A d \in Databases, j \in Keys :
            With(t, m.key, f).keys[d][j] = IF d = s.db /\ j = m.key THEN f ELSE s.keys[d][j]
  BY <1>1, <1>2, WithFacts
<1>4. Becomes(Entry(s, m.key), f, s.draws, n)
  <2>1. Reversioned(Entry(s, m.key), f)
    BY <1>1, EntryFacts, VersionFacts, ZeroFacts DEF Moves, Reversioned
  <2>2. /\ After(Entry(s, m.key).version).draw = Entry(s, m.key).version.draw
        /\ After(Entry(s, m.key).version).updates = Entry(s, m.key).version.updates + 1
        /\ Entry(s, m.key).version.updates \in Nat /\ s.draws \in Nat
    BY <1>1, EntryFacts, VersionFacts DEF Version, Works
  <2>3. Evolves(Entry(s, m.key), f, s.draws, n)
    BY <1>1, <2>2 DEF Moves, Evolves, DrawnAgain
  <2> QED BY <2>1, <2>3 DEF Becomes
<1>5. \A d \in Databases, j \in Keys :
         Becomes(s.keys[d][j], With(t, m.key, f).keys[d][j], s.draws, n)
  BY <1>3, <1>4, EntryFacts, <1>1, StaysOrGoes
<1> QED BY <1>1, <1>3, <1>5 DEF Lawful, t

LEMMA SelectFacts ==
  ASSUME NEW s \in Works, NEW d \in Databases
  PROVE  LET t == [s EXCEPT !.db = d]
         IN t \in Works /\ t.keys = s.keys /\ t.db = d /\ t.draws = s.draws
BY DEF Works

(* One key without an entry, and another one that takes one over: neither  *)
(* a key that was found before, unless the version is the next one.        *)
LEMMA WithoutFacts ==
  ASSUME NEW s \in Works, NEW k \in Keys
  PROVE  /\ Without(s, k) \in Works /\ Without(s, k).draws = s.draws /\ Without(s, k).db = s.db
         /\ \A d \in Databases, j \in Keys :
               Without(s, k).keys[d][j] = IF d = s.db /\ j = k THEN NoEntry ELSE s.keys[d][j]
BY WithFacts, ZeroFacts DEF Without

LEMMA LookedUp ==
  ASSUME NEW s \in Works, NEW k \in Keys
  PROVE  /\ Lookup(s, k) \in Works /\ Lookup(s, k).draws = s.draws /\ Lookup(s, k).db = s.db
         /\ \A d \in Databases, j \in Keys :
               Lookup(s, k).keys[d][j] = IF d = s.db /\ j = k /\ ~Found(s.keys[d][j])
                                           THEN NoEntry ELSE s.keys[d][j]
<1>1. PICK f : /\ Lookup(s, k) = With(s, k, f) /\ Sound(f)
               /\ f = IF Found(Entry(s, k)) THEN Entry(s, k) ELSE NoEntry
  BY LookupFacts
<1>2. Entry(s, k) = s.keys[s.db][k]
  BY EntryFacts
<1>3. /\ With(s, k, f) \in Works
      /\ With(s, k, f).db = s.db /\ With(s, k, f).draws = s.draws
      /\ \A d \in Databases, j \in Keys :
            With(s, k, f).keys[d][j] = IF d = s.db /\ j = k THEN f ELSE s.keys[d][j]
  BY <1>1, WithFacts
<1> QED BY <1>1, <1>2, <1>3

LEMMA RenameLawful ==
  ASSUME NEW s \in Works, NEW k \in Keys, NEW to \in Keys, NEW overwrite \in BOOLEAN
  PROVE  Lawful(s, Rename(s, k, to, overwrite))
<1> DEFINE target == Entry(s, to)
           r == IF overwrite THEN Without(s, to) ELSE Lookup(s, to)
           e == Entry(r, k)
           version == IF Found(target) THEN After(target.version) ELSE Zero
<1>1. /\ r \in Works /\ r.db = s.db /\ r.draws = s.draws
      /\ \A d \in Databases, j \in Keys :
            \/ r.keys[d][j] = s.keys[d][j]
            \/ r.keys[d][j] = NoEntry
  <2>1. CASE overwrite
    BY <2>1, WithoutFacts
  <2>2. CASE ~overwrite
    BY <2>2, LookedUp
  <2> QED BY <2>1, <2>2
<1>2. s.draws \in Nat /\ s.db \in Databases
  BY DEF Works
<1> HIDE DEF r
<1>3. CASE ~overwrite /\ Found(target)
  BY <1>2, <1>3, StaysOrGoes DEF Rename, Lawful
<1>4. CASE ~(~overwrite /\ Found(target)) /\ Found(e)
  <2> DEFINE w == Without(r, k)
  <2>1. /\ w \in Works /\ w.db = s.db /\ w.draws = s.draws
        /\ \A d \in Databases, j \in Keys :
              \/ w.keys[d][j] = s.keys[d][j]
              \/ w.keys[d][j] = NoEntry
    <3>1. /\ w \in Works /\ w.db = r.db /\ w.draws = r.draws
          /\ \A d \in Databases, j \in Keys :
                w.keys[d][j] = IF d = r.db /\ j = k THEN NoEntry ELSE r.keys[d][j]
      BY <1>1, WithoutFacts
    <3> HIDE DEF w
    <3> QED BY <1>1, <3>1
  <2>2. /\ version \in Version /\ e.val \in Values \cup {None}
        /\ e.ttl \in {"never", "later", "past"}
    BY <1>1, EntryFacts, VersionFacts, ZeroFacts
  <2>3. Rename(s, k, to, overwrite) = KeySet(w, to, e.val, e.ttl, version)
    BY <1>4 DEF Rename, r
  <2> HIDE DEF w, version, e
  <2>4. PICK f : /\ KeySet(w, to, e.val, e.ttl, version) = With(w, to, f) /\ Sound(f)
                 /\ Exists(f) /\ f.version = IF version = Zero THEN After(Zero) ELSE version
    BY <2>1, <2>2, KeySetFacts
  <2>5. /\ With(w, to, f) \in Works /\ With(w, to, f).draws = s.draws
        /\ \A d \in Databases, j \in Keys :
              With(w, to, f).keys[d][j] = IF d = s.db /\ j = to THEN f ELSE w.keys[d][j]
    BY <2>1, <2>4, WithFacts
  <2>6. Becomes(target, f, s.draws, s.draws)
    <3>1. Exists(f) /\ target.version \in Version
      BY <2>4, EntryFacts DEF Exists
    <3>2. CASE Found(target)
      <4>1. version = After(target.version) /\ Exists(target)
        BY <3>2 DEF version, Found
      <4>2. /\ f.version = After(target.version) /\ f.version # target.version
            /\ f.version.draw = target.version.draw
            /\ target.version.updates < f.version.updates
        BY <2>4, <3>1, <4>1, VersionFacts DEF Version
      <4> QED BY <3>1, <4>1, <4>2 DEF Becomes, Reversioned, Evolves
    <3>3. CASE ~Found(target)
      <4>1. f.version = After(Zero)
        BY <2>4, <3>3 DEF version
      <4>2. f.version.draw = 0
        BY <4>1 DEF After, Zero
      <4> QED BY <3>1, <3>3, <4>2 DEF Becomes, Reversioned, Evolves
    <3> QED BY <3>2, <3>3
  <2>7. \A d \in Databases, j \in Keys :
           Becomes(s.keys[d][j], With(w, to, f).keys[d][j], s.draws, s.draws)
    <3> SUFFICES ASSUME NEW d \in Databases, NEW j \in Keys
                 PROVE  Becomes(s.keys[d][j], With(w, to, f).keys[d][j], s.draws, s.draws)
      OBVIOUS
    <3>1. CASE d = s.db /\ j = to
      BY <2>5, <2>6, <3>1, EntryFacts
    <3>2. CASE ~(d = s.db /\ j = to)
      BY <2>1, <2>5, <3>2, StaysOrGoes
    <3> QED BY <3>1, <3>2
  <2> QED BY <1>2, <2>3, <2>4, <2>5, <2>7 DEF Lawful
<1>5. CASE ~(~overwrite /\ Found(target)) /\ ~Found(e)
  <2>1. Rename(s, k, to, overwrite) = Lookup(r, k)
    BY <1>5 DEF Rename, r
  <2>2. /\ Lookup(r, k) \in Works /\ Lookup(r, k).draws = s.draws
        /\ \A d \in Databases, j \in Keys :
              \/ Lookup(r, k).keys[d][j] = s.keys[d][j]
              \/ Lookup(r, k).keys[d][j] = NoEntry
    <3> DEFINE w == Lookup(r, k)
    <3>1. /\ w \in Works /\ w.db = r.db /\ w.draws = r.draws
          /\ \A d \in Databases, j \in Keys :
                w.keys[d][j] = IF d = r.db /\ j = k /\ ~Found(r.keys[d][j])
                                 THEN NoEntry ELSE r.keys[d][j]
      BY <1>1, LookedUp
    <3> HIDE DEF w
    <3>2. /\ w \in Works /\ w.draws = s.draws
          /\ \A d \in Databases, j \in Keys :
                \/ w.keys[d][j] = s.keys[d][j]
                \/ w.keys[d][j] = NoEntry
      BY <1>1, <3>1
    <3> QED BY <3>2 DEF w
  <2> QED BY <1>2, <2>1, <2>2, StaysOrGoes DEF Lawful
<1> QED BY <1>3, <1>4, <1>5

LEMMA MoveLawful ==
  ASSUME NEW s \in Works, NEW k \in Keys, NEW db \in Databases
  PROVE  Lawful(s, Move(s, k, db))
<1> DEFINE e == Entry(s, k)
           a == [s EXCEPT !.db = db]
           b == Lookup(a, k)
           c == [b EXCEPT !.db = s.db]
           w == Without(c, k)
           x == [w EXCEPT !.db = db]
<1>1. s.draws \in Nat /\ s.db \in Databases
  BY DEF Works
<1>2. a \in Works /\ a.keys = s.keys /\ a.db = db /\ a.draws = s.draws
  BY SelectFacts
<1>3. CASE ~Found(e)
  <2>1. Move(s, k, db) = Lookup(s, k)
    BY <1>3 DEF Move
  <2> QED BY <1>1, <2>1, LookedUp, StaysOrGoes DEF Lawful
<1>4. CASE Found(e) /\ Found(s.keys[db][k])
  <2>1. Move(s, k, db) = s
    BY <1>4 DEF Move
  <2> QED BY <1>1, <2>1, StaysOrGoes DEF Lawful
<1>5. CASE Found(e) /\ ~Found(s.keys[db][k])
  <2>1. Move(s, k, db) = [KeySet(x, k, e.val, e.ttl, Zero) EXCEPT !.db = s.db]
    BY <1>5 DEF Move
  <2> HIDE DEF a
  <2>2. /\ b \in Works /\ b.draws = s.draws
        /\ \A d \in Databases, j \in Keys :
              b.keys[d][j] = s.keys[d][j] \/ b.keys[d][j] = NoEntry
    BY <1>2, LookedUp
  <2> HIDE DEF b
  <2>3. c \in Works /\ c.keys = b.keys /\ c.draws = s.draws
    BY <1>1, <2>2, SelectFacts
  <2> HIDE DEF c
  <2>4. /\ w \in Works /\ w.draws = s.draws
        /\ \A d \in Databases, j \in Keys :
              w.keys[d][j] = s.keys[d][j] \/ w.keys[d][j] = NoEntry
    <3>1. /\ w \in Works /\ w.draws = c.draws
          /\ \A d \in Databases, j \in Keys :
                w.keys[d][j] = IF d = c.db /\ j = k THEN NoEntry ELSE c.keys[d][j]
      BY <2>3, WithoutFacts
    <3> HIDE DEF w
    <3> QED BY <2>2, <2>3, <3>1
  <2> HIDE DEF w
  <2>5. x \in Works /\ x.keys = w.keys /\ x.draws = s.draws /\ x.db = db
    BY <2>4, SelectFacts
  <2> HIDE DEF x
  <2>6. PICK f : /\ KeySet(x, k, e.val, e.ttl, Zero) = With(x, k, f) /\ Sound(f)
                 /\ Exists(f) /\ f.version = After(Zero)
    BY <2>5, KeySetFacts, EntryFacts, ZeroFacts
  <2> DEFINE y == With(x, k, f)
             z == [y EXCEPT !.db = s.db]
  <2>7. /\ y \in Works /\ y.draws = s.draws
        /\ \A d \in Databases, j \in Keys :
              y.keys[d][j] = IF d = db /\ j = k THEN f ELSE x.keys[d][j]
    BY <2>5, <2>6, WithFacts
  <2> HIDE DEF y
  <2>8. z \in Works /\ z.keys = y.keys /\ z.draws = s.draws
    BY <1>1, <2>7, SelectFacts
  <2>9. Move(s, k, db) = z
    BY <2>1, <2>6 DEF y
  <2> HIDE DEF z
  <2>10. \A d \in Databases, j \in Keys :
            Becomes(s.keys[d][j], z.keys[d][j], s.draws, s.draws)
    <3> SUFFICES ASSUME NEW d \in Databases, NEW j \in Keys
                 PROVE  Becomes(s.keys[d][j], z.keys[d][j], s.draws, s.draws)
      OBVIOUS
    <3>1. CASE d = db /\ j = k
      <4>1. z.keys[d][j] = f /\ ~Found(s.keys[d][j])
        BY <1>5, <2>7, <2>8, <3>1
      <4>2. f.version.draw = 0
        BY <2>6 DEF After, Zero
      <4> QED BY <2>6, <4>1, <4>2 DEF Becomes, Reversioned, Evolves
    <3>2. CASE ~(d = db /\ j = k)
      BY <2>4, <2>5, <2>7, <2>8, <3>2, StaysOrGoes
    <3> QED BY <3>1, <3>2
  <2> QED BY <1>1, <2>8, <2>9, <2>10 DEF Lawful
<1> QED BY <1>3, <1>4, <1>5

LEMMA FlushFacts ==
  ASSUME NEW s \in Works
  PROVE  LET t == [s EXCEPT !.keys[s.db] = [k \in Keys |-> NoEntry]]
         IN /\ t \in Works /\ t.db = s.db /\ t.draws = s.draws
            /\ \A d \in Databases, j \in Keys :
                  t.keys[d][j] = IF d = s.db THEN NoEntry ELSE s.keys[d][j]
<1> DEFINE empty == [k \in Keys |-> NoEntry]
           t == [s.keys EXCEPT ![s.db] = empty]
<1>1. s.keys \in [Databases -> [Keys -> EntryType]] /\ s.db \in Databases
  BY DEF Works, KeyTrees
<1>2. empty \in [Keys -> EntryType] /\ \A k \in Keys : empty[k] = NoEntry
  BY ZeroFacts DEF Sound
<1> HIDE DEF empty
<1>3. /\ t \in [Databases -> [Keys -> EntryType]]
      /\ \A d \in Databases, j \in Keys :
            t[d][j] = IF d = s.db THEN NoEntry ELSE s.keys[d][j]
  BY <1>1, <1>2
<1>4. [s EXCEPT !.keys[s.db] = empty] = [s EXCEPT !.keys = t]
  BY DEF Works
<1> HIDE DEF t
<1>5. t \in KeyTrees
  BY <1>3, ZeroFacts DEF KeyTrees, Works
<1> QED BY <1>3, <1>4, <1>5 DEF Works, empty

LEMMA RunLawful ==
  ASSUME NEW s \in Works, NEW m \in Command
  PROVE  Lawful(s, Run(s, m))
<1>1. s.draws \in Nat
  BY DEF Works
<1>2. CASE m.op \in OneKeyOps
  BY <1>2, OneKeyLawful
<1>3. CASE m.op \in {"RENAME", "RENAMENX"}
  <2>1. m.key \in Keys /\ m.to \in Keys
    BY <1>3, CommandFields
  <2>2. \/ Run(s, m) = Rename(s, m.key, m.to, TRUE)
        \/ Run(s, m) = Rename(s, m.key, m.to, FALSE)
    BY <1>3 DEF Run
  <2> QED BY <2>1, <2>2, RenameLawful
<1>4. CASE m.op = "MOVE"
  <2>1. m.key \in Keys /\ m.db \in Databases
    BY <1>4, CommandFields
  <2>2. Run(s, m) = Move(s, m.key, m.db)
    BY <1>4 DEF Run
  <2> QED BY <2>1, <2>2, MoveLawful
<1>5. CASE m.op = "SELECT"
  <2>1. m.db \in Databases
    BY <1>5, CommandFields
  <2>2. Run(s, m) = [s EXCEPT !.db = m.db]
    BY <1>5 DEF Run
  <2> QED BY <1>1, <2>1, <2>2, SelectFacts, StaysOrGoes DEF Lawful
<1>6. CASE m.op = "FLUSHDB"
  <2>1. Run(s, m) = [s EXCEPT !.keys[s.db] = [k \in Keys |-> NoEntry]]
    BY <1>6 DEF Run
  <2> QED BY <1>1, <2>1, FlushFacts, StaysOrGoes DEF Lawful
<1>7. CASE m.op = "UNWATCH"
  <2>1. Run(s, m) = s
    BY <1>7 DEF Run
  <2> QED BY <1>1, <2>1, StaysOrGoes DEF Lawful
<1>8. m.op \in AllOps
  BY CommandFields
<1> QED BY <1>2, <1>3, <1>4, <1>5, <1>6, <1>7, <1>8 DEF AllOps, OneKeyOps

(* EXEC runs the commands of a queue one after the other. *)
LEMMA RunAllFacts ==
  ASSUME NEW s \in Works, NEW q \in Seq(Command)
  PROVE  \E after \in [0 .. Len(q) -> Works] :
            /\ after[0] = s
            /\ \A i \in 1 .. Len(q) : q[i] \in Command /\ after[i] = Run(after[i - 1], q[i])
            /\ RunAll(s, q) = after[Len(q)]
<1> DEFINE n == Len(q)
           F == [x \in (1 .. n) \X Works |-> Run(x[2], q[x[1]])]
           Solves(g) == g = [i \in 0 .. n |-> IF i = 0 THEN s ELSE Run(g[i - 1], q[i])]
           after == CHOOSE g : Solves(g)
<1>1. n \in Nat /\ \A i \in 1 .. n : q[i] \in Command
  OBVIOUS
<1>2. F \in [(1 .. n) \X Works -> Works]
  <2>1. \A x \in (1 .. n) \X Works : Run(x[2], q[x[1]]) \in Works
    BY <1>1, RunLawful DEF Lawful
  <2> QED BY <2>1
<1>3. \A i \in 1 .. n, x \in Works : F[<<i, x>>] = Run(x, q[i])
  OBVIOUS
<1> HIDE DEF F
<1>4a. PICK g : Iterates(g, n, Works, s, F)
  <2> HIDE DEF n
  <2> QED BY <1>1, <1>2, Recursion
<1>4. /\ g \in [0 .. n -> Works]
      /\ g[0] = s /\ \A i \in 1 .. n : g[i] = F[<<i, g[i - 1]>>]
  BY <1>4a DEF Iterates
<1>5. Solves(g)
  <2>1. ASSUME NEW i \in 0 .. n
        PROVE  g[i] = IF i = 0 THEN s ELSE Run(g[i - 1], q[i])
    <3>1. i # 0 => i \in 1 .. n /\ g[i - 1] \in Works
      BY <1>4
    <3> QED BY <1>3, <1>4, <3>1
  <2>2. g = [i \in 0 .. n |-> g[i]]
    BY <1>4
  <2> QED BY <2>1, <2>2
<1>6. Solves(after)
  BY <1>5
<1>7. RunAll(s, q) = after[n]
  BY DEF RunAll
<1> HIDE DEF after
<1>8. after[0] = s /\ \A i \in 1 .. n : after[i] = Run(after[i - 1], q[i])
  BY <1>6
<1>9. \A i \in 0 .. n : after[i] \in Works
  <2> DEFINE S == {i \in 0 .. n : after[i] \in Works}
  <2>1. \A i \in 1 .. n : after[i - 1] \in Works => after[i] \in Works
    BY <1>1, <1>8, RunLawful DEF Lawful
  <2>2. 0 \in S /\ \A i \in 1 .. n : i - 1 \in S => i \in S
    BY <1>1, <1>8, <2>1
  <2>3. 0 .. n \subseteq S
    <3> HIDE DEF S, n
    <3> QED BY <1>1, <2>2, BoundedInduction
  <2> QED BY <2>3
<1>10. after \in [0 .. n -> Works]
  BY <1>6, <1>9
<1> QED BY <1>1, <1>7, <1>8, <1>10

-----------------------------------------------------------------------------
(* The types.  What a client works on is typed, and so is what it leaves.  *)
LEMMA WorkTyped == ASSUME TypeOK, NEW c \in Clients PROVE Work(c) \in Works
<1>1. keys \in KeyTrees
  BY DEF TypeOK, KeyTrees, Sound
<1> QED BY <1>1 DEF TypeOK, Work, Works

(* A watched key after commands of c that have worked on s *)
Followed(c, w, s) ==
    [w EXCEPT !.touched = @ \/ Touched(keys[w.db][w.key], s.keys[w.db][w.key]),
              !.repeated = @ \/ DrawnAgain(w.version, draws[c], s.draws)]

LEMMA FollowedFacts ==
  ASSUME NEW c, NEW s, NEW w \in WatchedKey
  PROVE  LET x == Followed(c, w, s)
         IN /\ x \in WatchedKey /\ x.db = w.db /\ x.key = w.key
            /\ x.version = w.version /\ x.seen = w.seen
            /\ x.touched = (w.touched \/ Touched(keys[w.db][w.key], s.keys[w.db][w.key]))
            /\ x.repeated = (w.repeated \/ DrawnAgain(w.version, draws[c], s.draws))
<1> DEFINE b == w.touched \/ Touched(keys[w.db][w.key], s.keys[w.db][w.key])
           a == w.repeated \/ DrawnAgain(w.version, draws[c], s.draws)
           x == [w EXCEPT !.touched = b, !.repeated = a]
<1>1. b \in BOOLEAN /\ a \in BOOLEAN
  BY DEF Touched, DrawnAgain, WatchedKey
<1>2. Followed(c, w, s) = x
  BY DEF Followed
<1> HIDE DEF a, b
<1>3. /\ x \in WatchedKey /\ x.db = w.db /\ x.key = w.key
      /\ x.version = w.version /\ x.seen = w.seen /\ x.touched = b /\ x.repeated = a
  BY <1>1 DEF WatchedKey
<1> HIDE DEF x
<1> QED BY <1>2, <1>3 DEF a, b

LEMMA FollowTyped ==
  ASSUME NEW watches \in SUBSET WatchedKey, NEW c, NEW s
  PROVE  Follow(c, watches, s) \in SUBSET WatchedKey
<1>1. Follow(c, watches, s) = {Followed(c, w, s) : w \in watches}
  BY DEF Follow, Followed
<1>2. \A w \in watches : Followed(c, w, s) \in WatchedKey
  BY FollowedFacts
<1> QED BY <1>1, <1>2

LEMMA ReturnTyped ==
  ASSUME TypeOK, TInv', NEW c \in Clients, NEW s \in Works, NEW x,
         NEW watches \in SUBSET WatchedKey, Return(c, s, x, watches)
  PROVE  TypeOK'
<1>1. keys' = s.keys /\ s.keys \in KeyTrees /\ s.db \in Databases /\ s.draws \in Nat
  BY DEF Return, Works
<1>2. /\ keys' \in [Databases -> [Keys -> EntryType]]
      /\ \A d \in Databases, k \in Keys : ~Exists(keys'[d][k]) => keys'[d][k] = NoEntry
  BY <1>1 DEF KeyTrees, Sound
<1>3. lock' \in Clients \cup {None}
  BY DEF Return
<1>4. draws' \in [Clients -> Nat] /\ selected' \in [Clients -> Databases]
  BY <1>1 DEF Return, TypeOK
<1>5. watched' \in [Clients -> SUBSET WatchedKey]
  <2>1. \A d \in Clients : (IF d = c THEN watches ELSE watched[d]) \in SUBSET WatchedKey
    BY DEF TypeOK
  <2>2. \A d \in Clients :
           Follow(c, IF d = c THEN watches ELSE watched[d], s) \in SUBSET WatchedKey
    BY <2>1, FollowTyped
  <2> QED BY <2>2 DEF Return
<1>6. ctx' \in [Clients -> Context]
  BY DEF TInv
<1> QED BY <1>2, <1>3, <1>4, <1>5, <1>6 DEF TypeOK

(* What WATCH adds to the keys a client watches *)
Sighting(c, k) ==
    LET e == keys[selected[c]][k]
    IN [key |-> k, db |-> selected[c], version |-> e.version,
        seen |-> Content(e), touched |-> FALSE, repeated |-> FALSE]

LEMMA SightingTyped ==
  ASSUME TypeOK, NEW c \in Clients, NEW k \in Keys
  PROVE  Sighting(c, k) \in WatchedKey
<1>1. keys[selected[c]][k] \in EntryType /\ selected[c] \in Databases
  BY DEF TypeOK
<1> QED BY <1>1 DEF Sighting, WatchedKey, EntryType, Content

(* What a call can have done to the keys when it returns: nothing, one     *)
(* command within the bounds, or those of a queue.                         *)
Worked(c, s) ==
    \/ s = Work(c)
    \/ \E m \in Command : s = Run(Work(c), m) /\ Bounded(c, s)
    \/ At(c, "check") /\ s = RunAll(Work(c), ctx[c].queue)

WorkingStep(c) ==
    \/ \E m \in Command : Execute(c, m)
    \/ \E k \in Keys : Watch(c, k)
    \/ Multi(c) \/ Discard(c) \/ ExecFailed(c) \/ ExecNil(c) \/ ExecRun(c)

(* Every call that works on the keys returns in the same way. *)
Returns(c, s, watches) == \E x : Return(c, s, x, watches)
Sightings(c, watches) ==
    \A w \in watches : w \in watched[c] \/ \E k \in Keys : w = Sighting(c, k)

LEMMA WorkReturns ==
  ASSUME TypeOK, TInv, NEW c \in Clients, WorkingStep(c)
  PROVE  \E s \in Works, watches \in SUBSET WatchedKey :
            Returns(c, s, watches) /\ Worked(c, s) /\ Sightings(c, watches)
<1>1. Work(c) \in Works
  BY WorkTyped
<1>2. /\ watched[c] \in SUBSET WatchedKey /\ {} \in SUBSET WatchedKey
      /\ Sightings(c, {}) /\ Sightings(c, watched[c])
  BY DEF TypeOK, Sightings
<1>3. CASE \E m \in Command : Execute(c, m)
  <2>1. PICK m \in Command : Execute(c, m)
    BY <1>3
  <2> DEFINE watches == IF m.op = "UNWATCH" THEN {} ELSE watched[c]
  <2>2. Run(Work(c), m) \in Works
    BY <1>1, RunLawful DEF Lawful
  <2>3. watches \in SUBSET WatchedKey /\ Sightings(c, watches)
    BY <1>2
  <2>4. Returns(c, Run(Work(c), m), watches) /\ Worked(c, Run(Work(c), m))
    BY <2>1 DEF Execute, Worked, Returns
  <2> QED BY <2>2, <2>3, <2>4
<1>4. CASE \E k \in Keys : Watch(c, k)
  <2>1. PICK k \in Keys : Watch(c, k)
    BY <1>4
  <2> DEFINE w == Sighting(c, k)
             watches == IF ctx[c].multi THEN watched[c] ELSE watched[c] \cup {w}
  <2>2. w \in WatchedKey
    BY SightingTyped
  <2>3. Returns(c, Work(c), watches) /\ Worked(c, Work(c))
    BY <2>1 DEF Watch, Sighting, Worked, Returns
  <2>4. watches \in SUBSET WatchedKey /\ Sightings(c, watches)
    BY <1>2, <2>2 DEF Sightings
  <2> QED BY <1>1, <2>3, <2>4
<1>5. CASE Multi(c) \/ Discard(c) \/ ExecFailed(c) \/ ExecNil(c)
  <2>1. Returns(c, Work(c), {}) \/ Returns(c, Work(c), watched[c])
    BY <1>5, Zenon DEF Returns, Multi, Discard, ExecFailed, ExecNil
  <2>2. Worked(c, Work(c))
    BY DEF Worked
  <2> QED BY <1>1, <1>2, <2>1, <2>2
<1>6. CASE ExecRun(c)
  <2> DEFINE q == ctx[c].queue
             s == RunAll(Work(c), q)
  <2>1. q \in Seq(Command)
    BY DEF TInv, Context
  <2>2. s \in Works
    <3>1. PICK after \in [0 .. Len(q) -> Works] : s = after[Len(q)]
      BY <1>1, <2>1, RunAllFacts
    <3> QED BY <2>1, <3>1
  <2>3. Returns(c, s, {}) /\ Worked(c, s)
    BY <1>6 DEF ExecRun, Worked, Returns
  <2> QED BY <1>2, <2>2, <2>3
<1> QED BY <1>3, <1>4, <1>5, <1>6 DEF WorkingStep

LEMMA TickTyped ==
  ASSUME TypeOK, NEW d \in Databases, NEW k \in Keys, Tick(d, k)
  PROVE  /\ TypeOK'
         /\ \A a \in Databases, j \in Keys :
               keys'[a][j] = IF a = d /\ j = k THEN [keys[d][k] EXCEPT !.ttl = "past"]
                                               ELSE keys[a][j]
<1> DEFINE e == [keys[d][k] EXCEPT !.ttl = "past"]
<1>1. keys \in [Databases -> [Keys -> EntryType]] /\ keys[d][k] \in EntryType
  BY DEF TypeOK
<1>2. e \in EntryType /\ e.version = keys[d][k].version
  BY <1>1 DEF EntryType
<1>3. keys' = [keys EXCEPT ![d][k] = e]
  BY <1>1 DEF Tick
<1> HIDE DEF e
<1>4. /\ keys' \in [Databases -> [Keys -> EntryType]]
      /\ \A a \in Databases, j \in Keys :
            keys'[a][j] = IF a = d /\ j = k THEN e ELSE keys[a][j]
  BY <1>1, <1>2, <1>3
<1>5. Exists(keys[d][k])
  BY DEF Tick, TypeOK, NoEntry
<1>6. \A a \in Databases, j \in Keys : ~Exists(keys'[a][j]) => keys'[a][j] = NoEntry
  <2> SUFFICES ASSUME NEW a \in Databases, NEW j \in Keys, ~Exists(keys'[a][j])
               PROVE  keys'[a][j] = NoEntry
    OBVIOUS
  <2>1. CASE a = d /\ j = k
    BY <1>2, <1>4, <1>5, <2>1 DEF Exists
  <2>2. CASE ~(a = d /\ j = k)
    BY <1>4, <2>2 DEF TypeOK
  <2> QED BY <2>1, <2>2
<1> QED BY <1>4, <1>6 DEF TypeOK, Tick, e

LEMMA InitTyped == Init => TypeOK
<1> SUFFICES ASSUME Init PROVE TypeOK
  OBVIOUS
<1>1. /\ keys \in [Databases -> [Keys -> EntryType]]
      /\ \A d \in Databases, k \in Keys : keys[d][k] = NoEntry
  BY ZeroFacts DEF Init, Sound
<1>2. ctx \in [Clients -> Context]
  BY FreshContext DEF Init
<1> QED BY <1>1, <1>2, DatabaseAssumption, DrawAssumption DEF Init, TypeOK

LEMMA TStepTyped == TypeOK /\ TInv /\ [Next]_vars => TypeOK'
<1> SUFFICES ASSUME TypeOK, TInv, [Next]_vars PROVE TypeOK'
  OBVIOUS
<1>1. TInv'
  BY TStepInv
<1>2. ctx' \in [Clients -> Context]
  BY <1>1 DEF TInv
<1>3. ASSUME UNCHANGED <<keys, draws, selected, watched>>, lock' \in Clients \cup {None}
      PROVE  TypeOK'
  BY <1>2, <1>3 DEF TypeOK
<1>4. ASSUME NEW c \in Clients,
             Call(c) \/ Flock(c) \/ Reject(c) \/ Exec(c) \/ \E m \in Command : Queue(c, m)
      PROVE  TypeOK'
  <2>1. UNCHANGED <<keys, draws, selected, watched>> /\ lock' \in {lock, None, c}
    BY <1>4 DEF Call, Flock, Reject, Exec, Queue
  <2> QED BY <1>3, <2>1 DEF TypeOK
<1>5. ASSUME NEW c \in Clients, Reconnect(c) PROVE TypeOK'
  <2>1. selected' \in [Clients -> Databases] /\ watched' \in [Clients -> SUBSET WatchedKey]
    BY <1>5, DatabaseAssumption DEF Reconnect, TypeOK
  <2>2. lock' \in {lock, None} /\ UNCHANGED <<keys, draws>>
    BY <1>5 DEF Reconnect
  <2> QED BY <1>2, <2>1, <2>2 DEF TypeOK
<1>6. CASE \E d \in Databases, k \in Keys : Tick(d, k)
  BY <1>6, TickTyped
<1>7. CASE UNCHANGED vars
  BY <1>3, <1>7 DEF vars, TypeOK
<1>8. CASE \E c \in Clients : Call(c) \/ Flock(c) \/ Reject(c) \/ Step(c) \/ Reconnect(c)
  <2>1. PICK c \in Clients : Call(c) \/ Flock(c) \/ Reject(c) \/ Step(c) \/ Reconnect(c)
    BY <1>8
  <2>2. CASE WorkingStep(c)
    BY <1>1, <2>2, WorkReturns, ReturnTyped DEF Returns
  <2> QED BY <1>4, <1>5, <2>1, <2>2 DEF Step, WorkingStep
<1> QED BY <1>6, <1>7, <1>8 DEF Next

LEMMA TTyped == Spec => [](TypeOK /\ TInv)
<1> QED BY InitTyped, InitTInv, TStepTyped, TStepInv, PTL DEF Spec

(* Every command leaves key trees of their type, whatever the queue of an  *)
(* EXEC runs one after the other, and an entry with version 0 is none.     *)
THEOREM TypesKept == Spec => []TypeOK
<1> QED BY TTyped, PTL

(* One command changes the version of every key it changes in place.       *)
THEOREM VersionsChanged == Spec => ChangesVersion
<1> DEFINE A == (\E d \in Databases, k \in Keys :
                    /\ Found(keys[d][k]) /\ Exists(keys'[d][k])
                    /\ keys'[d][k] # keys[d][k]
                    /\ keys'[d][k].version = keys[d][k].version)
                => \A c \in Clients, m \in Command : ~Execute(c, m)
<1>1. TypeOK => A
  <2> SUFFICES ASSUME TypeOK, NEW c \in Clients, NEW m \in Command, Execute(c, m),
                      NEW d \in Databases, NEW k \in Keys
               PROVE  Reversioned(keys[d][k], keys'[d][k])
    BY DEF Reversioned
  <2>1. Lawful(Work(c), Run(Work(c), m))
    BY WorkTyped, RunLawful
  <2>2. Work(c).keys = keys /\ keys' = Run(Work(c), m).keys
    BY DEF Work, Execute, Return
  <2> QED BY <2>1, <2>2 DEF Lawful, Becomes
<1>2. TypeOK => [A]_vars
  BY <1>1
<1> HIDE DEF A
<1>3. Spec => [][A]_vars
  BY <1>2, TTyped, PTL
<1> QED BY <1>3 DEF ChangesVersion, A

-----------------------------------------------------------------------------
(***************************************************************************)
(* What WATCH promises, for every set of clients, keys and commands: EXEC  *)
(* does not give up for nothing, and, where versions can tell two states   *)
(* of a key apart, it does not go on when a watched key has changed.       *)
(***************************************************************************)

(* A watched key that no command has touched is what the WATCH has seen,   *)
(* or it had an expiry and is gone.                                        *)
Quiet(w, e) ==
    ~w.touched =>
       \/ e.version = w.version /\ Content(e) = w.seen
       \/ w.seen.expires /\ ~Exists(e)

QuietWatches == \A c \in Clients : \A w \in watched[c] : Quiet(w, keys[w.db][w.key])

LEMMA FollowQuiet ==
  ASSUME TypeOK, NEW c, NEW s \in Works, NEW watches \in SUBSET WatchedKey,
         \A w \in watches : Quiet(w, keys[w.db][w.key]),
         NEW x \in Follow(c, watches, s)
  PROVE  Quiet(x, s.keys[x.db][x.key])
<1>1. PICK w \in watches : x = Followed(c, w, s)
  BY DEF Follow, Followed
<1> DEFINE e == keys[w.db][w.key]
           f == s.keys[w.db][w.key]
           b == w.touched \/ Touched(e, f)
<1>2. w \in WatchedKey /\ w.db \in Databases /\ w.key \in Keys
  BY DEF WatchedKey
<1>3. /\ x.touched = b /\ x.db = w.db /\ x.key = w.key
      /\ x.version = w.version /\ x.seen = w.seen
  BY <1>1, <1>2, FollowedFacts
<1>4. (~Exists(e) => e = NoEntry) /\ Quiet(w, e)
  BY <1>2 DEF TypeOK
<1> HIDE DEF e, f, b
<1>5. SUFFICES ASSUME ~w.touched, ~Touched(e, f)
               PROVE  Quiet(x, f)
  BY <1>3 DEF Quiet, b, f
<1>6. CASE f = e
  BY <1>3, <1>4, <1>5, <1>6 DEF Quiet
<1>7. CASE e.ttl = "past" /\ ~Exists(f)
  <2>1. Exists(e) /\ Content(e).expires
    <3>1. NoEntry.ttl # e.ttl
      BY <1>7 DEF NoEntry
    <3> QED BY <1>4, <1>7, <3>1 DEF Content
  <2> QED BY <1>3, <1>4, <1>5, <1>7, <2>1 DEF Quiet
<1> QED BY <1>5, <1>6, <1>7 DEF Touched

LEMMA ReturnQuiet ==
  ASSUME TypeOK, QuietWatches, NEW c \in Clients, NEW s \in Works, NEW x,
         NEW watches \in SUBSET WatchedKey, Return(c, s, x, watches),
         \A w \in watches : Quiet(w, keys[w.db][w.key])
  PROVE  QuietWatches'
<1> SUFFICES ASSUME NEW d \in Clients, NEW w \in watched'[d]
             PROVE  Quiet(w, keys'[w.db][w.key])
  BY DEF QuietWatches
<1> DEFINE old == IF d = c THEN watches ELSE watched[d]
<1>1. keys' = s.keys /\ watched'[d] = Follow(c, old, s)
  BY DEF Return
<1>2. old \in SUBSET WatchedKey /\ \A v \in old : Quiet(v, keys[v.db][v.key])
  BY DEF QuietWatches, TypeOK
<1> HIDE DEF old
<1> QED BY <1>1, <1>2, FollowQuiet

LEMMA QuietInit == Init => QuietWatches
BY DEF Init, QuietWatches

LEMMA QuietStep == TypeOK /\ TInv /\ QuietWatches /\ [Next]_vars => QuietWatches'
<1> SUFFICES ASSUME TypeOK, TInv, QuietWatches, [Next]_vars PROVE QuietWatches'
  OBVIOUS
<1>1. ASSUME UNCHANGED <<keys, watched>> PROVE QuietWatches'
  BY <1>1 DEF QuietWatches
<1>2. ASSUME NEW c \in Clients, Reconnect(c) PROVE QuietWatches'
  BY <1>2 DEF Reconnect, QuietWatches, TypeOK
<1>3. ASSUME NEW d \in Databases, NEW k \in Keys, Tick(d, k) PROVE QuietWatches'
  <2> DEFINE f == [keys[d][k] EXCEPT !.ttl = "past"]
  <2>1. \A a \in Databases, j \in Keys :
           keys'[a][j] = IF a = d /\ j = k THEN f ELSE keys[a][j]
    BY <1>3, TickTyped
  <2>2. f.version = keys[d][k].version /\ Content(f) = Content(keys[d][k])
    BY <1>3 DEF Tick, TypeOK, EntryType, Content
  <2> HIDE DEF f
  <2>3. ASSUME NEW c \in Clients, NEW w \in watched[c]
        PROVE  Quiet(w, keys'[w.db][w.key])
    <3>1. w.db \in Databases /\ w.key \in Keys
      BY DEF TypeOK, WatchedKey
    <3> QED BY <2>1, <2>2, <3>1 DEF QuietWatches, Quiet, Exists
  <2> QED BY <1>3, <2>3 DEF Tick, QuietWatches
<1>4. ASSUME NEW c \in Clients, WorkingStep(c) PROVE QuietWatches'
  <2>1. PICK s \in Works, watches \in SUBSET WatchedKey :
           Returns(c, s, watches) /\ Sightings(c, watches)
    BY <1>4, WorkReturns
  <2>2. \A k \in Keys :
           Quiet(Sighting(c, k), keys[Sighting(c, k).db][Sighting(c, k).key])
    BY DEF Quiet, Sighting
  <2>3. \A w \in watches : Quiet(w, keys[w.db][w.key])
    BY <2>1, <2>2 DEF QuietWatches, Sightings
  <2> QED BY <2>1, <2>3, ReturnQuiet DEF Returns
<1>5. CASE \E c \in Clients : Call(c) \/ Flock(c) \/ Reject(c) \/ Step(c) \/ Reconnect(c)
  <2>1. PICK c \in Clients : Call(c) \/ Flock(c) \/ Reject(c) \/ Step(c) \/ Reconnect(c)
    BY <1>5
  <2>2. CASE Call(c) \/ Flock(c) \/ Reject(c) \/ Exec(c) \/ \E m \in Command : Queue(c, m)
    BY <1>1, <2>2 DEF Call, Flock, Reject, Exec, Queue
  <2> QED BY <1>2, <1>4, <2>1, <2>2 DEF Step, WorkingStep
<1>6. CASE UNCHANGED vars
  BY <1>1, <1>6 DEF vars
<1> QED BY <1>3, <1>5, <1>6 DEF Next

(* EXEC gives up for a reason: a command has touched a watched key, a key  *)
(* that was to expire is gone, or another database is selected.            *)
THEOREM AbortsJustified == Spec => []NoSpuriousAbort
<1>1. TypeOK /\ QuietWatches => NoSpuriousAbort
  <2> SUFFICES ASSUME TypeOK, QuietWatches, NEW c \in Clients, Outdated(c)
               PROVE  \E w \in watched[c] :
                         \/ w.touched
                         \/ w.seen.expires /\ ~Exists(keys[w.db][w.key])
                         \/ w.db # selected[c]
    BY DEF NoSpuriousAbort
  <2>1. PICK w \in watched[c] : keys[selected[c]][w.key].version # w.version
    BY DEF Outdated
  <2>2. Quiet(w, keys[w.db][w.key])
    BY DEF QuietWatches
  <2> QED BY <2>1, <2>2 DEF Quiet
<1> QED BY <1>1, TTyped, QuietInit, QuietStep, PTL DEF Spec

-----------------------------------------------------------------------------
(* How the keys evolve over the commands of a queue *)
LEMMA EvolvesFurther ==
  ASSUME NEW e, NEW f, NEW g, Sound(e), Sound(f), Sound(g),
         NEW m \in Nat, NEW n \in Nat, NEW o \in Nat, m <= n, n <= o,
         Evolves(e, f, m, n), Evolves(f, g, n, o)
  PROVE  Evolves(e, g, m, o)
<1>1. /\ e.version.draw \in Nat /\ f.version.draw \in Nat /\ g.version.draw \in Nat
      /\ e.version.updates \in Nat /\ f.version.updates \in Nat /\ g.version.updates \in Nat
  BY DEF Sound, EntryType, Version
<1>2. CASE g = f
  BY <1>1, <1>2 DEF Evolves, DrawnAgain
<1>3. CASE g = NoEntry
  BY <1>3 DEF Evolves
<1>4. CASE Exists(g) /\ (g.version.draw = 0 \/ DrawnAgain(g.version, n, o))
  BY <1>1, <1>4 DEF Evolves, DrawnAgain
<1>5. CASE /\ Exists(f) /\ Exists(g)
           /\ g.version.draw = f.version.draw /\ f.version.updates < g.version.updates
  <2>1. f # NoEntry
    BY <1>5, ZeroFacts
  <2> QED BY <1>1, <1>5, <2>1 DEF Evolves, DrawnAgain
<1> QED BY <1>2, <1>3, <1>4, <1>5 DEF Evolves

Kept(s, t) ==
    /\ t \in Works /\ s.draws <= t.draws
    /\ \A d \in Databases, j \in Keys :
          Evolves(s.keys[d][j], t.keys[d][j], s.draws, t.draws)

LEMMA KeptFurther ==
  ASSUME NEW s \in Works, NEW t, NEW u, Kept(s, t), Kept(t, u)
  PROVE  Kept(s, u)
<1>1. /\ t \in Works /\ u \in Works
      /\ s.draws \in Nat /\ t.draws \in Nat /\ u.draws \in Nat
      /\ s.draws <= t.draws /\ t.draws <= u.draws
  BY DEF Kept, Works
<1>2. ASSUME NEW d \in Databases, NEW j \in Keys
      PROVE  Evolves(s.keys[d][j], u.keys[d][j], s.draws, u.draws)
  <2>1. Sound(s.keys[d][j]) /\ Sound(t.keys[d][j]) /\ Sound(u.keys[d][j])
    BY <1>1 DEF Works, KeyTrees
  <2>2. /\ Evolves(s.keys[d][j], t.keys[d][j], s.draws, t.draws)
        /\ Evolves(t.keys[d][j], u.keys[d][j], t.draws, u.draws)
    BY DEF Kept
  <2> QED BY <1>1, <2>1, <2>2, EvolvesFurther
<1> QED BY <1>1, <1>2 DEF Kept

LEMMA KeptSelf == ASSUME NEW s \in Works PROVE Kept(s, s)
BY DEF Kept, Works, Evolves

LEMMA RunKept ==
  ASSUME NEW s \in Works, NEW m \in Command
  PROVE  Kept(s, Run(s, m))
<1>1. Lawful(s, Run(s, m)) /\ s.draws \in Nat
  BY RunLawful DEF Works
<1> QED BY <1>1 DEF Lawful, Becomes, Kept

LEMMA RunAllKept ==
  ASSUME NEW s \in Works, NEW q \in Seq(Command)
  PROVE  Kept(s, RunAll(s, q))
<1> DEFINE n == Len(q)
<1>1. PICK after \in [0 .. n -> Works] :
         /\ after[0] = s
         /\ \A i \in 1 .. n : q[i] \in Command /\ after[i] = Run(after[i - 1], q[i])
         /\ RunAll(s, q) = after[n]
  BY RunAllFacts
<1> DEFINE S == {i \in 0 .. n : Kept(s, after[i])}
<1>2. n \in Nat
  OBVIOUS
<1> HIDE DEF n
<1>3. 0 \in S
  BY <1>1, <1>2, KeptSelf
<1>4. ASSUME NEW i \in 1 .. n, i - 1 \in S PROVE i \in S
  <2>1. i - 1 \in 0 .. n /\ Kept(s, after[i - 1]) /\ after[i - 1] \in Works
    BY <1>1, <1>2, <1>4
  <2>2. Kept(after[i - 1], after[i])
    BY <1>1, <2>1, RunKept
  <2> QED BY <1>2, <2>1, <2>2, KeptFurther
<1>5. 0 .. n \subseteq S
  <2> HIDE DEF S
  <2> QED BY <1>2, <1>3, <1>4, BoundedInduction
<1>6. n \in S
  BY <1>2, <1>5
<1> QED BY <1>1, <1>6 DEF n

LEMMA WorkedKept ==
  ASSUME TypeOK, TInv, NEW c \in Clients, NEW s, Worked(c, s)
  PROVE  Kept(Work(c), s)
<1>1. Work(c) \in Works
  BY WorkTyped
<1>2. CASE s = Work(c)
  BY <1>1, <1>2, KeptSelf
<1>3. CASE \E m \in Command : s = Run(Work(c), m)
  BY <1>1, <1>3, RunKept
<1>4. CASE s = RunAll(Work(c), ctx[c].queue)
  <2>1. ctx[c].queue \in Seq(Command)
    BY DEF TInv, Context
  <2> QED BY <1>1, <1>4, <2>1, RunAllKept
<1> QED BY <1>2, <1>3, <1>4 DEF Worked

-----------------------------------------------------------------------------
(* What a watched key's version says of the entry that is there now.  The  *)
(* version of a missing key says that there was nothing.  If the number of *)
(* a version was not drawn again, an entry with that number is at least as *)
(* new as the WATCH, so that no update brings the version back, and with   *)
(* the same version it is what was seen.                                   *)
Older(v, u) == v.draw = u.draw => v.updates <= u.updates
Faithful(w, e) ==
    /\ w.version = Zero => w.seen = Content(NoEntry)
    /\ w.version.draw # 0 /\ ~w.repeated =>
          /\ Older(w.version, e.version)
          /\ e.version = w.version => w.seen = Content(e)
FaithfulWatches == \A c \in Clients : \A w \in watched[c] : Faithful(w, keys[w.db][w.key])

(* A watched key stays faithful, however its entry evolves. *)
LEMMA FaithfulAfter ==
  ASSUME NEW m \in Nat, NEW n \in Nat, NEW e, NEW f, Sound(e), Sound(f),
         Evolves(e, f, m, n), NEW w \in WatchedKey, Faithful(w, e),
         NEW x, x.version = w.version, x.seen = w.seen,
         ~x.repeated => ~w.repeated /\ ~DrawnAgain(w.version, m, n)
  PROVE  Faithful(x, f)
<1> DEFINE v == w.version
<1>1. /\ v.draw \in Nat /\ v.updates \in Nat
      /\ e.version.draw \in Nat /\ e.version.updates \in Nat
      /\ f.version.draw \in Nat /\ f.version.updates \in Nat
  BY DEF WatchedKey, Sound, EntryType, Version
<1>2. SUFFICES ASSUME v.draw # 0, ~w.repeated, ~DrawnAgain(v, m, n)
               PROVE  Older(v, f.version) /\ (f.version = v => w.seen = Content(f))
  BY DEF Faithful
<1>3. Older(v, e.version) /\ (e.version = v => w.seen = Content(e))
  BY <1>2 DEF Faithful
<1>4. CASE f = e
  BY <1>3, <1>4
<1>5. CASE f = NoEntry
  <2>1. f.version.draw = 0
    BY <1>5 DEF NoEntry, Zero
  <2> QED BY <1>2, <2>1 DEF Older
<1>6. CASE f.version.draw = 0 \/ DrawnAgain(f.version, m, n)
  <2>1. v.draw # f.version.draw
    BY <1>1, <1>2, <1>6 DEF DrawnAgain
  <2> QED BY <2>1 DEF Older
<1>7. CASE f.version.draw = e.version.draw /\ e.version.updates < f.version.updates
  <2>1. v.draw = f.version.draw => v.updates < f.version.updates
    BY <1>1, <1>3, <1>7 DEF Older
  <2> QED BY <1>1, <2>1 DEF Older
<1> QED BY <1>4, <1>5, <1>6, <1>7 DEF Evolves

LEMMA ReturnFaithful ==
  ASSUME TypeOK, FaithfulWatches, NEW c \in Clients, NEW s \in Works, NEW x,
         NEW watches \in SUBSET WatchedKey, Return(c, s, x, watches), Kept(Work(c), s),
         \A w \in watches : Faithful(w, keys[w.db][w.key])
  PROVE  FaithfulWatches'
<1> SUFFICES ASSUME NEW d \in Clients, NEW y \in watched'[d]
             PROVE  Faithful(y, keys'[y.db][y.key])
  BY DEF FaithfulWatches
<1> DEFINE old == IF d = c THEN watches ELSE watched[d]
<1>1. keys' = s.keys /\ watched'[d] = Follow(c, old, s)
  BY DEF Return
<1>2. old \in SUBSET WatchedKey /\ \A w \in old : Faithful(w, keys[w.db][w.key])
  BY DEF FaithfulWatches, TypeOK
<1> HIDE DEF old
<1>3. PICK w \in old : y = Followed(c, w, s)
  BY <1>1 DEF Follow, Followed
<1> DEFINE e == keys[w.db][w.key]
           f == s.keys[w.db][w.key]
<1>4. w \in WatchedKey /\ w.db \in Databases /\ w.key \in Keys
  BY <1>2 DEF WatchedKey
<1>5. /\ y.db = w.db /\ y.key = w.key /\ y.version = w.version /\ y.seen = w.seen
      /\ ~y.repeated => ~w.repeated /\ ~DrawnAgain(w.version, draws[c], s.draws)
  <2>1. /\ y.db = w.db /\ y.key = w.key /\ y.version = w.version /\ y.seen = w.seen
        /\ y.repeated = (w.repeated \/ DrawnAgain(w.version, draws[c], s.draws))
    BY <1>3, <1>4, FollowedFacts
  <2> QED BY <2>1, Zenon
<1>6. Sound(e) /\ Sound(f) /\ draws[c] \in Nat /\ s.draws \in Nat
  BY <1>4 DEF TypeOK, Sound, Works, KeyTrees
<1>7. Evolves(e, f, draws[c], s.draws)
  BY <1>4 DEF Kept, Work
<1>8. Faithful(w, e)
  BY <1>2
<1>9. keys'[y.db][y.key] = f
  BY <1>1, <1>5
<1> HIDE DEF e, f
<1> QED BY <1>4, <1>5, <1>6, <1>7, <1>8, <1>9, FaithfulAfter

LEMMA FaithfulInit == Init => FaithfulWatches
BY DEF Init, FaithfulWatches

LEMMA FaithfulStep == TypeOK /\ TInv /\ FaithfulWatches /\ [Next]_vars => FaithfulWatches'
<1> SUFFICES ASSUME TypeOK, TInv, FaithfulWatches, [Next]_vars PROVE FaithfulWatches'
  OBVIOUS
<1>1. ASSUME UNCHANGED <<keys, watched>> PROVE FaithfulWatches'
  BY <1>1 DEF FaithfulWatches
<1>2. ASSUME NEW c \in Clients, Reconnect(c) PROVE FaithfulWatches'
  BY <1>2 DEF Reconnect, FaithfulWatches, TypeOK
<1>3. ASSUME NEW d \in Databases, NEW k \in Keys, Tick(d, k) PROVE FaithfulWatches'
  <2> DEFINE f == [keys[d][k] EXCEPT !.ttl = "past"]
  <2>1. \A a \in Databases, j \in Keys :
           keys'[a][j] = IF a = d /\ j = k THEN f ELSE keys[a][j]
    BY <1>3, TickTyped
  <2>2. f.version = keys[d][k].version /\ Content(f) = Content(keys[d][k])
    BY <1>3 DEF Tick, TypeOK, EntryType, Content
  <2> HIDE DEF f
  <2>3. ASSUME NEW c \in Clients, NEW w \in watched[c]
        PROVE  Faithful(w, keys'[w.db][w.key])
    <3>1. w.db \in Databases /\ w.key \in Keys
      BY DEF TypeOK, WatchedKey
    <3> QED BY <2>1, <2>2, <3>1 DEF FaithfulWatches, Faithful
  <2> QED BY <1>3, <2>3 DEF Tick, FaithfulWatches
<1>4. ASSUME NEW c \in Clients, WorkingStep(c) PROVE FaithfulWatches'
  <2>1. PICK s \in Works, watches \in SUBSET WatchedKey :
           Returns(c, s, watches) /\ Worked(c, s) /\ Sightings(c, watches)
    BY <1>4, WorkReturns
  <2>2. ASSUME NEW k \in Keys
        PROVE  Faithful(Sighting(c, k), keys[Sighting(c, k).db][Sighting(c, k).key])
    <3> DEFINE w == Sighting(c, k)
               e == keys[selected[c]][k]
    <3>1. /\ w.db = selected[c] /\ w.key = k /\ w.version = e.version /\ w.seen = Content(e)
          /\ selected[c] \in Databases
      BY DEF Sighting, TypeOK
    <3>2. e.version.updates \in Nat /\ (e.version = Zero => e = NoEntry)
      BY <3>1 DEF TypeOK, EntryType, Version, Exists
    <3> HIDE DEF w, e
    <3>3. keys[w.db][w.key] = e
      BY <3>1 DEF e
    <3>4. Older(e.version, e.version)
      BY <3>2 DEF Older
    <3> QED BY <3>1, <3>2, <3>3, <3>4 DEF Faithful, w
  <2>3. \A w \in watches : Faithful(w, keys[w.db][w.key])
    BY <2>1, <2>2 DEF FaithfulWatches, Sightings
  <2>4. Kept(Work(c), s)
    BY <2>1, WorkedKept
  <2> QED BY <2>1, <2>3, <2>4, ReturnFaithful DEF Returns
<1>5. CASE \E c \in Clients : Call(c) \/ Flock(c) \/ Reject(c) \/ Step(c) \/ Reconnect(c)
  <2>1. PICK c \in Clients : Call(c) \/ Flock(c) \/ Reject(c) \/ Step(c) \/ Reconnect(c)
    BY <1>5
  <2>2. CASE Call(c) \/ Flock(c) \/ Reject(c) \/ Exec(c) \/ \E m \in Command : Queue(c, m)
    BY <1>1, <2>2 DEF Call, Flock, Reject, Exec, Queue
  <2> QED BY <1>2, <1>4, <2>1, <2>2 DEF Step, WorkingStep
<1>6. CASE UNCHANGED vars
  BY <1>1, <1>6 DEF vars
<1> QED BY <1>3, <1>5, <1>6 DEF Next

(* When EXEC runs its queue, every watched key has the value, and expires  *)
(* or not, as the WATCH has seen it, whatever the clients have done        *)
(* meanwhile and however often they had called rand(): but for the keys of *)
(* another database, those whose number was drawn again since the WATCH    *)
(* and those that a RENAME or MOVE brought where there was none.           *)
THEOREM WatchedUnchanged == Spec => []WatchSafe
<1>1. TypeOK /\ FaithfulWatches => WatchSafe
  <2> SUFFICES ASSUME TypeOK, FaithfulWatches, NEW c \in Clients, ~Outdated(c),
                      NEW w \in watched[c], Telling(c, w)
               PROVE  w.seen = Content(keys[w.db][w.key])
    BY DEF WatchSafe
  <2>1. /\ Faithful(w, keys[w.db][w.key]) /\ keys[w.db][w.key].version = w.version
        /\ w.db \in Databases /\ w.key \in Keys
    BY DEF FaithfulWatches, Outdated, Telling, TypeOK, WatchedKey
  <2>2. CASE w.version = Zero
    BY <2>1, <2>2 DEF Faithful, TypeOK, Exists
  <2>3. CASE w.version.draw # 0 /\ ~w.repeated
    BY <2>1, <2>3 DEF Faithful
  <2> QED BY <2>2, <2>3 DEF Telling
<1> QED BY <1>1, TTyped, FaithfulInit, FaithfulStep, PTL DEF Spec
=============================================================================
