---------------------------- MODULE PubSubProofs ----------------------------
(***************************************************************************)
(* Theorems about PubSub.tla, for any clients, channels and patterns and   *)
(* any number of messages: the two directions in which subscriptions are   *)
(* stored agree, nobody sleeps on a message but for the race between the   *)
(* poll and the opening of the fifo, and changes are committed with an old *)
(* header only where a command commits twice.                              *)
(*                                                                         *)
(* A step makes a database of the committed one or of the one that the     *)
(* lock's holder works on, by a subscription, its removal or a message. So *)
(* the first invariant says the same of both databases, and of each client *)
(* beside either.                                                          *)
(*                                                                         *)
(* The second says where a client can lose the lock within a command, and  *)
(* so what can become stale; what it needs to know of the others is that   *)
(* they change only what is theirs.                                        *)
(***************************************************************************)
EXTENDS PubSub, Induction, FiniteSetTheorems, SequenceTheorems, TLAPS

(* The fields of a database and of a connection, and their types as far as *)
(* they matter.                                                            *)
DbTyped(d) ==
    /\ d = [f \in {"subs", "own", "messages", "user"} |-> d[f]]
    /\ d.subs \in [Topic -> SUBSET Clients]
    /\ d.own \in [Clients -> SUBSET Topic]
    /\ d.messages = [c \in Clients |-> d.messages[c]]
ClientTyped(r) ==
    r = [f \in {"pc", "id", "wait", "missed", "stale", "whom", "job"} |-> r[f]]

Agree(d) == \A t \in Topic, c \in Clients : c \in d.subs[t] <=> t \in d.own[c]
Sound(d) == DbTyped(d) /\ Agree(d)

(* A client that is about to sleep, or sleeps, has no message it was not   *)
(* signalled for; one that has no id has none at all.                      *)
Quiet(d, c, r) ==
    /\ r.pc \in {"create", "asleep"} /\ d.messages[c] # <<>> => r.missed
    /\ ~r.id /\ r.pc # "gone" => d.messages[c] = <<>>

ClientsTyped == h = [c \in Clients |-> h[c]] /\ \A c \in Clients : ClientTyped(h[c])
AllQuiet(d) == \A c \in Clients : Quiet(d, c, h[c])
PInv ==
    /\ ClientsTyped
    /\ Sound(db) /\ Sound(work)
    /\ AllQuiet(db) /\ AllQuiet(work)

-----------------------------------------------------------------------------
(* Subscribing and unsubscribing change both directions alike, and no      *)
(* message.                                                                *)
LEMMA AddedSound ==
    ASSUME NEW d, Sound(d), NEW c \in Clients, NEW ts \in SUBSET Topic
    PROVE  Sound(Added(d, c, ts)) /\ Added(d, c, ts).messages = d.messages
<1> DEFINE e == Added(d, c, ts)
<1>1. DbTyped(d) /\ Agree(d)
  BY DEF Sound
<1>2. /\ e = [f \in {"subs", "own", "messages", "user"} |-> e[f]]
      /\ e.subs = [t \in Topic |-> IF t \in ts THEN d.subs[t] \cup {c} ELSE d.subs[t]]
      /\ e.own = [d.own EXCEPT ![c] = @ \cup ts]
      /\ e.messages = d.messages
  BY <1>1 DEF Added, DbTyped
<1> HIDE DEF e
<1>3. /\ e.subs \in [Topic -> SUBSET Clients] /\ e.own \in [Clients -> SUBSET Topic]
  BY <1>1, <1>2 DEF DbTyped
<1>4. Agree(e)
  BY <1>1, <1>2 DEF DbTyped, Agree
<1> QED BY <1>1, <1>2, <1>3, <1>4 DEF e, Sound, DbTyped

LEMMA RemovedSound ==
    ASSUME NEW d, Sound(d), NEW c \in Clients, NEW ts \in SUBSET Topic
    PROVE  Sound(Removed(d, c, ts)) /\ Removed(d, c, ts).messages = d.messages
<1> DEFINE e == Removed(d, c, ts)
<1>1. DbTyped(d) /\ Agree(d)
  BY DEF Sound
<1>2. /\ e = [f \in {"subs", "own", "messages", "user"} |-> e[f]]
      /\ e.subs = [t \in Topic |-> IF t \in ts THEN d.subs[t] \ {c} ELSE d.subs[t]]
      /\ e.own = [d.own EXCEPT ![c] = @ \ ts]
      /\ e.messages = d.messages
  BY <1>1 DEF Removed, DbTyped
<1> HIDE DEF e
<1>3. /\ e.subs \in [Topic -> SUBSET Clients] /\ e.own \in [Clients -> SUBSET Topic]
  BY <1>1, <1>2 DEF DbTyped
<1>4. Agree(e)
  BY <1>1, <1>2 DEF DbTyped, Agree
<1> QED BY <1>1, <1>2, <1>3, <1>4 DEF e, Sound, DbTyped

(* A message received or sent changes no subscription, and nothing else of *)
(* another client.                                                         *)
LEMMA MessageSound ==
    ASSUME NEW d, Sound(d), NEW m \in Clients, NEW x
    PROVE  LET e == [d EXCEPT !.messages[m] = x]
           IN /\ Sound(e)
              /\ \A q \in Clients \ {m} : e.messages[q] = d.messages[q]
<1> DEFINE e == [d EXCEPT !.messages[m] = x]
<1>1. DbTyped(d) /\ Agree(d)
  BY DEF Sound
<1>2. /\ e = [f \in {"subs", "own", "messages", "user"} |-> e[f]]
      /\ e.subs = d.subs /\ e.own = d.own
      /\ e.messages = [d.messages EXCEPT ![m] = x]
  BY <1>1 DEF DbTyped
<1> HIDE DEF e
<1>3. /\ e.messages = [q \in Clients |-> e.messages[q]]
      /\ \A q \in Clients \ {m} : e.messages[q] = d.messages[q]
  BY <1>1, <1>2 DEF DbTyped
<1>4. Sound(e)
  BY <1>1, <1>2, <1>3 DEF DbTyped, Agree, Sound
<1> QED BY <1>3, <1>4 DEF e

LEMMA UserSound ==
    ASSUME NEW d, Sound(d), NEW m, NEW x
    PROVE  LET e == [d EXCEPT !.user[m] = x]
           IN Sound(e) /\ e.messages = d.messages
<1> DEFINE e == [d EXCEPT !.user[m] = x]
<1>1. DbTyped(d) /\ Agree(d)
  BY DEF Sound
<1>2. /\ e = [f \in {"subs", "own", "messages", "user"} |-> e[f]]
      /\ e.subs = d.subs /\ e.own = d.own /\ e.messages = d.messages
  BY <1>1 DEF DbTyped
<1> HIDE DEF e
<1>3. Sound(e)
  BY <1>1, <1>2 DEF DbTyped, Agree, Sound
<1> QED BY <1>2, <1>3 DEF e

-----------------------------------------------------------------------------
(* How a step ends.  A commit leaves one database, a sound one, beside     *)
(* which every client has to be quiet; what becomes stale does not matter. *)
LEMMA CommitInv ==
    ASSUME PInv, NEW c \in Clients, NEW new, NEW next, Commit(c, new, next),
           Sound(new), ClientTyped(next), Quiet(new, c, next),
           \A q \in Clients \ {c} : Quiet(new, q, h[q])
    PROVE  PInv'
<1>1. /\ db' = new /\ work' = new
      /\ h' = [q \in Clients |->
                 IF q = c THEN next
                 ELSE IF new # db /\ h[q].pc \in Unrefreshed THEN [h[q] EXCEPT !.stale = TRUE]
                 ELSE h[q]]
  BY DEF Commit
<1>2. \A q \in Clients : ClientTyped(h[q])
  BY DEF PInv, ClientsTyped
<1>3. ASSUME NEW q \in Clients
      PROVE  ClientTyped(h'[q]) /\ Quiet(new, q, h'[q])
  <2>1. CASE q = c
    BY <1>1, <2>1
  <2>2. CASE q # c /\ h'[q] = [h[q] EXCEPT !.stale = TRUE]
    <3>1. /\ ClientTyped(h'[q])
          /\ h'[q].pc = h[q].pc /\ h'[q].id = h[q].id /\ h'[q].missed = h[q].missed
      BY <1>2, <2>2 DEF ClientTyped
    <3> QED BY <2>2, <3>1 DEF Quiet
  <2>3. CASE q # c /\ h'[q] = h[q]
    BY <1>2, <2>3
  <2> QED BY <1>1, <2>1, <2>2, <2>3
<1>4. h' = [q \in Clients |-> h'[q]]
  BY <1>1
<1> QED BY <1>1, <1>3, <1>4 DEF PInv, ClientsTyped, AllQuiet, Sound, DbTyped, Agree, Quiet

(* Without a commit the clients change, and what the lock's holder sees.   *)
LEMMA KeepInv ==
    ASSUME PInv, NEW holder, NEW new, Keep(holder, new), Sound(new), ClientsTyped',
           \A q \in Clients : Quiet(db, q, h'[q]) /\ Quiet(new, q, h'[q])
    PROVE  PInv'
<1>1. db' = db /\ (work' = db \/ work' = new)
  BY DEF Keep
<1> QED BY <1>1 DEF PInv, AllQuiet, Sound, DbTyped, Agree, Quiet

(* Most steps leave a client that does not sleep, and take no id away.     *)
Tame(old, r) ==
    /\ ClientTyped(r)
    /\ r.pc \notin {"create", "asleep"}
    /\ r.id \/ r.pc = "gone" \/ (~old.id /\ old.pc # "gone")

LEMMA TameKeepInv ==
    ASSUME PInv, NEW c \in Clients, NEW r, Tame(h[c], r), h' = [h EXCEPT ![c] = r],
           NEW holder, NEW new, new \in {db, work}, Keep(holder, new)
    PROVE  PInv'
<1>1. ClientsTyped'
  BY DEF PInv, ClientsTyped, Tame
<1>2. ASSUME NEW q \in Clients
      PROVE  Quiet(db, q, h'[q]) /\ Quiet(work, q, h'[q])
  <2>1. h'[q] = IF q = c THEN r ELSE h[q]
    BY DEF PInv, ClientsTyped
  <2> QED BY <2>1 DEF PInv, AllQuiet, Quiet, Tame
<1>3. Sound(new) /\ \A q \in Clients : Quiet(db, q, h'[q]) /\ Quiet(new, q, h'[q])
  BY <1>2 DEF PInv
<1> QED BY <1>1, <1>3, KeepInv

LEMMA TameCommitInv ==
    ASSUME PInv, NEW c \in Clients, NEW r, Tame(h[c], r),
           NEW old, old \in {db, work},
           NEW new, Sound(new), new.messages = old.messages, Commit(c, new, r)
    PROVE  PInv'
<1>1. \A q \in Clients : Quiet(old, q, h[q])
  BY DEF PInv, AllQuiet
<1>2. /\ Quiet(new, c, r)
      /\ \A q \in Clients \ {c} : Quiet(new, q, h[q])
  BY <1>1 DEF Quiet, Tame
<1> QED BY <1>2, CommitInv DEF Tame

(* A client that has an id and receives its messages is not asleep then.   *)
LEMMA ReceiveInv ==
    ASSUME PInv, NEW c \in Clients, NEW r, ClientTyped(r), r.id, r.pc = "idle",
           Commit(c, Received(c), r)
    PROVE  PInv'
<1>1. /\ Sound(Received(c))
      /\ \A q \in Clients \ {c} : Received(c).messages[q] = db.messages[q]
  BY MessageSound DEF PInv, Received
<1>2. Quiet(Received(c), c, r)
  BY DEF Quiet
<1>3. \A q \in Clients \ {c} : Quiet(Received(c), q, h[q])
  BY <1>1 DEF PInv, AllQuiet, Quiet
<1> QED BY <1>1, <1>2, <1>3, CommitInv

-----------------------------------------------------------------------------
LEMMA InitInv == Init => PInv
<1> SUFFICES ASSUME Init PROVE PInv
  OBVIOUS
<1>1. /\ db = EmptyDb /\ work = EmptyDb
      /\ h = [c \in Clients |-> Fresh]
  BY DEF Init
<1>2. Sound(EmptyDb) /\ \A c \in Clients : EmptyDb.messages[c] = <<>>
  BY DEF Sound, DbTyped, Agree, EmptyDb
<1>3. ClientTyped(Fresh)
  BY DEF ClientTyped, Fresh
<1> QED BY <1>1, <1>2, <1>3 DEF PInv, ClientsTyped, AllQuiet, Quiet

(* Calls of a client that is idle *)
LEMMA SubscribeInv ==
    ASSUME PInv, NEW c \in Clients, NEW ts \in SUBSET Topic, Subscribe(c, ts)
    PROVE  PInv'
<1> DEFINE r == [h[c] EXCEPT !.id = TRUE, !.pc = "count"]
<1>1. Commit(c, Added(db, c, ts), r)
  BY DEF Subscribe
<1>2. Tame(h[c], r)
  BY DEF PInv, ClientsTyped, ClientTyped, Tame
<1>3. Sound(Added(db, c, ts)) /\ Added(db, c, ts).messages = db.messages
  BY AddedSound DEF PInv
<1> QED BY <1>1, <1>2, <1>3, TameCommitInv

LEMMA UnsubscribeInv ==
    ASSUME PInv, NEW c \in Clients, NEW ts \in SUBSET Topic, NEW pc \in {"no reply", "count"},
           At(c, "idle"), Commit(c, Removed(db, c, ts), [h[c] EXCEPT !.pc = pc])
    PROVE  PInv'
<1> DEFINE r == [h[c] EXCEPT !.pc = pc]
<1>1. Tame(h[c], r)
  BY DEF PInv, ClientsTyped, ClientTyped, Tame, At
<1>2. Sound(Removed(db, c, ts)) /\ Removed(db, c, ts).messages = db.messages
  BY RemovedSound DEF PInv
<1> QED BY <1>1, <1>2, TameCommitInv

LEMMA WaitInv ==
    ASSUME PInv, NEW c \in Clients, NEW wait, At(c, "idle") \/ At(c, "no reply"), Wait(c, wait)
    PROVE  PInv'
<1>1. ClientTyped(h[c])
  BY DEF PInv, ClientsTyped
<1>2. CASE h[c].id /\ Waiting(c)
  <2> DEFINE r == [h[c] EXCEPT !.pc = "idle"]
  <2>1. Commit(c, Received(c), r)
    BY <1>2 DEF Wait
  <2>2. ClientTyped(r) /\ r.id /\ r.pc = "idle"
    BY <1>1, <1>2 DEF ClientTyped
  <2> QED BY <2>1, <2>2, ReceiveInv
<1>3. CASE ~(h[c].id /\ Waiting(c))
  <2> DEFINE r == [h[c] EXCEPT !.id = TRUE, !.wait = wait, !.pc = "create"]
  <2>1. h' = [h EXCEPT ![c] = r] /\ Keep(None, db)
    BY <1>3 DEF Wait
  <2>2. ClientTyped(r) /\ r.id
    BY <1>1 DEF ClientTyped
  <2>3. db.messages[c] = <<>>
    BY <1>3 DEF PInv, AllQuiet, Quiet, Waiting, At
  <2> HIDE DEF r
  <2>4. ClientsTyped'
    BY <2>1, <2>2 DEF PInv, ClientsTyped
  <2>5. ASSUME NEW q \in Clients PROVE Quiet(db, q, h'[q])
    <3>1. h'[q] = IF q = c THEN r ELSE h[q]
      BY <2>1 DEF PInv, ClientsTyped
    <3> QED BY <2>2, <2>3, <3>1 DEF PInv, AllQuiet, Quiet
  <2>6. Sound(db)
    BY DEF PInv
  <2> QED BY <2>1, <2>4, <2>5, <2>6, KeepInv
<1> QED BY <1>2, <1>3

LEMMA CallInv ==
    ASSUME PInv, NEW c \in Clients, Call(c)
    PROVE  PInv'
<1>1. ASSUME NEW kind \in {Channels, Patterns},
             NEW ts \in (SUBSET (kind \cap TopicsOf[c])) \ {{}}, Subscribe(c, ts)
      PROVE  PInv'
  <2>1. ts \in SUBSET Topic
    BY <1>1 DEF Topic
  <2> QED BY <1>1, <2>1, SubscribeInv
<1>2. ASSUME NEW kind \in {Channels, Patterns},
             NEW ts \in (SUBSET (kind \cap TopicsOf[c])) \ {{}}, Unsubscribe(c, ts)
      PROVE  PInv'
  <2>1. ts \in SUBSET Topic
    BY <1>2 DEF Topic
  <2> QED BY <1>2, <2>1, UnsubscribeInv DEF Unsubscribe
<1>3. ASSUME NEW kind \in {Channels, Patterns}, UnsubscribeAll(c, kind)
      PROVE  PInv'
  <2> DEFINE ts == {t \in kind : db.subs[t] # {}}
  <2>1. ts \in SUBSET Topic
    BY <1>3 DEF Topic
  <2>2. \E pc \in {"no reply", "count"} : Commit(c, Removed(db, c, ts), [h[c] EXCEPT !.pc = pc])
    BY <1>3 DEF UnsubscribeAll
  <2>3. At(c, "idle")
    BY <1>3 DEF UnsubscribeAll
  <2> HIDE DEF ts
  <2> QED BY <2>1, <2>2, <2>3, UnsubscribeInv
<1>4. ASSUME Poll(c) PROVE PInv'
  <2>1. ClientTyped(h[c])
    BY DEF PInv, ClientsTyped
  <2> QED BY <1>4, <2>1, ReceiveInv DEF Poll, At
<1>5. ASSUME NEW wait, PollWait(c, wait) PROVE PInv'
  <2>1. Wait(c, wait) /\ At(c, "idle")
    BY <1>5 DEF PollWait
  <2> QED BY <2>1, WaitInv
<1>6. ASSUME NEW chan, Publish(c, chan) PROVE PInv'
  <2>1. PICK job : /\ h' = [h EXCEPT ![c].pc = "publish", ![c].job = job]
                   /\ Keep(c, db)
    BY <1>6 DEF Publish
  <2> DEFINE r == [h[c] EXCEPT !.pc = "publish", !.job = job]
  <2>2. h' = [h EXCEPT ![c] = r]
    BY <2>1 DEF PInv, ClientsTyped
  <2>3. Tame(h[c], r)
    BY <1>6 DEF PInv, ClientsTyped, ClientTyped, Tame, Publish, At
  <2> QED BY <2>1, <2>2, <2>3, TameKeepInv
<1>7. ASSUME Close(c) PROVE PInv'
  <2> DEFINE r == [h[c] EXCEPT !.pc = "unsubscribe channels", !.whom = c]
  <2>1. h' = [h EXCEPT ![c] = r] /\ Keep(c, db)
    BY <1>7 DEF Close, PInv, ClientsTyped
  <2>2. Tame(h[c], r)
    BY <1>7 DEF PInv, ClientsTyped, ClientTyped, Tame, Close, At
  <2> QED BY <2>1, <2>2, TameKeepInv
<1> QED BY <1>1, <1>2, <1>3, <1>4, <1>5, <1>6, <1>7 DEF Call

-----------------------------------------------------------------------------
(* What follows a call *)
LEMMA ViewIn == \A c \in Clients : View(c) \in {db, work}
BY DEF View

LEMMA PollAgainInv ==
    ASSUME PInv, NEW c \in Clients, PollAgain(c)
    PROVE  PInv'
<1> DEFINE r == [h[c] EXCEPT !.pc = "idle", !.wait = "none", !.missed = FALSE]
<1>1. ClientTyped(r) /\ r.pc = "idle" /\ r.id = h[c].id /\ At(c, "woken")
  BY DEF PInv, ClientsTyped, ClientTyped, PollAgain
<1>2. CASE Waiting(c)
  <2>1. Commit(c, Received(c), r)
    BY <1>2 DEF PollAgain
  <2>2. h[c].id
    BY <1>1, <1>2 DEF PInv, AllQuiet, Quiet, Waiting, At
  <2> QED BY <1>1, <2>1, <2>2, ReceiveInv
<1>3. CASE ~Waiting(c)
  <2>1. PICK holder : h' = [h EXCEPT ![c] = r] /\ Keep(holder, db)
    BY <1>3 DEF PollAgain
  <2>2. Tame(h[c], r)
    BY <1>1 DEF Tame, At
  <2> QED BY <2>1, <2>2, TameKeepInv
<1> QED BY <1>2, <1>3

LEMMA OpenSignalInv ==
    ASSUME PInv, NEW c \in Clients, OpenSignal(c)
    PROVE  PInv'
<1> DEFINE r == [h[c] EXCEPT !.pc = "asleep"]
<1>1. h' = [h EXCEPT ![c] = r] /\ UNCHANGED <<db, work>> /\ At(c, "create")
  BY DEF OpenSignal, PInv, ClientsTyped
<1>2. ClientTyped(r) /\ r.pc = "asleep" /\ r.id = h[c].id /\ r.missed = h[c].missed
  BY DEF PInv, ClientsTyped, ClientTyped
<1> HIDE DEF r
<1>3. ClientsTyped'
  BY <1>1, <1>2 DEF PInv, ClientsTyped
<1>4. ASSUME NEW q \in Clients
      PROVE  Quiet(db, q, h'[q]) /\ Quiet(work, q, h'[q])
  <2>1. h'[q] = IF q = c THEN r ELSE h[q]
    BY <1>1 DEF PInv, ClientsTyped
  <2> QED BY <1>1, <1>2, <2>1 DEF PInv, AllQuiet, Quiet, At
<1> QED BY <1>1, <1>3, <1>4 DEF PInv, AllQuiet, Sound, DbTyped, Agree, Quiet

LEMMA TimeoutInv ==
    ASSUME PInv, NEW c \in Clients, Timeout(c)
    PROVE  PInv'
<1> DEFINE r == [h[c] EXCEPT !.pc = "woken"]
<1>1. h' = [h EXCEPT ![c] = r] /\ UNCHANGED <<db, work>> /\ At(c, "asleep")
  BY DEF Timeout, PInv, ClientsTyped
<1>2. ClientTyped(r) /\ r.pc = "woken" /\ r.id = h[c].id
  BY DEF PInv, ClientsTyped, ClientTyped
<1> HIDE DEF r
<1>3. ClientsTyped'
  BY <1>1, <1>2 DEF PInv, ClientsTyped
<1>4. ASSUME NEW q \in Clients
      PROVE  Quiet(db, q, h'[q]) /\ Quiet(work, q, h'[q])
  <2>1. h'[q] = IF q = c THEN r ELSE h[q]
    BY <1>1 DEF PInv, ClientsTyped
  <2> QED BY <1>1, <1>2, <2>1 DEF PInv, AllQuiet, Quiet, At
<1> QED BY <1>1, <1>3, <1>4 DEF PInv, AllQuiet, Sound, DbTyped, Agree, Quiet

(* A message is sent: its receiver is woken, or is about to sleep and has  *)
(* missed the signal, or is doing something else.                          *)
LEMMA SendInv ==
    ASSUME PInv, NEW c \in Clients, NEW m \in Clients, Send(c, m)
    PROVE  PInv'
<1>1. /\ At(c, "publish") /\ h[m].id
      /\ \E left : h' = [Signalled(m) EXCEPT ![c].job.left = left]
      /\ \E x : \/ Keep(c, [View(c) EXCEPT !.messages[m] = x])
                \/ Keep(c, [View(c) EXCEPT !.user[m] = x])
  <2>1. h' = [Signalled(m) EXCEPT ![c].job.left = Signalled(m)[c].job.left \ {m}]
    BY DEF Send
  <2>2. CASE h[c].job.db = "messages"
    BY <2>1, <2>2 DEF Send, Alive
  <2>3. CASE h[c].job.db # "messages"
    BY <2>1, <2>3 DEF Send, Alive
  <2> QED BY <2>2, <2>3
<1>2. PICK left : h' = [Signalled(m) EXCEPT ![c].job.left = left]
  BY <1>1
<1>3. h = [q \in Clients |-> h[q]] /\ \A q \in Clients : ClientTyped(h[q])
  BY DEF PInv, ClientsTyped
<1> DEFINE s == Signalled(m)
<1>4. /\ s = [q \in Clients |-> s[q]]
      /\ \A q \in Clients \ {m} : s[q] = h[q]
      /\ s[m] = IF h[m].pc = "asleep" THEN [h[m] EXCEPT !.pc = "woken"]
                ELSE IF h[m].pc = "create" THEN [h[m] EXCEPT !.missed = TRUE]
                ELSE h[m]
  BY <1>3 DEF Signalled
<1>5. /\ ClientTyped(s[m]) /\ s[m].id
      /\ s[m].pc \in {"create", "asleep"} => s[m].missed
  BY <1>1, <1>3, <1>4 DEF ClientTyped
<1> HIDE DEF s
<1>6. h' = [s EXCEPT ![c].job.left = left]
  BY <1>2 DEF s
<1>7. ASSUME NEW q \in Clients
      PROVE  /\ ClientTyped(h'[q]) /\ h'[q].pc = s[q].pc
             /\ h'[q].id = s[q].id /\ h'[q].missed = s[q].missed
  <2>1. ClientTyped(s[q])
    BY <1>3, <1>4, <1>5
  <2>2. h'[q] = IF q = c THEN [s[c] EXCEPT !.job.left = left] ELSE s[q]
    BY <1>4, <1>6
  <2> QED BY <2>1, <2>2 DEF ClientTyped
<1>8. ClientsTyped'
  BY <1>4, <1>6, <1>7 DEF ClientsTyped
<1>9. PICK new : /\ Keep(c, new) /\ Sound(new)
                 /\ \A q \in Clients \ {m} : new.messages[q] = View(c).messages[q]
  <2>1. Sound(View(c))
    BY ViewIn DEF PInv
  <2>2. PICK x : \/ Keep(c, [View(c) EXCEPT !.messages[m] = x])
                 \/ Keep(c, [View(c) EXCEPT !.user[m] = x])
    BY <1>1
  <2>3. LET new == [View(c) EXCEPT !.messages[m] = x]
        IN Sound(new) /\ \A q \in Clients \ {m} : new.messages[q] = View(c).messages[q]
    BY <2>1, MessageSound
  <2>4. LET new == [View(c) EXCEPT !.user[m] = x]
        IN Sound(new) /\ new.messages = View(c).messages
    BY <2>1, UserSound
  <2>5. CASE Keep(c, [View(c) EXCEPT !.messages[m] = x])
    BY <2>3, <2>5
  <2>6. CASE Keep(c, [View(c) EXCEPT !.user[m] = x])
    BY <2>4, <2>6
  <2> QED BY <2>2, <2>5, <2>6
<1>10. ASSUME NEW q \in Clients
       PROVE  Quiet(db, q, h'[q]) /\ Quiet(new, q, h'[q])
  <2>1. Quiet(db, q, h[q]) /\ Quiet(View(c), q, h[q])
    BY ViewIn DEF PInv, AllQuiet
  <2>2. CASE q = m
    BY <1>5, <1>7, <2>2 DEF Quiet
  <2>3. CASE q # m
    BY <1>4, <1>7, <1>9, <2>1, <2>3 DEF Quiet
  <2> QED BY <2>2, <2>3
<1> QED BY <1>8, <1>9, <1>10, KeepInv

(* The rest of a publication, of an unsubscription and of a close *)
LEMMA UnsubscribeTypeInv ==
    ASSUME PInv, NEW c \in Clients, NEW kind \in {Channels, Patterns}, NEW next,
           UnsubscribeType(c, kind, next), Tame(h[c], next)
    PROVE  PInv'
<1> DEFINE ts == View(c).own[h[c].whom] \cap kind
           done == [next EXCEPT !.stale = FALSE]
<1>1. CASE h[c].id /\ ts # {}
  <2> DEFINE r == IF next.job = NoJob THEN done ELSE [done EXCEPT !.job.torn = TRUE]
  <2>1. Commit(c, Removed(View(c), c, ts), r)
    BY <1>1 DEF UnsubscribeType
  <2>2. Tame(h[c], r)
    BY DEF Tame, ClientTyped
  <2>3. ts \in SUBSET Topic
    BY DEF Topic
  <2>4. Sound(View(c))
    BY ViewIn DEF PInv
  <2> HIDE DEF ts, r
  <2>5. /\ Sound(Removed(View(c), c, ts))
        /\ Removed(View(c), c, ts).messages = View(c).messages
    BY <2>3, <2>4, RemovedSound
  <2> QED BY <2>1, <2>2, <2>5, ViewIn, TameCommitInv
<1>2. CASE ~(h[c].id /\ ts # {})
  <2>1. h' = [h EXCEPT ![c] = next] /\ Keep(c, View(c))
    BY <1>2 DEF UnsubscribeType
  <2> QED BY <2>1, ViewIn, TameKeepInv
<1> QED BY <1>1, <1>2

LEMMA StepInv ==
    ASSUME PInv, NEW c \in Clients, Step(c)
    PROVE  PInv'
<1> USE DEF At
<1>0. ClientTyped(h[c]) /\ h = [q \in Clients |-> h[q]]
  BY DEF PInv, ClientsTyped
<1>1. ASSUME Count(c) PROVE PInv'
  <2> DEFINE r == [h[c] EXCEPT !.pc = "idle"]
  <2>1. h' = [h EXCEPT ![c] = r] /\ Keep(None, db)
    BY <1>1, <1>0 DEF Count
  <2>2. Tame(h[c], r)
    BY <1>0, <1>1 DEF ClientTyped, Tame, Count
  <2> QED BY <2>1, <2>2, TameKeepInv
<1>2. ASSUME NoReply(c) PROVE PInv'
  <2>1. Wait(c, "reply") /\ At(c, "no reply")
    BY <1>2 DEF NoReply
  <2> QED BY <2>1, WaitInv
<1>3. ASSUME NEW m \in Clients, CleanUp(c, m) PROVE PInv'
  <2> DEFINE r == [h[c] EXCEPT !.pc = "unsubscribe channels", !.whom = m,
                               !.job.left = h[c].job.left \ {m}]
  <2>1. h' = [h EXCEPT ![c] = r] /\ Keep(c, View(c))
    BY <1>3, <1>0 DEF CleanUp
  <2>2. Tame(h[c], r)
    BY <1>0, <1>3 DEF ClientTyped, Tame, CleanUp
  <2> QED BY <2>1, <2>2, ViewIn, TameKeepInv
<1>4. ASSUME NextTopic(c) PROVE PInv'
  <2>1. PICK job : h' = [h EXCEPT ![c] = [@ EXCEPT !.job = job]] /\ Keep(c, View(c))
    BY <1>4, <1>0 DEF NextTopic
  <2> DEFINE r == [h[c] EXCEPT !.job = job]
  <2>2. h' = [h EXCEPT ![c] = r]
    BY <2>1, <1>0
  <2>3. Tame(h[c], r)
    BY <1>0, <1>4 DEF ClientTyped, Tame, NextTopic
  <2> QED BY <2>1, <2>2, <2>3, ViewIn, TameKeepInv
<1>5. ASSUME EndPublish(c) PROVE PInv'
  <2> DEFINE r == [h[c] EXCEPT !.pc = "idle", !.job = NoJob, !.stale = FALSE]
  <2>1. Commit(c, View(c), r)
    BY <1>5 DEF EndPublish
  <2>2. Tame(h[c], r)
    BY <1>0, <1>5 DEF ClientTyped, Tame, EndPublish
  <2>3. Sound(View(c))
    BY ViewIn DEF PInv
  <2> QED BY <2>1, <2>2, <2>3, ViewIn, TameCommitInv
<1>6. ASSUME UnsubscribeChannels(c) PROVE PInv'
  <2> DEFINE r == [h[c] EXCEPT !.pc = "unsubscribe patterns"]
  <2>1. UnsubscribeType(c, Channels, r)
    BY <1>6 DEF UnsubscribeChannels
  <2>2. Tame(h[c], r)
    BY <1>0, <1>6 DEF ClientTyped, Tame, UnsubscribeChannels
  <2> QED BY <2>1, <2>2, UnsubscribeTypeInv
<1>7. ASSUME UnsubscribePatterns(c) PROVE PInv'
  <2> DEFINE r == IF h[c].job = NoJob THEN [h[c] EXCEPT !.pc = "closing"]
                  ELSE [h[c] EXCEPT !.pc = "publish", !.whom = None, !.job.db = "user"]
  <2>1. UnsubscribeType(c, Patterns, r)
    BY <1>7 DEF UnsubscribePatterns
  <2>2. Tame(h[c], r)
    BY <1>0, <1>7 DEF ClientTyped, Tame, UnsubscribePatterns
  <2> QED BY <2>1, <2>2, UnsubscribeTypeInv
<1>8. ASSUME EndClose(c) PROVE PInv'
  <2>1. PICK holder : h' = [h EXCEPT ![c] = Gone] /\ Keep(holder, work)
    BY <1>8 DEF EndClose
  <2>2. Tame(h[c], Gone)
    BY DEF ClientTyped, Tame, Gone, Fresh
  <2> QED BY <2>1, <2>2, TameKeepInv
<1>9. ASSUME NextCall(c) PROVE PInv'
  <2>1. h' = [h EXCEPT ![c] = h[c]] /\ Keep(None, db)
    BY <1>9, <1>0 DEF NextCall
  <2>2. Tame(h[c], h[c])
    BY <1>0, <1>9 DEF Tame, NextCall
  <2> QED BY <2>1, <2>2, TameKeepInv
<1> QED
  BY <1>1, <1>2, <1>3, <1>4, <1>5, <1>6, <1>7, <1>8, <1>9, OpenSignalInv, TimeoutInv,
     PollAgainInv, SendInv DEF Step

LEMMA DieInv ==
    ASSUME PInv, NEW c \in Clients, Die(c)
    PROVE  PInv'
<1>1. PICK holder : h' = [h EXCEPT ![c] = Gone] /\ Keep(holder, work)
  BY DEF Die
<1>2. Tame(h[c], Gone)
  BY DEF ClientTyped, Tame, Gone, Fresh
<1> QED BY <1>1, <1>2, TameKeepInv

-----------------------------------------------------------------------------
(* What a connection and the two databases have to do with each other is   *)
(* kept by every step of every client, its death included (pubsub.c).      *)
THEOREM Invariance == Spec => []PInv
<1>1. ASSUME PInv, [Next]_vars PROVE PInv'
  <2>1. CASE Next
    BY <1>1, <2>1, CallInv, StepInv, DieInv DEF Next
  <2>2. CASE UNCHANGED vars
    BY <1>1, <2>2 DEF vars, PInv, ClientsTyped, ClientTyped, AllQuiet, Quiet, Sound, DbTyped, Agree
  <2> QED BY <1>1, <2>1, <2>2
<1> QED BY <1>1, InitInv, PTL DEF Spec

(* A client is among a topic's subscribers if and only if the topic is     *)
(* among the client's own, in what is committed and in what the lock's     *)
(* holder works on, though they are kept in different databases that are   *)
(* changed one after the other (do_subscribe, do_unsubscribe).             *)
THEOREM DirectionsAgree == Spec => []SubscriptionsAgree
<1>1. PInv => SubscriptionsAgree
  BY DEF PInv, Sound, Agree, SubscriptionsAgree
<1> QED BY <1>1, Invariance, PTL

(* Whoever sleeps on a message was signalled between its poll and the      *)
(* opening of its fifo: no other interleaving of a publication with a      *)
(* waiting subscriber loses a wake-up (rl_poll_wait, rl_write_signal).     *)
THEOREM WakeUpsKept == Spec => []SleepsOnlyInRace
<1>1. PInv => SleepsOnlyInRace
  BY DEF PInv, AllQuiet, Quiet, SleepsOnlyInRace, Waiting, At
<1> QED BY <1>1, Invariance, PTL

-----------------------------------------------------------------------------
(* Who commits with an old header.  A client that gives up its channels or *)
(* publishes holds the lock, until it commits half way: only then can      *)
(* others change the file, and what it has read of the file become stale.  *)
JobFields == {"chan", "data", "topic", "left", "db", "last", "torn"}
JobTyped(j) == j = NoJob \/ (j = [f \in JobFields |-> j[f]] /\ j.chan \in Channels)

Dead == \E m \in Mortal : At(m, "gone")
Closing(c) == h[c].pc \in {"unsubscribe channels", "unsubscribe patterns"} /\ h[c].job = NoJob

(* Whose topics a client has, and that it has an id then or has died *)
OwnTopics(c) ==
    /\ db.own[c] \subseteq TopicsOf[c]
    /\ db.own[c] # {} => h[c].id \/ (c \in Mortal /\ At(c, "gone"))

(* A client that closes gives up its channels and then its patterns.       *)
ClosesOwn(c) ==
    /\ Closing(c) => h[c].whom = c /\ h[c].id
    /\ Closing(c) /\ At(c, "unsubscribe patterns") => db.own[c] \cap Channels = {}
    /\ At(c, "closing") => db.own[c] = {} /\ h[c].job = NoJob

(* A publication serves subscribers, unless one has died.                  *)
Serves(c) ==
    /\ JobTyped(h[c].job)
    /\ At(c, "publish") => h[c].job # NoJob
    /\ h[c].job # NoJob =>
          /\ c \in Publishers /\ h[c].pc \in Unrefreshed
          /\ \/ Dead
             \/ At(c, "publish") /\ \A m \in h[c].job.left : m \in Clients /\ db.own[m] # {}

(* Who can have an old header *)
Excused(c) ==
    IF h[c].job = NoJob
      THEN At(c, "unsubscribe patterns") /\ TopicsOf[c] \cap Channels # {}
      ELSE Dead
StaleExcused(c) ==
    /\ h[c].stale => h[c].pc \in Unrefreshed \cup {"closing"}
    /\ h[c].pc \in Unrefreshed /\ (lock # c \/ h[c].stale) => Excused(c)

FClient(c) == OwnTopics(c) /\ ClosesOwn(c) /\ Serves(c) /\ StaleExcused(c)

(* Whoever may have committed with an old header *)
Fault(c) ==
    \/ \A kind \in {Channels, Patterns} : TopicsOf[c] \cap kind # {}
    \/ c \in Publishers /\ Dead

FInv ==
    /\ work.subs = db.subs /\ work.own = db.own
    /\ blind \subseteq Clients
    /\ \A c \in Clients : FClient(c)
    /\ \A c \in blind : Fault(c)

(* What a client's step leaves to the others: their ids, their jobs and    *)
(* what they own; a header becomes stale only if they have no lock.        *)
Alike(q, c) ==
    /\ h'[q].id = h[q].id /\ h'[q].job = h[q].job /\ h'[q].whom = h[q].whom
    /\ h'[q].pc = h[q].pc \/ (h[q].pc = "asleep" /\ h'[q].pc = "woken")
    /\ h'[q].stale => h[q].stale \/ (h[q].pc \in Unrefreshed /\ lock \in {None, c})
    /\ db'.own[q] = db.own[q] /\ (lock = q => lock' = q)
Leaves(c) ==
    /\ work'.subs = db'.subs /\ work'.own = db'.own
    /\ \A q \in Clients \ {c} : Alike(q, c)
    /\ lock \in {None, c} \/ db'.own = db.own

LEMMA DeadStays ==
    ASSUME NEW c \in Clients, ~At(c, "gone"), Leaves(c), Dead
    PROVE  Dead'
<1>1. PICK m \in Mortal : At(m, "gone")
  BY DEF Dead
<1>2. m \in Clients \ {c}
  BY <1>1, RolesAssumption
<1> QED BY <1>1, <1>2 DEF Dead, Leaves, Alike, At

(* So a step keeps the invariant if its own client keeps it, and a commit  *)
(* with an old header has a reason.                                        *)
LEMMA LeavesInv ==
    ASSUME FInv, NEW c \in Clients, ~At(c, "gone"), Leaves(c), FClient(c)',
           blind' = blind \/ (blind' = blind \cup {c} /\ Fault(c))
    PROVE  FInv'
<1>1. Dead => Dead'
  BY DeadStays
<1>2. ASSUME NEW q \in Clients, q # c PROVE FClient(q)'
  <2>1. Alike(q, c) /\ FClient(q)
    BY <1>2 DEF Leaves, FInv
  <2>2. OwnTopics(q)' /\ ClosesOwn(q)'
    BY <2>1 DEF Alike, FClient, OwnTopics, ClosesOwn, Closing, At
  <2>3. h'[q].pc \in Unrefreshed \cup {"closing", "publish"} => h'[q].pc = h[q].pc
    BY <2>1 DEF Alike, Unrefreshed
  <2>4. lock \in {None, c} => lock # q
    BY <1>2, NoneAssumption
  <2>5. h[q].pc \in Unrefreshed /\ lock \in {None, c} => Excused(q)
    BY <2>1, <2>4 DEF FClient, StaleExcused
  <2>6. h[q].pc \in Unrefreshed => h'[q].pc = h[q].pc
    BY <2>1 DEF Alike, Unrefreshed
  <2>7. Excused(q) => Excused(q)'
    BY <1>1, <2>1 DEF Excused, Alike, At
  <2>8. Serves(q)'
    <3>1. CASE h[q].job = NoJob
      BY <2>1, <2>3, <3>1 DEF Alike, FClient, Serves, At
    <3>2. CASE h[q].job # NoJob
      <4>1. /\ q \in Publishers /\ h'[q].pc = h[q].pc /\ h[q].pc \in Unrefreshed
            /\ \/ Dead
               \/ At(q, "publish") /\ \A m \in h[q].job.left : m \in Clients /\ db.own[m] # {}
        BY <2>1, <2>6, <3>2 DEF FClient, Serves
      <4>2. lock \in {None, c} => Dead
        BY <2>5, <3>2, <4>1 DEF Excused
      <4>3. Dead \/ db'.own = db.own
        BY <4>2 DEF Leaves
      <4> QED BY <1>1, <2>1, <3>2, <4>1, <4>3 DEF Alike, FClient, Serves, At
    <3> QED BY <3>1, <3>2
  <2>9. StaleExcused(q)'
    <3>1. h'[q].stale => h'[q].pc \in Unrefreshed \cup {"closing"}
      BY <2>1, <2>6 DEF Alike, FClient, StaleExcused, Unrefreshed
    <3>2. ASSUME h'[q].pc \in Unrefreshed, lock' # q \/ h'[q].stale
          PROVE  Excused(q)
      <4>1. h[q].pc \in Unrefreshed
        BY <2>3, <3>2
      <4>2. lock # q \/ h[q].stale \/ lock \in {None, c}
        BY <2>1, <3>2 DEF Alike
      <4> QED BY <2>1, <2>5, <4>1, <4>2 DEF FClient, StaleExcused
    <3> QED BY <2>7, <3>1, <3>2 DEF StaleExcused
  <2> QED BY <2>2, <2>8, <2>9 DEF FClient
<1>3. \A q \in Clients : Fault(q) => Fault(q)'
  BY <1>1 DEF Fault
<1>4. blind' \subseteq Clients /\ \A q \in blind' : Fault(q)'
  BY <1>3 DEF FInv
<1> QED BY <1>2, <1>4 DEF FInv, Leaves

LEMMA CommitLeaves ==
    ASSUME PInv, FInv, NEW c \in Clients, NEW new, NEW r, LockFree(c), Commit(c, new, r),
           \A q \in Clients \ {c} : new.own[q] = db.own[q]
    PROVE  /\ Leaves(c) /\ h'[c] = r /\ lock' = None /\ db' = new
           /\ blind' = blind \/ (blind' = blind \cup {c} /\ h[c].stale /\ new # db)
<1>1. /\ db' = new /\ work' = new /\ lock' = None
      /\ h' = [q \in Clients |->
                 IF q = c THEN r
                 ELSE IF new # db /\ h[q].pc \in Unrefreshed THEN [h[q] EXCEPT !.stale = TRUE]
                 ELSE h[q]]
      /\ blind' = IF new # db /\ h[c].stale THEN blind \cup {c} ELSE blind
  BY DEF Commit
<1>2. lock \in {None, c}
  BY DEF LockFree
<1>3. ASSUME NEW q \in Clients \ {c} PROVE Alike(q, c)
  <2>1. ClientTyped(h[q])
    BY DEF PInv, ClientsTyped
  <2>2. db'.own[q] = db.own[q] /\ lock # q
    BY <1>1, <1>2, NoneAssumption
  <2>3. \/ h'[q] = h[q]
        \/ h'[q] = [h[q] EXCEPT !.stale = TRUE] /\ h[q].pc \in Unrefreshed
    BY <1>1
  <2> QED BY <1>2, <2>1, <2>2, <2>3 DEF Alike, ClientTyped
<1> QED BY <1>1, <1>2, <1>3 DEF Leaves

LEMMA KeepLeaves ==
    ASSUME PInv, FInv, NEW c \in Clients, NEW holder, NEW new, NEW r, Keep(holder, new),
           h' = [h EXCEPT ![c] = r], new.subs = db.subs, new.own = db.own,
           \A q \in Clients \ {c} : lock = q => holder = q
    PROVE  /\ Leaves(c) /\ h'[c] = r /\ lock' = holder /\ db' = db /\ blind' = blind
<1>1. db' = db /\ blind' = blind /\ lock' = holder /\ work' \in {db, new}
  BY DEF Keep
<1>2. h'[c] = r /\ \A q \in Clients \ {c} : h'[q] = h[q]
  BY DEF PInv, ClientsTyped
<1> QED BY <1>1, <1>2 DEF Leaves, Alike

(* A client with its own lock, or without any, takes it from nobody. *)
LEMMA LockTaken ==
    ASSUME NEW c \in Clients, LockFree(c)
    PROVE  \A q \in Clients \ {c} : lock # q
BY NoneAssumption DEF LockFree

LEMMA ViewSame ==
    ASSUME FInv, NEW c
    PROVE  View(c).subs = db.subs /\ View(c).own = db.own
BY DEF FInv, View

(* A client that neither publishes nor closes, before and after *)
Calm(r) == r.pc \notin Unrefreshed \cup {"closing", "gone"}

LEMMA CalmClient ==
    ASSUME FInv, NEW c \in Clients, Calm(h[c]), Calm(h'[c]),
           h'[c].job = h[c].job, h'[c].stale = h[c].stale, h[c].id => h'[c].id,
           db'.own[c] \subseteq TopicsOf[c],
           db'.own[c] \subseteq db.own[c] \/ h'[c].id
    PROVE  FClient(c)' /\ ~h[c].stale /\ ~At(c, "gone")
<1>1. FClient(c)
  BY DEF FInv
<1>2. h[c].job = NoJob /\ ~h[c].stale /\ ~At(c, "gone")
  BY <1>1 DEF Calm, FClient, Serves, StaleExcused, At
<1>3. OwnTopics(c)'
  BY <1>1, <1>2 DEF FClient, OwnTopics
<1>4. ClosesOwn(c)' /\ Serves(c)' /\ StaleExcused(c)'
  BY <1>2 DEF Calm, ClosesOwn, Closing, Serves, StaleExcused, At, Unrefreshed, JobTyped
<1> QED BY <1>2, <1>3, <1>4 DEF FClient

LEMMA CalmCommit ==
    ASSUME PInv, FInv, NEW c \in Clients, NEW new, NEW r, LockFree(c), Commit(c, new, r),
           \A q \in Clients \ {c} : new.own[q] = db.own[q],
           Calm(h[c]), Calm(r), r.job = h[c].job, r.stale = h[c].stale, h[c].id => r.id,
           new.own[c] \subseteq TopicsOf[c],
           new.own[c] \subseteq db.own[c] \/ r.id
    PROVE  FInv'
<1>1. /\ Leaves(c) /\ h'[c] = r /\ lock' = None /\ db' = new
      /\ blind' = blind \/ (blind' = blind \cup {c} /\ h[c].stale /\ new # db)
  BY CommitLeaves
<1>2. FClient(c)' /\ ~h[c].stale /\ ~At(c, "gone")
  BY <1>1, CalmClient
<1> QED BY <1>1, <1>2, LeavesInv

LEMMA CalmKeep ==
    ASSUME PInv, FInv, NEW c \in Clients, NEW holder, NEW new, NEW r, Keep(holder, new),
           h' = [h EXCEPT ![c] = r], new.subs = db.subs, new.own = db.own,
           \A q \in Clients \ {c} : lock = q => holder = q,
           Calm(h[c]), Calm(r), r.job = h[c].job, r.stale = h[c].stale, h[c].id => r.id
    PROVE  FInv'
<1>1. /\ Leaves(c) /\ h'[c] = r /\ lock' = holder /\ db' = db /\ blind' = blind
  BY KeepLeaves
<1>2. db.own[c] \subseteq TopicsOf[c]
  BY DEF FInv, FClient, OwnTopics
<1>3. FClient(c)' /\ ~h[c].stale /\ ~At(c, "gone")
  BY <1>1, <1>2, CalmClient
<1> QED BY <1>1, <1>3, LeavesInv

LEMMA CalmStill ==
    ASSUME PInv, FInv, NEW c \in Clients, NEW r, h' = [h EXCEPT ![c] = r],
           UNCHANGED <<db, work, lock, blind>>,
           Calm(h[c]), Calm(r), r.job = h[c].job, r.stale = h[c].stale, h[c].id => r.id
    PROVE  FInv'
<1>1. h'[c] = r /\ \A q \in Clients \ {c} : h'[q] = h[q]
  BY DEF PInv, ClientsTyped
<1>2. Leaves(c)
  BY <1>1 DEF Leaves, Alike, FInv
<1>3. db.own[c] \subseteq TopicsOf[c]
  BY DEF FInv, FClient, OwnTopics
<1>4. FClient(c)' /\ ~h[c].stale /\ ~At(c, "gone")
  BY <1>1, <1>3, CalmClient
<1> QED BY <1>2, <1>4, LeavesInv

(* Which subscriptions a subscription, its removal and a message leave *)
LEMMA AddedOwn ==
    ASSUME NEW d, Sound(d), NEW c \in Clients, NEW ts \in SUBSET Topic
    PROVE  /\ Added(d, c, ts).own[c] = d.own[c] \cup ts
           /\ \A q \in Clients \ {c} : Added(d, c, ts).own[q] = d.own[q]
<1>1. /\ Added(d, c, ts).own = [d.own EXCEPT ![c] = @ \cup ts]
      /\ d.own \in [Clients -> SUBSET Topic]
  BY DEF Sound, Added, DbTyped
<1> QED BY <1>1

LEMMA RemovedOwn ==
    ASSUME NEW d, Sound(d), NEW c \in Clients, NEW ts \in SUBSET Topic
    PROVE  /\ Removed(d, c, ts).own[c] = d.own[c] \ ts
           /\ \A q \in Clients \ {c} : Removed(d, c, ts).own[q] = d.own[q]
<1>1. /\ Removed(d, c, ts).own = [d.own EXCEPT ![c] = @ \ ts]
      /\ d.own \in [Clients -> SUBSET Topic]
  BY DEF Sound, Removed, DbTyped
<1> QED BY <1>1

LEMMA MessageOwn ==
    ASSUME NEW d, Sound(d), NEW m, NEW x
    PROVE  /\ [d EXCEPT !.messages[m] = x].own = d.own
           /\ [d EXCEPT !.messages[m] = x].subs = d.subs
           /\ [d EXCEPT !.user[m] = x].own = d.own
           /\ [d EXCEPT !.user[m] = x].subs = d.subs
BY DEF Sound, DbTyped

LEMMA ReceivedInv ==
    ASSUME PInv, FInv, NEW c \in Clients, LockFree(c), NEW r, Commit(c, Received(c), r),
           Calm(h[c]), Calm(r), r.job = h[c].job, r.stale = h[c].stale, h[c].id => r.id
    PROVE  FInv'
<1>1. Received(c).own = db.own
  BY MessageOwn DEF PInv, Received
<1>2. db.own[c] \subseteq TopicsOf[c]
  BY DEF FInv, FClient, OwnTopics
<1> QED BY <1>1, <1>2, CalmCommit

LEMMA WaitFresh ==
    ASSUME PInv, FInv, NEW c \in Clients, NEW wait, At(c, "idle") \/ At(c, "no reply"), Wait(c, wait)
    PROVE  FInv'
<1>1. ClientTyped(h[c]) /\ Calm(h[c]) /\ LockFree(c)
  BY DEF PInv, ClientsTyped, Calm, At, Unrefreshed, Wait
<1>2. CASE h[c].id /\ Waiting(c)
  <2> DEFINE r == [h[c] EXCEPT !.pc = "idle"]
  <2>1. Commit(c, Received(c), r)
    BY <1>2 DEF Wait
  <2>2. Calm(r) /\ r.job = h[c].job /\ r.stale = h[c].stale /\ r.id = h[c].id
    BY <1>1 DEF ClientTyped, Calm, Unrefreshed
  <2> HIDE DEF r
  <2> QED BY <1>1, <2>1, <2>2, ReceivedInv
<1>3. CASE ~(h[c].id /\ Waiting(c))
  <2> DEFINE r == [h[c] EXCEPT !.id = TRUE, !.wait = wait, !.pc = "create"]
  <2>1. h' = [h EXCEPT ![c] = r] /\ Keep(None, db)
    BY <1>3 DEF Wait
  <2>2. Calm(r) /\ r.job = h[c].job /\ r.stale = h[c].stale /\ r.id
    BY <1>1 DEF ClientTyped, Calm, Unrefreshed
  <2> HIDE DEF r
  <2> QED BY <1>1, <2>1, <2>2, LockTaken, CalmKeep
<1> QED BY <1>2, <1>3

LEMMA UnsubscribeFresh ==
    ASSUME PInv, FInv, NEW c \in Clients, NEW ts \in SUBSET Topic, NEW r,
           LockFree(c), Commit(c, Removed(db, c, ts), r),
           Calm(h[c]), Calm(r), r.job = h[c].job, r.stale = h[c].stale, h[c].id => r.id
    PROVE  FInv'
<1>1. FClient(c) /\ Sound(db)
  BY DEF PInv, FInv
<1>2. /\ \A q \in Clients \ {c} : Removed(db, c, ts).own[q] = db.own[q]
      /\ Removed(db, c, ts).own[c] = db.own[c] \ ts
  BY <1>1, RemovedOwn
<1>3. /\ Removed(db, c, ts).own[c] \subseteq TopicsOf[c]
      /\ Removed(db, c, ts).own[c] \subseteq db.own[c]
  BY <1>1, <1>2 DEF FClient, OwnTopics
<1> QED BY <1>2, <1>3, CalmCommit

LEMMA CallFresh ==
    ASSUME PInv, FInv, NEW c \in Clients, Call(c)
    PROVE  FInv'
<1> USE DEF At
<1>0. ClientTyped(h[c]) /\ h = [q \in Clients |-> h[q]] /\ FClient(c) /\ Sound(db)
  BY DEF PInv, ClientsTyped, FInv
<1>1. ASSUME NEW kind \in {Channels, Patterns},
             NEW ts \in (SUBSET (kind \cap TopicsOf[c])) \ {{}}, Subscribe(c, ts)
      PROVE  FInv'
  <2> DEFINE r == [h[c] EXCEPT !.id = TRUE, !.pc = "count"]
             new == Added(db, c, ts)
  <2>1. Commit(c, new, r) /\ LockFree(c) /\ Calm(h[c])
    BY <1>1 DEF Subscribe, Calm, Unrefreshed
  <2>2. Calm(r) /\ r.job = h[c].job /\ r.stale = h[c].stale /\ r.id
    BY <1>0 DEF ClientTyped, Calm, Unrefreshed
  <2>3. ts \in SUBSET Topic
    BY <1>1 DEF Topic
  <2>4. /\ \A q \in Clients \ {c} : new.own[q] = db.own[q]
        /\ new.own[c] = db.own[c] \cup ts
    BY <1>0, <2>3, AddedOwn
  <2> HIDE DEF new, r
  <2>5. new.own[c] \subseteq TopicsOf[c]
    BY <1>0, <1>1, <2>4 DEF FClient, OwnTopics
  <2> QED BY <2>1, <2>2, <2>4, <2>5, CalmCommit
<1>2. ASSUME NEW pc, pc = "no reply" \/ pc = "count", At(c, "idle")
      PROVE  LET r == [h[c] EXCEPT !.pc = pc]
             IN Calm(h[c]) /\ Calm(r) /\ r.job = h[c].job /\ r.stale = h[c].stale /\ r.id = h[c].id
  BY <1>0, <1>2 DEF ClientTyped, Calm, Unrefreshed
<1>3. ASSUME NEW ts \in SUBSET Topic, Unsubscribe(c, ts) PROVE FInv'
  <2> DEFINE r == [h[c] EXCEPT !.pc = "count"]
  <2>1. At(c, "idle") /\ LockFree(c) /\ Commit(c, Removed(db, c, ts), r)
    BY <1>3 DEF Unsubscribe
  <2>2. Calm(h[c]) /\ Calm(r) /\ r.job = h[c].job /\ r.stale = h[c].stale /\ r.id = h[c].id
    BY <1>2, <2>1
  <2> HIDE DEF r
  <2> QED BY <2>1, <2>2, UnsubscribeFresh
<1>4. ASSUME NEW kind \in {Channels, Patterns}, UnsubscribeAll(c, kind) PROVE FInv'
  <2> DEFINE ts == {t \in kind : db.subs[t] # {}}
             pc == IF ts = {} THEN "no reply" ELSE "count"
             r == [h[c] EXCEPT !.pc = pc]
  <2>1. At(c, "idle") /\ LockFree(c) /\ Commit(c, Removed(db, c, ts), r)
    BY <1>4 DEF UnsubscribeAll
  <2>2. ts \in SUBSET Topic
    BY <1>4 DEF Topic
  <2>3. pc = "no reply" \/ pc = "count"
    OBVIOUS
  <2> HIDE DEF pc, ts
  <2>4. Calm(h[c]) /\ Calm(r) /\ r.job = h[c].job /\ r.stale = h[c].stale /\ r.id = h[c].id
    BY <1>2, <2>1, <2>3
  <2> HIDE DEF r
  <2> QED BY <2>1, <2>2, <2>4, UnsubscribeFresh
<1>5. ASSUME Poll(c) PROVE FInv'
  <2>1. Calm(h[c]) /\ LockFree(c) /\ Commit(c, Received(c), h[c])
    BY <1>5 DEF Poll, Calm, Unrefreshed
  <2> QED BY <2>1, ReceivedInv
<1>6. ASSUME NEW wait, PollWait(c, wait) PROVE FInv'
  <2>1. Wait(c, wait) /\ At(c, "idle")
    BY <1>6 DEF PollWait
  <2> QED BY <2>1, WaitFresh
<1>7. ASSUME c \in Publishers, NEW chan \in Channels, Publish(c, chan) PROVE FInv'
  <2> DEFINE job == [chan |-> chan, data |-> sent', topic |-> chan,
                     left |-> db.subs[chan], db |-> "messages", last |-> FALSE,
                     torn |-> FALSE]
             r == [h[c] EXCEPT !.pc = "publish", !.job = job]
  <2>1. h' = [h EXCEPT ![c] = r] /\ Keep(c, db) /\ At(c, "idle") /\ LockFree(c)
    BY <1>0, <1>7 DEF Publish
  <2>2. /\ Leaves(c) /\ h'[c] = r /\ lock' = c /\ db' = db /\ blind' = blind
    BY <2>1, LockTaken, KeepLeaves
  <2>3. JobTyped(job) /\ job # NoJob /\ job.left = db.subs[chan]
    <3>1. JobTyped(job)
      BY DEF JobTyped, JobFields
    <3>2. "data" \in DOMAIN job /\ "data" \notin DOMAIN NoJob
      BY DEF NoJob
    <3> QED BY <3>1, <3>2
  <2>4. r.pc = "publish" /\ r.job = job /\ r.stale = h[c].stale /\ r.id = h[c].id
    BY <1>0 DEF ClientTyped
  <2>5. ~h[c].stale
    BY <1>0, <2>1 DEF FClient, StaleExcused, Unrefreshed
  <2>6. \A m \in job.left : m \in Clients /\ db.own[m] # {}
    BY <1>0, <2>3 DEF Sound, DbTyped, Agree, Topic
  <2> HIDE DEF job, r
  <2>7. OwnTopics(c)'
    BY <1>0, <2>1, <2>2, <2>4 DEF FClient, OwnTopics
  <2>8. ClosesOwn(c)' /\ StaleExcused(c)'
    BY <2>2, <2>4, <2>5 DEF ClosesOwn, Closing, StaleExcused, Unrefreshed
  <2>9. Serves(c)'
    BY <1>7, <2>2, <2>3, <2>4, <2>6 DEF Serves, Unrefreshed
  <2> QED BY <2>1, <2>2, <2>7, <2>8, <2>9, LeavesInv DEF FClient
<1>8. ASSUME Close(c) PROVE FInv'
  <2> DEFINE r == [h[c] EXCEPT !.pc = "unsubscribe channels", !.whom = c]
  <2>1. h' = [h EXCEPT ![c] = r] /\ Keep(c, db) /\ At(c, "idle") /\ LockFree(c) /\ h[c].id
    BY <1>0, <1>8 DEF Close
  <2>2. /\ Leaves(c) /\ h'[c] = r /\ lock' = c /\ db' = db /\ blind' = blind
    BY <2>1, LockTaken, KeepLeaves
  <2>3. /\ r.pc = "unsubscribe channels" /\ r.whom = c /\ r.job = h[c].job
        /\ r.stale = h[c].stale /\ r.id = h[c].id
    BY <1>0 DEF ClientTyped
  <2>4. ~h[c].stale /\ h[c].job = NoJob
    BY <1>0, <2>1 DEF FClient, StaleExcused, Serves, Unrefreshed
  <2> HIDE DEF r
  <2>5. OwnTopics(c)'
    BY <1>0, <2>1, <2>2, <2>3 DEF FClient, OwnTopics
  <2>6. ClosesOwn(c)' /\ StaleExcused(c)' /\ Serves(c)'
    BY <2>1, <2>2, <2>3, <2>4 DEF ClosesOwn, Closing, StaleExcused, Serves, Unrefreshed, JobTyped
  <2> QED BY <2>1, <2>2, <2>5, <2>6, LeavesInv DEF FClient
<1>9. \A kind \in {Channels, Patterns} :
         \A ts \in (SUBSET (kind \cap TopicsOf[c])) \ {{}} : ts \in SUBSET Topic
  BY DEF Topic
<1> QED BY <1>1, <1>3, <1>4, <1>5, <1>6, <1>7, <1>8, <1>9 DEF Call

-----------------------------------------------------------------------------
(* A publication stays one while its members, its topic or its state are   *)
(* changed: there is always a field that no job would have.                *)
LEMMA JobStays ==
    ASSUME NEW j, j = [f \in JobFields |-> j[f]], NEW chan \in Channels, j.chan = chan
    PROVE  JobTyped(j) /\ j # NoJob
<1>1. "data" \in DOMAIN j /\ "data" \notin DOMAIN NoJob
  BY DEF JobFields, NoJob
<1> QED BY <1>1 DEF JobTyped

LEMMA JobFacts ==
    ASSUME NEW c, Serves(c), h[c].job # NoJob
    PROVE  /\ h[c].job = [f \in JobFields |-> h[c].job[f]]
           /\ h[c].job.chan \in Channels
BY DEF Serves, JobTyped

(* A publication that has met a dead subscriber may go on in any way.      *)
LEMMA DeadWork ==
    ASSUME FInv, NEW c \in Clients, h[c].job # NoJob, Dead, Leaves(c),
           h'[c].pc \in Unrefreshed, JobTyped(h'[c].job), h'[c].job # NoJob,
           h'[c].id = h[c].id, db'.own[c] \subseteq db.own[c],
           blind' = blind \/ (blind' = blind \cup {c} /\ h[c].stale)
    PROVE  FInv'
<1>1. FClient(c)
  BY DEF FInv
<1>2. c \in Publishers /\ ~At(c, "gone")
  BY <1>1 DEF FClient, Serves, At, Unrefreshed
<1>3. Dead'
  BY <1>2, DeadStays
<1>4. OwnTopics(c)'
  BY <1>1, <1>2 DEF FClient, OwnTopics, At
<1>5. ClosesOwn(c)'
  BY DEF ClosesOwn, Closing, At, Unrefreshed
<1>6. Serves(c)'
  BY <1>2, <1>3 DEF Serves
<1>7. StaleExcused(c)'
  BY <1>3 DEF StaleExcused, Excused
<1>8. Fault(c)
  BY <1>2 DEF Fault
<1> QED BY <1>2, <1>4, <1>5, <1>6, <1>7, <1>8, LeavesInv DEF FClient

(* Before that it holds the lock, and nobody can change the file.          *)
LEMMA SendFresh ==
    ASSUME PInv, FInv, NEW c \in Clients, NEW m \in Clients, Send(c, m)
    PROVE  FInv'
<1> USE DEF At
<1> DEFINE s == Signalled(m)
<1>1. /\ h = [q \in Clients |-> h[q]] /\ \A q \in Clients : ClientTyped(h[q])
      /\ FClient(c) /\ Sound(View(c))
  BY ViewIn DEF PInv, ClientsTyped, FInv
<1>2. At(c, "publish") /\ LockFree(c)
  BY DEF Send
<1>3. h[c].job # NoJob /\ c \in Publishers
  BY <1>1, <1>2 DEF FClient, Serves
<1>4. PICK x : Keep(c, [View(c) EXCEPT !.messages[m] = x]) \/ Keep(c, [View(c) EXCEPT !.user[m] = x])
  <2>1. CASE h[c].job.db = "messages"
    BY <2>1 DEF Send
  <2>2. CASE h[c].job.db # "messages"
    BY <2>2 DEF Send
  <2> QED BY <2>1, <2>2
<1>5. /\ db' = db /\ blind' = blind /\ lock' = c
      /\ work'.subs = db.subs /\ work'.own = db.own
  <2>1. c # None
    BY NoneAssumption
  <2>2. /\ db' = db /\ blind' = blind /\ lock' = c
        /\ work' = [View(c) EXCEPT !.messages[m] = x] \/ work' = [View(c) EXCEPT !.user[m] = x]
    BY <1>4, <2>1 DEF Keep
  <2>3. /\ [View(c) EXCEPT !.messages[m] = x].own = View(c).own
        /\ [View(c) EXCEPT !.messages[m] = x].subs = View(c).subs
        /\ [View(c) EXCEPT !.user[m] = x].own = View(c).own
        /\ [View(c) EXCEPT !.user[m] = x].subs = View(c).subs
    BY <1>1, MessageOwn
  <2>4. View(c).subs = db.subs /\ View(c).own = db.own
    BY ViewSame
  <2>5. CASE work' = [View(c) EXCEPT !.messages[m] = x]
    BY <2>2, <2>3, <2>4, <2>5
  <2>6. CASE work' = [View(c) EXCEPT !.user[m] = x]
    BY <2>2, <2>3, <2>4, <2>6
  <2> QED BY <2>2, <2>5, <2>6
<1>6. /\ s = [q \in Clients |-> s[q]]
      /\ \A q \in Clients \ {m} : s[q] = h[q]
      /\ s[m] = IF h[m].pc = "asleep" THEN [h[m] EXCEPT !.pc = "woken"]
                ELSE IF h[m].pc = "create" THEN [h[m] EXCEPT !.missed = TRUE]
                ELSE h[m]
  BY <1>1 DEF Signalled
<1>7. s[c] = h[c]
  BY <1>2, <1>6
<1>8. PICK left : h' = [s EXCEPT ![c].job.left = left] /\ left \subseteq h[c].job.left
  <2>1. h' = [s EXCEPT ![c].job.left = s[c].job.left \ {m}]
    BY DEF Send
  <2> QED BY <1>7, <2>1
<1> HIDE DEF s
<1>9. /\ \A q \in Clients \ {c} : h'[q] = s[q]
      /\ h'[c] = [h[c] EXCEPT !.job.left = left]
  BY <1>6, <1>7, <1>8
<1>10. Leaves(c)
  <2>1. ASSUME NEW q \in Clients \ {c} PROVE Alike(q, c)
    <3>1. ClientTyped(h[q])
      BY <1>1
    <3>2. \/ h'[q] = h[q]
          \/ h'[q] = [h[q] EXCEPT !.pc = "woken"] /\ h[q].pc = "asleep"
          \/ h'[q] = [h[q] EXCEPT !.missed = TRUE]
      BY <1>6, <1>9
    <3>3. lock # q
      BY <1>2, LockTaken
    <3> QED BY <1>5, <3>1, <3>2, <3>3 DEF Alike, ClientTyped
  <2> QED BY <1>5, <2>1 DEF Leaves
<1>11. /\ h'[c].pc = "publish" /\ h'[c].id = h[c].id /\ h'[c].stale = h[c].stale
       /\ h'[c].job = [h[c].job EXCEPT !.left = left]
  <2>1. ClientTyped(h[c])
    BY <1>1
  <2> QED BY <1>2, <1>9, <2>1 DEF ClientTyped
<1>12. /\ h[c].job = [f \in JobFields |-> h[c].job[f]]
       /\ h[c].job.chan \in Channels
  BY <1>1, <1>3, JobFacts DEF FClient
<1>13. /\ h'[c].job = [f \in JobFields |-> h'[c].job[f]]
       /\ h'[c].job.chan = h[c].job.chan /\ h'[c].job.left = left
  BY <1>11, <1>12 DEF JobFields
<1>14. JobTyped(h'[c].job) /\ h'[c].job # NoJob
  BY <1>12, <1>13, JobStays
<1>15. CASE Dead
  BY <1>3, <1>5, <1>10, <1>11, <1>14, <1>15, DeadWork DEF Unrefreshed
<1>16. CASE ~Dead
  <2>1. ~h[c].stale
    BY <1>1, <1>2, <1>3, <1>16 DEF FClient, StaleExcused, Excused, Unrefreshed
  <2>2. \A q \in h[c].job.left : q \in Clients /\ db.own[q] # {}
    BY <1>1, <1>3, <1>16 DEF FClient, Serves
  <2>3. OwnTopics(c)'
    BY <1>1, <1>2, <1>5, <1>11 DEF FClient, OwnTopics
  <2>4. ClosesOwn(c)' /\ StaleExcused(c)'
    BY <1>5, <1>11, <2>1 DEF ClosesOwn, Closing, StaleExcused, Unrefreshed
  <2>5. Serves(c)'
    BY <1>3, <1>5, <1>8, <1>11, <1>13, <1>14, <2>2 DEF Serves, Unrefreshed
  <2> QED BY <1>2, <1>5, <1>10, <2>3, <2>4, <2>5, LeavesInv DEF FClient
<1> QED BY <1>15, <1>16

(* One kind of the subscriptions of whom is given up.                      *)
LEMMA UnsubscribeTypeLeaves ==
    ASSUME PInv, FInv, NEW c \in Clients, NEW kind \in {Channels, Patterns}, NEW next,
           ClientTyped(next), UnsubscribeType(c, kind, next)
    PROVE  LET ts == db.own[h[c].whom] \cap kind
           IN /\ Leaves(c) /\ LockFree(c)
              /\ blind' = blind \/ (blind' = blind \cup {c} /\ h[c].stale /\ ts # {})
              /\ h'[c].pc = next.pc /\ h'[c].id = next.id /\ h'[c].whom = next.whom
              /\ h'[c].job = next.job
                    \/ (next.job # NoJob /\ h'[c].job = [next.job EXCEPT !.torn = TRUE])
              /\ \/ /\ h[c].id /\ ts # {} /\ lock' = None /\ ~h'[c].stale
                    /\ db'.own[c] = db.own[c] \ ts
                 \/ /\ ~h[c].id \/ ts = {}
                    /\ lock' = c /\ h'[c].stale = next.stale
                    /\ db' = db
<1> DEFINE ts == db.own[h[c].whom] \cap kind
           done == [next EXCEPT !.stale = FALSE]
           r == IF next.job = NoJob THEN done ELSE [done EXCEPT !.job.torn = TRUE]
           new == Removed(View(c), c, ts)
<1>1. View(c).subs = db.subs /\ View(c).own = db.own /\ Sound(View(c)) /\ LockFree(c)
  BY ViewSame, ViewIn DEF PInv, UnsubscribeType
<1>2. CASE h[c].id /\ ts # {}
  <2>1. Commit(c, new, r)
    BY <1>1, <1>2 DEF UnsubscribeType
  <2>2. /\ r.pc = next.pc /\ r.id = next.id /\ r.whom = next.whom /\ ~r.stale
        /\ \/ r.job = next.job
           \/ (next.job # NoJob /\ r.job = [next.job EXCEPT !.torn = TRUE])
    BY DEF ClientTyped
  <2>3. ts \in SUBSET Topic
    BY DEF Topic
  <2> HIDE DEF ts, r
  <2>4. /\ new.own[c] = db.own[c] \ ts
        /\ \A q \in Clients \ {c} : new.own[q] = db.own[q]
    BY <1>1, <2>3, RemovedOwn
  <2> HIDE DEF new
  <2>5. /\ Leaves(c) /\ h'[c] = r /\ lock' = None /\ db' = new
        /\ blind' = blind \/ (blind' = blind \cup {c} /\ h[c].stale)
    BY <1>1, <2>1, <2>4, CommitLeaves
  <2> HIDE DEF Leaves
  <2> QED BY <1>1, <1>2, <2>2, <2>4, <2>5 DEF ts
<1>3. CASE ~(h[c].id /\ ts # {})
  <2>1. h' = [h EXCEPT ![c] = next] /\ Keep(c, View(c))
    BY <1>1, <1>3 DEF UnsubscribeType
  <2>2. /\ Leaves(c) /\ h'[c] = next /\ lock' = c /\ db' = db /\ blind' = blind
    BY <1>1, <2>1, LockTaken, KeepLeaves
  <2> HIDE DEF Leaves
  <2> QED BY <1>1, <1>3, <2>2
<1> QED BY <1>2, <1>3

LEMMA UnsubscribeStepFresh ==
    ASSUME PInv, FInv, NEW c \in Clients, UnsubscribeChannels(c) \/ UnsubscribePatterns(c)
    PROVE  FInv'
<1> USE DEF At
<1>1. ClientTyped(h[c]) /\ FClient(c) /\ ~At(c, "gone") /\ h[c].pc \in Unrefreshed
  BY DEF PInv, ClientsTyped, FInv, UnsubscribeChannels, UnsubscribePatterns, Unrefreshed
<1>2. CASE h[c].job # NoJob
  <2> DEFINE next == IF UnsubscribeChannels(c) THEN [h[c] EXCEPT !.pc = "unsubscribe patterns"]
                     ELSE [h[c] EXCEPT !.pc = "publish", !.whom = None, !.job.db = "user"]
  <2>1. \E kind \in {Channels, Patterns} : UnsubscribeType(c, kind, next)
    BY <1>2 DEF UnsubscribeChannels, UnsubscribePatterns
  <2>2. ClientTyped(next) /\ next.pc \in Unrefreshed /\ next.id = h[c].id
    BY <1>1 DEF ClientTyped, Unrefreshed
  <2>3. next.job = h[c].job \/ next.job = [h[c].job EXCEPT !.db = "user"]
    BY <1>1 DEF ClientTyped
  <2> HIDE DEF next
  <2>4. /\ h[c].job = [f \in JobFields |-> h[c].job[f]]
        /\ h[c].job.chan \in Channels
    BY <1>1, <1>2, JobFacts DEF FClient
  <2>5. /\ next.job = [f \in JobFields |-> next.job[f]]
        /\ next.job.chan = h[c].job.chan
    BY <2>3, <2>4 DEF JobFields
  <2>6. /\ Leaves(c) /\ h'[c].pc = next.pc /\ h'[c].id = next.id
        /\ h'[c].job = next.job \/ h'[c].job = [next.job EXCEPT !.torn = TRUE]
        /\ blind' = blind \/ (blind' = blind \cup {c} /\ h[c].stale)
        /\ db'.own[c] \subseteq db.own[c]
    BY <2>1, <2>2, UnsubscribeTypeLeaves
  <2>7. /\ h'[c].job = [f \in JobFields |-> h'[c].job[f]]
        /\ h'[c].job.chan = h[c].job.chan
    BY <2>5, <2>6 DEF JobFields
  <2>8. JobTyped(h'[c].job) /\ h'[c].job # NoJob
    BY <2>4, <2>7, JobStays
  <2>9. Dead
    BY <1>1, <1>2 DEF FClient, Serves, UnsubscribeChannels, UnsubscribePatterns
  <2> HIDE DEF Leaves
  <2> QED BY <1>2, <2>2, <2>6, <2>8, <2>9, DeadWork
<1>3. CASE h[c].job = NoJob /\ UnsubscribeChannels(c)
  <2> DEFINE next == [h[c] EXCEPT !.pc = "unsubscribe patterns"]
  <2>1. UnsubscribeType(c, Channels, next) /\ At(c, "unsubscribe channels")
    BY <1>3 DEF UnsubscribeChannels
  <2>2. /\ ClientTyped(next) /\ next.pc = "unsubscribe patterns"
        /\ next.id = h[c].id /\ next.whom = h[c].whom
        /\ next.job = NoJob /\ next.stale = h[c].stale
    BY <1>1, <1>3 DEF ClientTyped
  <2> HIDE DEF next
  <2>3. h[c].whom = c /\ h[c].id /\ ~h[c].stale
    BY <1>1, <1>3, <2>1 DEF FClient, ClosesOwn, Closing, StaleExcused, Excused
  <2>4. /\ Leaves(c) /\ blind' = blind
        /\ h'[c].pc = "unsubscribe patterns" /\ h'[c].id /\ h'[c].whom = c
        /\ h'[c].job = NoJob /\ ~h'[c].stale
        /\ \/ /\ db.own[c] \cap Channels # {}
              /\ db'.own[c] = db.own[c] \ (db.own[c] \cap Channels)
           \/ /\ db.own[c] \cap Channels = {} /\ lock' = c
              /\ db' = db
    BY <2>1, <2>2, <2>3, UnsubscribeTypeLeaves
  <2> HIDE DEF Leaves
  <2>5. OwnTopics(c)'
    BY <1>1, <2>4 DEF FClient, OwnTopics
  <2>6. ClosesOwn(c)' /\ Serves(c)'
    BY <2>4 DEF ClosesOwn, Closing, Serves, JobTyped
  <2>7. StaleExcused(c)'
    BY <1>1, <2>4 DEF FClient, OwnTopics, StaleExcused, Excused, Unrefreshed
  <2> QED BY <1>1, <2>4, <2>5, <2>6, <2>7, LeavesInv DEF FClient
<1>4. CASE h[c].job = NoJob /\ UnsubscribePatterns(c)
  <2> DEFINE next == [h[c] EXCEPT !.pc = "closing"]
  <2>1. UnsubscribeType(c, Patterns, next) /\ At(c, "unsubscribe patterns")
    BY <1>4 DEF UnsubscribePatterns
  <2>2. /\ ClientTyped(next) /\ next.pc = "closing"
        /\ next.id = h[c].id /\ next.whom = h[c].whom
        /\ next.job = NoJob /\ next.stale = h[c].stale
    BY <1>1, <1>4 DEF ClientTyped
  <2> HIDE DEF next
  <2>3. h[c].whom = c /\ h[c].id /\ db.own[c] \cap Channels = {} /\ db.own[c] \subseteq Topic
    BY <1>1, <1>4, <2>1 DEF FClient, ClosesOwn, Closing, PInv, Sound, DbTyped
  <2>4. /\ Leaves(c)
        /\ \/ blind' = blind
           \/ blind' = blind \cup {c} /\ h[c].stale /\ db.own[c] \cap Patterns # {}
        /\ h'[c].pc = "closing" /\ h'[c].job = NoJob
        /\ \/ db'.own[c] = db.own[c] \ (db.own[c] \cap Patterns)
           \/ db.own[c] \cap Patterns = {} /\ db' = db
    BY <2>1, <2>2, <2>3, UnsubscribeTypeLeaves
  <2> HIDE DEF Leaves
  <2>5. db'.own[c] = {}
    BY <2>3, <2>4 DEF Topic
  <2>6. OwnTopics(c)' /\ ClosesOwn(c)' /\ Serves(c)' /\ StaleExcused(c)'
    BY <2>4, <2>5 DEF OwnTopics, ClosesOwn, Closing, Serves, JobTyped, StaleExcused, Unrefreshed
  <2>7. h[c].stale /\ db.own[c] \cap Patterns # {} => Fault(c)
    BY <1>1, <1>4 DEF FClient, OwnTopics, StaleExcused, Excused, Fault
  <2> QED BY <1>1, <2>4, <2>6, <2>7, LeavesInv DEF FClient
<1> QED BY <1>2, <1>3, <1>4

(* A client that is gone has nothing left, unless it died. *)
LEMMA GoneFresh ==
    ASSUME PInv, FInv, NEW c \in Clients, ~At(c, "gone"), c \in Mortal \/ db.own[c] = {},
           h' = [h EXCEPT ![c] = Gone], Keep(IF lock = c THEN None ELSE lock, work)
    PROVE  FInv'
<1>1. work.subs = db.subs /\ work.own = db.own /\ FClient(c)
  BY DEF FInv
<1>2. Leaves(c) /\ h'[c] = Gone /\ db' = db /\ blind' = blind
  BY <1>1, KeepLeaves
<1>3. Gone.pc = "gone" /\ Gone.job = NoJob /\ ~Gone.stale
  BY DEF Gone, Fresh
<1> HIDE DEF Leaves
<1>4. OwnTopics(c)' /\ ClosesOwn(c)' /\ Serves(c)' /\ StaleExcused(c)'
  BY <1>1, <1>2, <1>3 DEF FClient, OwnTopics, ClosesOwn, Closing, Serves, JobTyped,
     StaleExcused, At, Unrefreshed
<1> QED BY <1>2, <1>4, LeavesInv DEF FClient

LEMMA StepFresh ==
    ASSUME PInv, FInv, NEW c \in Clients, Step(c)
    PROVE  FInv'
<1> USE DEF At
<1>0. ClientTyped(h[c]) /\ h = [q \in Clients |-> h[q]] /\ FClient(c) /\ Sound(db)
  BY DEF PInv, ClientsTyped, FInv
<1>v. View(c).subs = db.subs /\ View(c).own = db.own /\ Sound(View(c))
  BY ViewSame, ViewIn DEF PInv
<1>1. ASSUME NEW pc, pc = "idle" \/ pc = "asleep" \/ pc = "woken", Calm(h[c])
      PROVE  LET r == [h[c] EXCEPT !.pc = pc]
             IN Calm(r) /\ r.job = h[c].job /\ r.stale = h[c].stale /\ r.id = h[c].id
  BY <1>0, <1>1 DEF ClientTyped, Calm, Unrefreshed
<1>2. ASSUME Count(c) PROVE FInv'
  <2> DEFINE r == [h[c] EXCEPT !.pc = "idle"]
  <2>1. /\ h' = [h EXCEPT ![c] = r] /\ Keep(None, db) /\ LockFree(c)
        /\ Calm(h[c])
    BY <1>0, <1>2 DEF Count, Calm, Unrefreshed
  <2>2. Calm(r) /\ r.job = h[c].job /\ r.stale = h[c].stale /\ r.id = h[c].id
    BY <1>1, <2>1
  <2> HIDE DEF r
  <2> QED BY <2>1, <2>2, LockTaken, CalmKeep
<1>3. ASSUME NoReply(c) PROVE FInv'
  <2>1. Wait(c, "reply") /\ At(c, "no reply")
    BY <1>3 DEF NoReply
  <2> QED BY <2>1, WaitFresh
<1>4. ASSUME OpenSignal(c) PROVE FInv'
  <2> DEFINE r == [h[c] EXCEPT !.pc = "asleep"]
  <2>1. /\ h' = [h EXCEPT ![c] = r] /\ UNCHANGED <<db, work, lock, blind>>
        /\ Calm(h[c])
    BY <1>0, <1>4 DEF OpenSignal, Calm, Unrefreshed
  <2>2. Calm(r) /\ r.job = h[c].job /\ r.stale = h[c].stale /\ r.id = h[c].id
    BY <1>1, <2>1
  <2> HIDE DEF r
  <2> QED BY <2>1, <2>2, CalmStill
<1>5. ASSUME Timeout(c) PROVE FInv'
  <2> DEFINE r == [h[c] EXCEPT !.pc = "woken"]
  <2>1. /\ h' = [h EXCEPT ![c] = r] /\ UNCHANGED <<db, work, lock, blind>>
        /\ Calm(h[c])
    BY <1>0, <1>5 DEF Timeout, Calm, Unrefreshed
  <2>2. Calm(r) /\ r.job = h[c].job /\ r.stale = h[c].stale /\ r.id = h[c].id
    BY <1>1, <2>1
  <2> HIDE DEF r
  <2> QED BY <2>1, <2>2, CalmStill
<1>6. ASSUME PollAgain(c) PROVE FInv'
  <2> DEFINE r == [h[c] EXCEPT !.pc = "idle", !.wait = "none", !.missed = FALSE]
  <2>1. /\ LockFree(c) /\ Calm(h[c])
        /\ \/ Commit(c, Received(c), r)
           \/ \E holder : /\ h' = [h EXCEPT ![c] = r] /\ Keep(holder, db)
    BY <1>6 DEF PollAgain, Calm, Unrefreshed
  <2>2. Calm(r) /\ r.job = h[c].job /\ r.stale = h[c].stale /\ r.id = h[c].id
    BY <1>0 DEF ClientTyped, Calm, Unrefreshed
  <2> HIDE DEF r
  <2>3. ASSUME Commit(c, Received(c), r) PROVE FInv'
    BY <2>1, <2>2, <2>3, ReceivedInv
  <2>4. ASSUME NEW holder, h' = [h EXCEPT ![c] = r], Keep(holder, db) PROVE FInv'
    BY <2>1, <2>2, <2>4, LockTaken, CalmKeep
  <2> QED BY <2>1, <2>3, <2>4
<1>7. ASSUME NextCall(c) PROVE FInv'
  <2>1. /\ h' = [h EXCEPT ![c] = h[c]] /\ Keep(None, db) /\ Calm(h[c]) /\ LockFree(c)
    BY <1>0, <1>7 DEF NextCall, Calm, Unrefreshed, LockFree
  <2> QED BY <2>1, LockTaken, CalmKeep
<1>8. ASSUME NEW m \in Clients, CleanUp(c, m) PROVE FInv'
  <2> DEFINE job == [h[c].job EXCEPT !.left = @ \ {m}]
             r == [h[c] EXCEPT !.pc = "unsubscribe channels", !.whom = m, !.job = job]
  <2>1. /\ h' = [h EXCEPT ![c] = r] /\ Keep(c, View(c)) /\ LockFree(c)
        /\ At(c, "publish") /\ m \in h[c].job.left /\ ~h[m].id
    BY <1>0, <1>8 DEF CleanUp, Alive
  <2>2. r.pc = "unsubscribe channels" /\ r.id = h[c].id /\ r.job = job
    BY <1>0 DEF ClientTyped
  <2>3. h[c].job # NoJob
    BY <1>0, <2>1 DEF FClient, Serves
  <2>4. /\ h[c].job = [f \in JobFields |-> h[c].job[f]]
        /\ h[c].job.chan \in Channels
    BY <1>0, <2>3, JobFacts DEF FClient
  <2>5. job = [f \in JobFields |-> job[f]] /\ job.chan = h[c].job.chan
    BY <2>4 DEF JobFields
  <2> HIDE DEF r, job
  <2>6. JobTyped(job) /\ job # NoJob
    BY <2>4, <2>5, JobStays
  <2>7. Leaves(c) /\ h'[c] = r /\ db' = db /\ blind' = blind
    BY <1>v, <2>1, LockTaken, KeepLeaves
  <2>8. Dead
    <3>1. Dead \/ db.own[m] # {}
      BY <1>0, <2>1, <2>3 DEF FClient, Serves
    <3>2. OwnTopics(m)
      BY DEF FInv, FClient
    <3> QED BY <2>1, <3>1, <3>2 DEF OwnTopics, Dead
  <2> HIDE DEF Leaves
  <2> QED BY <2>2, <2>3, <2>6, <2>7, <2>8, DeadWork DEF Unrefreshed
<1>9. ASSUME NextTopic(c) PROVE FInv'
  <2>1. PICK t \in Matching[h[c].job.chan] :
             /\ View(c).subs[t] # {}
             /\ h' = [h EXCEPT ![c].job = [@ EXCEPT !.topic = t, !.left = View(c).subs[t],
                                                    !.db = "messages", !.last = TRUE]]
    BY <1>9 DEF NextTopic
  <2> DEFINE job == [h[c].job EXCEPT !.topic = t, !.left = View(c).subs[t],
                                     !.db = "messages", !.last = TRUE]
             r == [h[c] EXCEPT !.job = job]
  <2>2. h' = [h EXCEPT ![c] = r] /\ Keep(c, View(c)) /\ LockFree(c) /\ At(c, "publish")
    BY <1>0, <1>9, <2>1 DEF NextTopic
  <2>3. /\ r.pc = "publish" /\ r.id = h[c].id /\ r.stale = h[c].stale /\ r.job = job
    BY <1>0, <2>2 DEF ClientTyped
  <2>4. h[c].job # NoJob /\ c \in Publishers
    BY <1>0, <2>2 DEF FClient, Serves
  <2>5. /\ h[c].job = [f \in JobFields |-> h[c].job[f]]
        /\ h[c].job.chan \in Channels
    BY <1>0, <2>4, JobFacts DEF FClient
  <2>6. /\ job = [f \in JobFields |-> job[f]] /\ job.chan = h[c].job.chan
        /\ job.left = db.subs[t]
    BY <1>v, <2>5 DEF JobFields
  <2> HIDE DEF r, job
  <2>7. JobTyped(job) /\ job # NoJob
    BY <2>5, <2>6, JobStays
  <2>8. Leaves(c) /\ h'[c] = r /\ lock' = c /\ db' = db /\ blind' = blind
    BY <1>v, <2>2, LockTaken, KeepLeaves
  <2> HIDE DEF Leaves
  <2>9. CASE Dead
    BY <2>3, <2>4, <2>7, <2>8, <2>9, DeadWork DEF Unrefreshed
  <2>10. CASE ~Dead
    <3>1. ~h[c].stale
      BY <1>0, <2>2, <2>4, <2>10 DEF FClient, StaleExcused, Excused, Unrefreshed
    <3>2. t \in Topic
      BY <2>1, <2>5, MatchingAssumption DEF Topic
    <3>3. \A q \in job.left : q \in Clients /\ db.own[q] # {}
      BY <1>0, <2>6, <3>2 DEF Sound, DbTyped, Agree
    <3>4. OwnTopics(c)'
      BY <1>0, <2>2, <2>3, <2>8 DEF FClient, OwnTopics
    <3>5. ClosesOwn(c)' /\ StaleExcused(c)'
      BY <2>3, <2>8, <3>1 DEF ClosesOwn, Closing, StaleExcused, Unrefreshed
    <3>6. Serves(c)'
      BY <2>3, <2>4, <2>7, <2>8, <3>3 DEF Serves, Unrefreshed
    <3> QED BY <2>2, <2>8, <3>4, <3>5, <3>6, LeavesInv DEF FClient
  <2> QED BY <2>9, <2>10
<1>10. ASSUME EndPublish(c) PROVE FInv'
  <2> DEFINE r == [h[c] EXCEPT !.pc = "idle", !.job = NoJob, !.stale = FALSE]
  <2>1. Commit(c, View(c), r) /\ LockFree(c) /\ At(c, "publish")
    BY <1>10 DEF EndPublish
  <2>2. r.pc = "idle" /\ r.job = NoJob /\ ~r.stale /\ r.id = h[c].id
    BY <1>0 DEF ClientTyped
  <2> HIDE DEF r
  <2>3. /\ Leaves(c) /\ h'[c] = r /\ db' = View(c)
        /\ blind' = blind \/ (blind' = blind \cup {c} /\ h[c].stale)
    BY <1>v, <2>1, CommitLeaves
  <2> HIDE DEF Leaves
  <2>4. h[c].stale => Fault(c)
    BY <1>0, <2>1 DEF FClient, Serves, StaleExcused, Excused, Unrefreshed, Fault
  <2>5. OwnTopics(c)'
    BY <1>0, <1>v, <2>1, <2>2, <2>3 DEF FClient, OwnTopics
  <2>6. ClosesOwn(c)' /\ Serves(c)' /\ StaleExcused(c)'
    BY <2>2, <2>3 DEF ClosesOwn, Closing, Serves, JobTyped, StaleExcused, Unrefreshed
  <2> QED BY <2>1, <2>3, <2>4, <2>5, <2>6, LeavesInv DEF FClient
<1>11. ASSUME EndClose(c) PROVE FInv'
  <2>1. db.own[c] = {} /\ ~At(c, "gone")
    BY <1>0, <1>11 DEF EndClose, FClient, ClosesOwn
  <2> QED BY <1>11, <2>1, GoneFresh DEF EndClose
<1> QED
  BY <1>2, <1>3, <1>4, <1>5, <1>6, <1>7, <1>8, <1>9, <1>10, <1>11, SendFresh,
     UnsubscribeStepFresh DEF Step

LEMMA InitFresh == Init => FInv
<1> SUFFICES ASSUME Init PROVE FInv
  OBVIOUS
<1>1. /\ db = EmptyDb /\ work = EmptyDb /\ blind = {} /\ lock = None
      /\ h = [c \in Clients |-> Fresh]
  BY DEF Init
<1>2. /\ \A c \in Clients : EmptyDb.own[c] = {}
      /\ Fresh.pc = "idle" /\ Fresh.job = NoJob /\ ~Fresh.stale
  BY DEF EmptyDb, Fresh
<1>3. \A c \in Clients : FClient(c)
  BY <1>1, <1>2 DEF FClient, OwnTopics, ClosesOwn, Closing, Serves, JobTyped, StaleExcused,
     Unrefreshed, At
<1> QED BY <1>1, <1>3 DEF FInv

LEMMA NextFresh == ASSUME PInv, FInv, [Next]_vars PROVE FInv'
<1>1. ASSUME NEW c \in Clients, Die(c) PROVE FInv'
  BY <1>1, GoneFresh DEF Die
<1>2. CASE Next
  BY <1>1, <1>2, CallFresh, StepFresh DEF Next
<1>3. CASE UNCHANGED vars
  <2>1. /\ db' = db /\ work' = work /\ lock' = lock /\ h' = h /\ blind' = blind
    BY <1>3 DEF vars
  <2>2. ASSUME NEW c \in Clients, FClient(c) PROVE FClient(c)'
    <3>1. OwnTopics(c)' /\ ClosesOwn(c)'
      BY <2>1, <2>2 DEF FClient, OwnTopics, ClosesOwn, Closing, At
    <3>2. Dead' = Dead
      BY <2>1 DEF Dead, At
    <3>3. Serves(c)' /\ StaleExcused(c)'
      BY <2>1, <2>2, <3>2 DEF FClient, Serves, StaleExcused, Excused, At
    <3> QED BY <3>1, <3>3 DEF FClient
  <2>3. \A c \in Clients : Fault(c) => Fault(c)'
    BY <2>1 DEF Fault, Dead, At
  <2> QED BY <2>1, <2>2, <2>3 DEF FInv
<1> QED BY <1>2, <1>3

LEMMA FreshInvariance == Spec => [](PInv /\ FInv)
<1>1. PInv /\ FInv /\ [Next]_vars => FInv'
  BY NextFresh
<1> QED BY <1>1, InitFresh, Invariance, PTL DEF Spec

(* Changes are committed with an old header only by a client that closes   *)
(* with channels and patterns to give up, which do_unsubscribe commits one *)
(* after the other, and by a publisher that has met a dead subscriber,     *)
(* whatever the other clients do in between.                               *)
THEOREM HeadersFresh == Spec => []FreshCommits
<1>1. FInv => FreshCommits
  BY DEF FInv, Fault, Dead, FreshCommits
<1> QED BY <1>1, FreshInvariance, PTL

-----------------------------------------------------------------------------
(***************************************************************************)
(* PubSub.tla delivers as Mailbox.tla promises, for any clients, channels  *)
(* and number of messages, with deaths, where no channel is matched by two *)
(* patterns and no publisher commits while it cleans up after a dead       *)
(* subscriber.  The first part is about lists of elements that are cut     *)
(* into messages, the second about how far a publication is, the third has *)
(* a lemma per action: it keeps DInv, and is a step of Mailbox or a        *)
(* stutter.                                                                *)
(***************************************************************************)

-----------------------------------------------------------------------------
(* A list of elements that is a sequence of messages: it is cut at s[0],   *)
(* s[1], ... into k of them.                                               *)
Element == {3, 4, message, pmessage} \cup Topic \cup Data
Cut(list, k, s) ==
    /\ list \in Seq(Element) /\ k \in Nat /\ s \in [0 .. k -> Nat]
    /\ s[0] = 1 /\ s[k] = Len(list) + 1
    /\ \A n \in 0 .. k : 1 <= s[n] /\ s[n] + 4 * (k - n) <= Len(list) + 1
    /\ \A n \in 1 .. k :
          /\ list[s[n - 1]] \in {3, 4}
          /\ s[n] = s[n - 1] + list[s[n - 1]] + 1

LEMMA StartsAre ==
    ASSUME NEW list, NEW k, NEW s, Cut(list, k, s)
    PROVE  LET most == Len(list) \div 4
           IN /\ most \in Nat /\ k <= most
              /\ Starts(list) = [n \in 0 .. most |-> IF n <= k THEN s[n] ELSE Len(list) + 1]
<1> DEFINE end == Len(list) + 1
           most == Len(list) \div 4
           next == [i \in 1 .. end |-> IF i = end THEN end ELSE i + list[i] + 1]
           Solves(g) == g = [n \in 0 .. most |-> IF n = 0 THEN 1 ELSE next[g[n - 1]]]
           f == [n \in 0 .. most |-> IF n <= k THEN s[n] ELSE end]
           start == CHOOSE g : Solves(g)
<1>1. /\ list \in Seq(Element) /\ k \in Nat /\ s \in [0 .. k -> Nat]
      /\ s[0] = 1 /\ s[k] = end
      /\ \A n \in 0 .. k : 1 <= s[n] /\ s[n] + 4 * (k - n) <= end
      /\ \A n \in 1 .. k :
            list[s[n - 1]] \in {3, 4} /\ s[n] = s[n - 1] + list[s[n - 1]] + 1
  BY DEF Cut
<1>2. Len(list) \in Nat /\ end \in Nat /\ most \in Nat /\ k <= most
  <2>1. Len(list) \in Nat
    BY <1>1
  <2>2. 4 * k <= Len(list)
    <3>1. 1 + 4 * (k - 0) <= end
      BY <1>1
    <3> QED BY <1>1, <2>1, <3>1
  <2> QED BY <1>1, <2>1, <2>2
<1>3. ASSUME NEW n \in 1 .. most PROVE f[n] = next[f[n - 1]]
  <2>1. n - 1 \in 0 .. most /\ n \in 0 .. most /\ n \in Nat
    BY <1>2
  <2>2. CASE n <= k
    <3>1. n \in 1 .. k /\ n - 1 \in 0 .. k /\ n \in 0 .. k
      BY <1>1, <2>1, <2>2
    <3>2. /\ s[n - 1] \in 1 .. end /\ s[n - 1] # end
      <4>1. s[n - 1] \in Nat /\ 1 <= s[n - 1] /\ s[n - 1] + 4 * (k - (n - 1)) <= end
        BY <1>1, <3>1
      <4>2. k - (n - 1) \in Nat /\ 1 <= k - (n - 1)
        BY <1>1, <2>1, <2>2
      <4>3. 4 <= 4 * (k - (n - 1)) /\ 4 * (k - (n - 1)) \in Nat
        BY <4>2
      <4> QED BY <1>2, <4>1, <4>3
    <3>3. next[s[n - 1]] = s[n]
      BY <1>1, <3>1, <3>2
    <3>4. f[n] = s[n] /\ f[n - 1] = s[n - 1]
      BY <1>1, <2>1, <2>2
    <3> QED BY <3>3, <3>4
  <2>3. CASE ~(n <= k)
    <3>1. f[n] = end
      BY <2>1, <2>3
    <3>2. f[n - 1] = end
      <4>1. CASE n - 1 = k
        BY <1>1, <2>1, <4>1
      <4>2. CASE n - 1 # k
        BY <1>1, <2>1, <2>3, <4>2
      <4> QED BY <4>1, <4>2
    <3>3. next[end] = end
      BY <1>2
    <3> QED BY <3>1, <3>2, <3>3
  <2> QED BY <2>2, <2>3
<1>4. f[0] = 1 /\ f = [n \in 0 .. most |-> f[n]]
  BY <1>1, <1>2
<1> HIDE DEF f
<1>5. Solves(f)
  <2> HIDE DEF next, most
  <2>1. ASSUME NEW n \in 0 .. most
        PROVE  f[n] = IF n = 0 THEN 1 ELSE next[f[n - 1]]
    <3>1. n = 0 \/ n \in 1 .. most
      BY <1>2
    <3> QED BY <1>3, <1>4, <3>1, Zenon
  <2> QED BY <1>4, <2>1, Zenon
<1>6. Solves(start)
  BY <1>5
<1>7. Starts(list) = start
  BY DEF Starts
<1>8. start[0] = 1 /\ \A n \in 1 .. most : start[n] = next[start[n - 1]]
  <2> HIDE DEF start, next, most
  <2> QED BY <1>2, <1>6
<1>9. start = [n \in 0 .. most |-> start[n]]
  <2> HIDE DEF start
  <2>1. DOMAIN start = 0 .. most
    BY <1>6
  <2> QED BY <1>6, <2>1
<1> HIDE DEF start, next
<1>10. \A n \in 0 .. most : start[n] = f[n]
  <2> DEFINE S == {n \in 0 .. most : start[n] = f[n]}
  <2>1. 0 \in S
    BY <1>2, <1>4, <1>8
  <2>2. \A n \in 1 .. most : n - 1 \in S => n \in S
    BY <1>2, <1>3, <1>8
  <2>3. 0 .. most \subseteq S
    <3> HIDE DEF S, most
    <3> QED BY <1>2, <2>1, <2>2, BoundedInduction
  <2> QED BY <2>3
<1>11. start = f
  BY <1>4, <1>9, <1>10
<1> QED BY <1>2, <1>7, <1>11 DEF f

LEMMA CutMessages ==
    ASSUME NEW list, NEW k, NEW s, Cut(list, k, s)
    PROVE  /\ list \in Seq(Element) /\ k \in Nat
           /\ Messages(list) = [n \in 1 .. k |-> MessageAt(list, s[n - 1])]
           /\ \A n \in 1 .. k : /\ s[n - 1] \in Nat /\ 1 <= s[n - 1]
                                /\ list[s[n - 1]] \in {3, 4}
                                /\ s[n - 1] + list[s[n - 1]] <= Len(list)
<1> DEFINE most == Len(list) \div 4
           start == [n \in 0 .. most |-> IF n <= k THEN s[n] ELSE Len(list) + 1]
           before == {n \in 0 .. most : start[n] <= Len(list)}
<1>1. /\ list \in Seq(Element) /\ k \in Nat /\ s \in [0 .. k -> Nat]
      /\ s[k] = Len(list) + 1
      /\ \A n \in 0 .. k : 1 <= s[n] /\ s[n] + 4 * (k - n) <= Len(list) + 1
      /\ \A n \in 1 .. k :
            list[s[n - 1]] \in {3, 4} /\ s[n] = s[n - 1] + list[s[n - 1]] + 1
  BY DEF Cut
<1>2. most \in Nat /\ k <= most /\ Starts(list) = start /\ Len(list) \in Nat
  BY <1>1, StartsAre
<1>3. \A n \in 0 .. k : n # k => s[n] <= Len(list)
  <2> SUFFICES ASSUME NEW n \in 0 .. k, n # k PROVE s[n] <= Len(list)
    OBVIOUS
  <2>1. s[n] \in Nat /\ s[n] + 4 * (k - n) <= Len(list) + 1
    BY <1>1
  <2>2. k - n \in Nat /\ 1 <= k - n
    BY <1>1
  <2>3. 4 <= 4 * (k - n) /\ 4 * (k - n) \in Nat
    BY <2>2
  <2> QED BY <1>2, <2>1, <2>3
<1> HIDE DEF most
<1>4. before = 0 .. k - 1
  <2>1. \A n \in 0 .. k : n # k => n \in 0 .. most /\ start[n] = s[n]
    BY <1>1, <1>2
  <2>2. \A n \in 0 .. k - 1 : n \in 0 .. k /\ n # k
    BY <1>1
  <2>3. \A n \in 0 .. k - 1 : n \in before
    BY <1>3, <2>1, <2>2
  <2>4. ASSUME NEW n \in 0 .. most, n \notin 0 .. k - 1 PROVE start[n] = Len(list) + 1
    BY <1>1, <1>2, <2>4
  <2>5. ~(Len(list) + 1 <= Len(list))
    BY <1>2
  <2> HIDE DEF start
  <2> QED BY <2>3, <2>4, <2>5
<1>5. Cardinality(before) = k
  <2>1. Cardinality(0 .. k - 1) = IF 0 > k - 1 THEN 0 ELSE (k - 1) - 0 + 1
    BY <1>1, FS_Interval
  <2>2. Cardinality(0 .. k - 1) = k
    <3>1. CASE k = 0
      BY <2>1, <3>1
    <3>2. CASE k # 0
      <4>1. ~(0 > k - 1) /\ (k - 1) - 0 + 1 = k
        BY <1>1, <3>2
      <4> QED BY <2>1, <4>1
    <3> QED BY <3>1, <3>2
  <2> HIDE DEF before
  <2> QED BY <1>4, <2>2
<1>6. \A n \in 1 .. k : start[n - 1] = s[n - 1]
  BY <1>1, <1>2
<1>7. DOMAIN start = 0 .. most
  OBVIOUS
<1> HIDE DEF start
<1>8. Messages(list) = [n \in 1 .. k |-> MessageAt(list, start[n - 1])]
  BY <1>2, <1>5, <1>7 DEF Messages
<1>9. Messages(list) = [n \in 1 .. k |-> MessageAt(list, s[n - 1])]
  BY <1>6, <1>8
<1>10. ASSUME NEW n \in 1 .. k
       PROVE  /\ s[n - 1] \in Nat /\ 1 <= s[n - 1] /\ list[s[n - 1]] \in {3, 4}
              /\ s[n - 1] + list[s[n - 1]] <= Len(list)
  <2>1. n - 1 \in 0 .. k /\ n \in 0 .. k
    BY <1>1
  <2>2. s[n - 1] \in Nat /\ 1 <= s[n - 1] /\ s[n] \in Nat
    BY <1>1, <2>1
  <2>3. s[n] <= Len(list) + 1
    BY <1>1, <1>2, <1>3, <2>1, <2>2
  <2>4. list[s[n - 1]] \in {3, 4} /\ s[n] = s[n - 1] + list[s[n - 1]] + 1
    BY <1>1
  <2> QED BY <1>2, <2>2, <2>3, <2>4
<1> QED BY <1>1, <1>9, <1>10

Whole(list) == \E k \in Nat : \E s \in [0 .. k -> Nat] : Cut(list, k, s)

LEMMA NothingWhole == Whole(<<>>) /\ Messages(<<>>) = <<>>
<1> DEFINE s == [n \in 0 .. 0 |-> 1]
<1>1. Cut(<<>>, 0, s)
  BY DEF Cut
<1>2. s \in [0 .. 0 -> Nat]
  OBVIOUS
<1> HIDE DEF s
<1>3. Messages(<<>>) = [n \in 1 .. 0 |-> MessageAt(<<>>, s[n - 1])]
  BY <1>1, CutMessages
<1>4. Messages(<<>>) = <<>>
  BY <1>3
<1>5. Whole(<<>>)
  BY <1>1, <1>2 DEF Whole
<1> QED BY <1>4, <1>5

LEMMA Shifted ==
    ASSUME NEW x \in Nat, NEW l \in Nat
    PROVE  /\ (l + 1) + x - 1 = l + x /\ 1 + x - 1 = x /\ (l + 1) + x = l + (1 + x)
           /\ (l + 1) + 2 = l + 3
OBVIOUS

LEMMA FourMore ==
    ASSUME NEW x \in Nat, NEW rest \in Nat, NEW four \in Nat, four = rest + 4,
           NEW end \in Nat, NEW l \in Nat, x + rest <= end, 4 <= l
    PROVE  x + four <= end + l
OBVIOUS

LEMMA WithinList ==
    ASSUME NEW i \in Nat, NEW x, x = 3 \/ x = 4, NEW l \in Nat, 1 <= i, i + x <= l
    PROVE  i \in 1 .. l /\ i + 2 \in 1 .. l /\ i + x - 1 \in 1 .. l /\ i + x \in 1 .. l
OBVIOUS

(* What a publication appends is one message more.                         *)
LEMMA Appended ==
    ASSUME NEW list, Whole(list), NEW e \in Seq(Element),
           (Len(e) = 4 /\ e[1] = 3) \/ (Len(e) = 5 /\ e[1] = 4)
    PROVE  /\ Whole(list \o e)
           /\ Messages(list \o e) = Append(Messages(list), MessageAt(e, 1))
<1>1. PICK k \in Nat : \E s \in [0 .. k -> Nat] : Cut(list, k, s)
  BY DEF Whole
<1>2. PICK s \in [0 .. k -> Nat] : Cut(list, k, s)
  BY <1>1
<1> DEFINE both == list \o e
           end == Len(list) + 1
           u == [n \in 0 .. k + 1 |-> IF n <= k THEN s[n] ELSE end + Len(e)]
<1>3. /\ list \in Seq(Element) /\ s[0] = 1 /\ s[k] = end /\ end \in Nat /\ 1 <= end
      /\ \A n \in 0 .. k : 1 <= s[n] /\ s[n] + 4 * (k - n) <= end
      /\ \A n \in 1 .. k : s[n] = s[n - 1] + list[s[n - 1]] + 1
  BY <1>2 DEF Cut
<1>4. \A n \in 1 .. k : /\ s[n - 1] \in Nat /\ 1 <= s[n - 1]
                       /\ list[s[n - 1]] \in {3, 4}
                       /\ s[n - 1] + list[s[n - 1]] <= Len(list)
  BY <1>2, CutMessages
<1>5. Messages(list) = [n \in 1 .. k |-> MessageAt(list, s[n - 1])]
  BY <1>2, CutMessages
<1>6. /\ both \in Seq(Element) /\ Len(both) = Len(list) + Len(e)
      /\ \A i \in 1 .. Len(list) : both[i] = list[i]
      /\ \A i \in 1 .. Len(e) : both[Len(list) + i] = e[i]
  BY <1>3
<1> HIDE DEF both
<1>7. /\ u \in [0 .. k + 1 -> Nat] /\ k + 1 \in Nat
      /\ u[k + 1] = end + Len(e) /\ \A n \in 0 .. k : u[n] = s[n]
  BY <1>3
<1> HIDE DEF u
<1>8. ASSUME NEW n \in 1 .. k
      PROVE  /\ u[n - 1] = s[n - 1] /\ u[n] = s[n]
             /\ both[s[n - 1]] = list[s[n - 1]]
             /\ MessageAt(both, s[n - 1]) = MessageAt(list, s[n - 1])
  <2>1. n - 1 \in 0 .. k /\ n \in 0 .. k
    BY <1>1
  <2>2. /\ s[n - 1] \in Nat /\ 1 <= s[n - 1] /\ s[n - 1] + list[s[n - 1]] <= Len(list)
        /\ list[s[n - 1]] = 3 \/ list[s[n - 1]] = 4
    BY <1>4
  <2> DEFINE i == s[n - 1]
             x == list[i]
  <2>3. /\ i \in 1 .. Len(list) /\ i + 2 \in 1 .. Len(list)
        /\ i + x - 1 \in 1 .. Len(list) /\ i + x \in 1 .. Len(list)
    <3>1. /\ i \in Nat /\ 1 <= i /\ i + x <= Len(list)
          /\ x = 3 \/ x = 4
          /\ Len(list) \in Nat
      BY <1>3, <2>2
    <3> HIDE DEF i, x
    <3> QED BY <3>1, WithinList
  <2> HIDE DEF i
  <2>4. both[i] = list[i]
    BY <1>6, <2>3
  <2>5. MessageAt(both, i) = MessageAt(list, i)
    <3>1. ASSUME NEW y \in 1 .. Len(list) PROVE both[y] = list[y]
      BY <1>6
    <3>2. both[i + 2] = list[i + 2]
      BY <2>3, <3>1
    <3>3. both[i + list[i] - 1] = list[i + list[i] - 1] /\ both[i + list[i]] = list[i + list[i]]
      BY <2>3, <3>1, Zenon
    <3> QED BY <2>4, <3>2, <3>3, Zenon DEF MessageAt
  <2> QED BY <1>7, <2>1, <2>4, <2>5 DEF i
<1>9. /\ both[end] = e[1] /\ both[end + 2] = e[1 + 2]
      /\ both[end + both[end] - 1] = e[1 + e[1] - 1] /\ both[end + both[end]] = e[1 + e[1]]
  <2>1. /\ 1 \in 1 .. Len(e) /\ 3 \in 1 .. Len(e)
        /\ e[1] \in 1 .. Len(e) /\ 1 + e[1] \in 1 .. Len(e) /\ Len(e) \in Nat
    <3>1. CASE Len(e) = 4 /\ e[1] = 3
      BY <3>1
    <3>2. CASE Len(e) = 5 /\ e[1] = 4
      BY <3>2
    <3> QED BY <3>1, <3>2
  <2>2. both[end] = e[1]
    BY <1>6, <2>1
  <2>e. e[1] \in Nat
    BY <2>1
  <2>3. both[Len(list) + 3] = e[3] /\ end + 2 = Len(list) + 3 /\ 1 + 2 = 3
    BY <1>3, <1>6, <2>1
  <2>4. /\ both[Len(list) + e[1]] = e[e[1]]
        /\ end + e[1] - 1 = Len(list) + e[1] /\ 1 + e[1] - 1 = e[1]
    <3>1. both[Len(list) + e[1]] = e[e[1]]
      BY <1>6, <2>1
    <3>2. Len(list) \in Nat
      BY <1>3
    <3> QED BY <2>e, <3>1, <3>2, Shifted, Zenon
  <2>5. /\ both[Len(list) + (1 + e[1])] = e[1 + e[1]]
        /\ end + e[1] = Len(list) + (1 + e[1])
    <3>1. both[Len(list) + (1 + e[1])] = e[1 + e[1]]
      BY <1>6, <2>1
    <3>2. Len(list) \in Nat
      BY <1>3
    <3> QED BY <2>e, <3>1, <3>2, Shifted, Zenon
  <2> QED BY <2>2, <2>3, <2>4, <2>5
<1>10. MessageAt(both, end) = MessageAt(e, 1)
  BY <1>9 DEF MessageAt
<1>11. Cut(both, k + 1, u)
  <2>1. u[0] = 1 /\ u[k + 1] = Len(both) + 1
    <3>1. Len(e) \in Nat /\ Len(list) \in Nat /\ 0 \in 0 .. k
      BY <1>3
    <3>2. end + Len(e) = Len(list) + Len(e) + 1
      BY <3>1
    <3> QED BY <1>3, <1>6, <1>7, <3>1, <3>2, Zenon
  <2>2. ASSUME NEW n \in 0 .. k + 1
        PROVE  1 <= u[n] /\ u[n] + 4 * ((k + 1) - n) <= Len(both) + 1
    <3>1. CASE n = k + 1
      <4>1. 4 * ((k + 1) - n) = 0
        BY <1>1, <3>1
      <4>2. Len(e) \in Nat /\ Len(list) \in Nat
        BY <1>3
      <4>4. u[k + 1] = Len(both) + 1
        BY <2>1
      <4> QED BY <1>6, <3>1, <4>1, <4>2, <4>4
    <3>2. CASE n # k + 1
      <4>1. n \in 0 .. k /\ k - n \in Nat
        BY <1>1, <3>2
      <4>2. u[n] = s[n] /\ s[n] \in Nat /\ 1 <= s[n] /\ s[n] + 4 * (k - n) <= end
        BY <1>3, <1>7, <4>1
      <4>3. 4 * ((k + 1) - n) = 4 * (k - n) + 4 /\ 4 * (k - n) \in Nat
        BY <1>1, <4>1
      <4>4. Len(both) + 1 = end + Len(e) /\ 4 <= Len(e) /\ Len(e) \in Nat
        <5>1. Len(list) \in Nat /\ Len(e) \in Nat
          BY <1>3
        <5>2. 4 <= Len(e)
          <6>1. CASE Len(e) = 4
            BY <6>1
          <6>2. CASE Len(e) = 5
            BY <6>2
          <6> QED BY <6>1, <6>2
        <5> QED BY <1>6, <5>1, <5>2, SMTT(30)
      <4>5. 4 * ((k + 1) - n) \in Nat /\ end \in Nat
        BY <1>3, <4>3
      <4>6. s[n] + 4 * ((k + 1) - n) <= end + Len(e)
        <5> HIDE DEF end
        <5> QED BY ONLY <4>2, <4>3, <4>4, <4>5, FourMore
      <4> QED BY <4>2, <4>4, <4>6, Zenon
    <3> QED BY <3>1, <3>2
  <2>3. ASSUME NEW n \in 1 .. k + 1
        PROVE  both[u[n - 1]] \in {3, 4} /\ u[n] = u[n - 1] + both[u[n - 1]] + 1
    <3>1. CASE n = k + 1
      <4>1. n - 1 = k /\ k \in 0 .. k
        BY <1>1, <3>1
      <4>2. u[n - 1] = end
        BY <1>3, <1>7, <4>1
      <4>3. both[end] = e[1] /\ u[n] = end + Len(e)
        BY <1>7, <1>9, <3>1
      <4>4. e[1] \in {3, 4} /\ end + Len(e) = end + e[1] + 1
        <5>1. CASE Len(e) = 4 /\ e[1] = 3
          BY <1>3, <5>1
        <5>2. CASE Len(e) = 5 /\ e[1] = 4
          BY <1>3, <5>2
        <5> QED BY <5>1, <5>2
      <4> QED BY <4>2, <4>3, <4>4
    <3>2. CASE n # k + 1
      <4>1. n \in 1 .. k
        BY <1>1, <3>2
      <4>2. list[s[n - 1]] \in {3, 4} /\ s[n] = s[n - 1] + list[s[n - 1]] + 1
        BY <1>3, <1>4, <4>1
      <4>3. u[n - 1] = s[n - 1] /\ u[n] = s[n] /\ both[s[n - 1]] = list[s[n - 1]]
        BY <1>8, <4>1
      <4> QED BY <4>2, <4>3, Zenon
    <3> QED BY <3>1, <3>2
  <2> QED BY <1>6, <1>7, <2>1, <2>2, <2>3 DEF Cut
<1>12. Messages(both) = [n \in 1 .. k + 1 |-> MessageAt(both, u[n - 1])]
  BY <1>11, CutMessages
<1>13. Messages(both) = Append(Messages(list), MessageAt(e, 1))
  <2>1. Append(Messages(list), MessageAt(e, 1))
          = [n \in 1 .. k + 1 |-> IF n = k + 1 THEN MessageAt(e, 1) ELSE MessageAt(list, s[n - 1])]
    BY <1>1, <1>5
  <2>2. ASSUME NEW n \in 1 .. k + 1
        PROVE  MessageAt(both, u[n - 1])
                 = IF n = k + 1 THEN MessageAt(e, 1) ELSE MessageAt(list, s[n - 1])
    <3>1. CASE n = k + 1
      <4>1. n - 1 = k /\ k \in 0 .. k
        BY <1>1, <3>1
      <4> QED BY <1>3, <1>7, <1>10, <3>1, <4>1
    <3>2. CASE n # k + 1
      <4>1. n \in 1 .. k
        BY <1>1, <3>2
      <4> QED BY <1>8, <3>2, <4>1
    <3> QED BY <3>1, <3>2
  <2> QED BY <1>12, <2>1, <2>2
<1> QED BY <1>7, <1>11, <1>13 DEF both, Whole

(* What a poll takes is the first message.                                 *)
LEMMA Polled ==
    ASSUME NEW list, Whole(list), list # <<>>
    PROVE  /\ Whole(Popped(list)) /\ Messages(list) # <<>>
           /\ Messages(Popped(list)) = Tail(Messages(list))
<1>1. PICK k \in Nat : \E s \in [0 .. k -> Nat] : Cut(list, k, s)
  BY DEF Whole
<1>2. PICK s \in [0 .. k -> Nat] : Cut(list, k, s)
  BY <1>1
<1> DEFINE o == list[1] + 1
           rest == Popped(list)
           u == [n \in 0 .. k - 1 |-> s[n + 1] - o]
<1>3. /\ list \in Seq(Element) /\ s[0] = 1 /\ s[k] = Len(list) + 1
      /\ \A n \in 0 .. k : 1 <= s[n] /\ s[n] + 4 * (k - n) <= Len(list) + 1
      /\ \A n \in 1 .. k : s[n] = s[n - 1] + list[s[n - 1]] + 1
  BY <1>2 DEF Cut
<1>4. \A n \in 1 .. k : /\ s[n - 1] \in Nat /\ 1 <= s[n - 1]
                       /\ list[s[n - 1]] \in {3, 4}
                       /\ s[n - 1] + list[s[n - 1]] <= Len(list)
  BY <1>2, CutMessages
<1>5. Messages(list) = [n \in 1 .. k |-> MessageAt(list, s[n - 1])]
  BY <1>2, CutMessages
<1>6. k # 0 /\ 1 \in 1 .. k /\ k - 1 \in Nat
  <2>1. Len(list) \in Nat /\ Len(list) # 0
    BY <1>3
  <2> QED BY <1>1, <1>3, <2>1
<1>7. /\ list[1] \in {3, 4} /\ o \in Nat /\ o <= Len(list) /\ s[1] = o + 1
      /\ Len(list) \in Nat
  <2>1. s[1 - 1] = 1 /\ Len(list) \in Nat
    BY <1>3
  <2>2. list[1] \in {3, 4} /\ 1 + list[1] <= Len(list) /\ s[1] = 1 + list[1] + 1
    BY <1>3, <1>4, <1>6, <2>1
  <2> QED BY <2>1, <2>2
<1>8. /\ rest \in Seq(Element) /\ Len(rest) = Len(list) - o
      /\ \A i \in 1 .. Len(list) - o : rest[i] = list[i + o]
  <2>1. rest = SubSeq(list, o + 1, Len(list))
    <3>1. list[1] + 2 = o + 1
      <4>1. list[1] \in Nat
        BY <1>7
      <4> QED BY <4>1
    <3> HIDE DEF o
    <3> QED BY <3>1 DEF Popped
  <2> HIDE DEF o, rest
  <2>2. /\ rest \in Seq(Element) /\ Len(rest) = Len(list) - o
    <3>1. \A i \in o + 1 .. Len(list) : list[i] \in Element
      BY <1>3, <1>7
    <3>2. o + 1 \in Int /\ Len(list) \in Int
      BY <1>7
    <3>3. /\ SubSeq(list, o + 1, Len(list)) \in Seq(Element)
          /\ Len(SubSeq(list, o + 1, Len(list)))
               = IF o + 1 <= Len(list) THEN Len(list) - (o + 1) + 1 ELSE 0
      BY <3>1, <3>2, SubSeqProperties
    <3> QED BY <1>7, <2>1, <3>3
  <2>3. ASSUME NEW i \in 1 .. Len(list) - o PROVE rest[i] = list[i + o]
    <3>1. /\ o + 1 \in 1 .. Len(list) + 1 /\ Len(list) \in o .. Len(list)
          /\ i \in 1 .. (Len(list) - (o + 1) + 1) /\ (o + 1) + i - 1 = i + o
      BY <1>7
    <3>2. SubSeq(list, o + 1, Len(list))
            = [j \in 1 .. (Len(list) - (o + 1) + 1) |-> list[(o + 1) + j - 1]]
      BY <1>3, <1>7
    <3> QED BY <2>1, <3>1, <3>2
  <2> QED BY <2>2, <2>3
<1> HIDE DEF rest, o
<1>9. ASSUME NEW n \in 0 .. k PROVE s[n] \in Nat /\ (n # 0 => o + 1 <= s[n])
  <2> DEFINE S == {m \in 0 .. k : m # 0 => o + 1 <= s[m]}
  <2>1. 0 \in S
    BY <1>1
  <2>2. ASSUME NEW m \in 1 .. k, m - 1 \in S PROVE m \in S
    <3>1. s[m - 1] \in Nat /\ list[s[m - 1]] \in {3, 4} /\ s[m] = s[m - 1] + list[s[m - 1]] + 1
      BY <1>3, <1>4
    <3>2. CASE m = 1
      BY <1>6, <1>7, <3>2
    <3>3. CASE m # 1
      <4>1. o + 1 <= s[m - 1]
        BY <1>1, <2>2, <3>3
      <4>2. list[s[m - 1]] \in Nat
        BY <3>1
      <4>3. o + 1 <= s[m]
        BY <1>7, <3>1, <4>1, <4>2
      <4> QED BY <2>2, <4>3
    <3> QED BY <3>2, <3>3
  <2>3. 0 .. k \subseteq S
    <3> HIDE DEF S
    <3> QED BY <2>1, <2>2, BoundedInduction
  <2> QED BY <1>2, <2>3
<1>10. /\ u \in [0 .. k - 1 -> Nat]
       /\ \A n \in 0 .. k - 1 : u[n] = s[n + 1] - o /\ u[n] \in Nat /\ 1 <= u[n]
  <2>1. ASSUME NEW n \in 0 .. k - 1 PROVE s[n + 1] - o \in Nat /\ 1 <= s[n + 1] - o
    <3>1. n + 1 \in 0 .. k /\ n + 1 # 0
      BY <1>1
    <3>2. s[n + 1] \in Nat /\ o + 1 <= s[n + 1]
      BY <1>9, <3>1
    <3> QED BY <1>7, <3>2
  <2> QED BY <2>1
<1> HIDE DEF u
<1>11. ASSUME NEW n \in 1 .. k - 1
       PROVE  /\ u[n - 1] = s[n] - o /\ s[n] = s[(n + 1) - 1]
              /\ rest[u[n - 1]] = list[s[n]]
              /\ MessageAt(rest, u[n - 1]) = MessageAt(list, s[n])
  <2>1. n - 1 \in 0 .. k - 1 /\ (n - 1) + 1 = n /\ (n + 1) - 1 = n /\ n + 1 \in 1 .. k
    BY <1>1
  <2> DEFINE i == u[n - 1]
             x == list[s[n]]
  <2>2. i = s[n] - o /\ i \in Nat /\ 1 <= i
    BY <1>10, <2>1
  <2>3. s[n] \in Nat /\ x \in {3, 4} /\ s[n] + x <= Len(list)
    BY <1>4, <2>1
  <2>4. i + o = s[n]
    BY <1>7, <2>2, <2>3
  <2> HIDE DEF i, x
  <2>x. x \in Nat /\ 3 <= x
    BY <2>3
  <2>5. /\ i \in 1 .. Len(list) - o /\ i + 2 \in 1 .. Len(list) - o
        /\ i + x - 1 \in 1 .. Len(list) - o /\ i + x \in 1 .. Len(list) - o
        /\ (i + 2) + o = s[n] + 2 /\ (i + x - 1) + o = s[n] + x - 1 /\ (i + x) + o = s[n] + x
    <3> DEFINE y == s[n]
               z == Len(list)
    <3>1. /\ i = y - o /\ i \in Nat /\ 1 <= i /\ y \in Nat /\ y + x <= z
          /\ x \in Nat /\ 3 <= x /\ o \in Nat /\ z \in Nat
      BY <1>7, <2>2, <2>3, <2>x
    <3> HIDE DEF y, z
    <3>2. /\ i \in 1 .. z - o /\ i + 2 \in 1 .. z - o
          /\ i + x - 1 \in 1 .. z - o /\ i + x \in 1 .. z - o
      BY <3>1
    <3>3. /\ (i + 2) + o = y + 2 /\ (i + x - 1) + o = y + x - 1 /\ (i + x) + o = y + x
      BY <3>1
    <3> QED BY <3>2, <3>3 DEF y, z
  <2>6. rest[i] = x
    BY <1>8, <2>4, <2>5 DEF x
  <2>7. /\ rest[i + 2] = list[s[n] + 2] /\ rest[i + x - 1] = list[s[n] + x - 1]
        /\ rest[i + x] = list[s[n] + x]
    BY <1>8, <2>5
  <2>8. MessageAt(rest, i) = MessageAt(list, s[n])
    BY <2>6, <2>7 DEF MessageAt, x
  <2> QED BY <2>1, <2>2, <2>6, <2>8 DEF i, x
<1>12. Cut(rest, k - 1, u)
  <2>1. u[0] = 1
    BY <1>6, <1>7, <1>10
  <2>2. u[k - 1] = Len(rest) + 1
    <3>1. k - 1 \in 0 .. k - 1 /\ (k - 1) + 1 = k
      BY <1>6
    <3> QED BY <1>3, <1>7, <1>8, <1>10, <3>1
  <2>3. ASSUME NEW n \in 0 .. k - 1
        PROVE  1 <= u[n] /\ u[n] + 4 * ((k - 1) - n) <= Len(rest) + 1
    <3>1. n + 1 \in 0 .. k
      BY <1>1
    <3>2. s[n + 1] \in Nat /\ s[n + 1] + 4 * (k - (n + 1)) <= Len(list) + 1
      BY <1>3, <3>1
    <3>3. (k - 1) - n = k - (n + 1) /\ k - (n + 1) \in Nat
      BY <1>1
    <3>4. 4 * (k - (n + 1)) \in Nat
      BY <3>3
    <3>5. u[n] = s[n + 1] - o /\ 1 <= u[n]
      BY <1>10
    <3> QED BY <1>7, <1>8, <3>2, <3>3, <3>4, <3>5, SMTT(30)
  <2>4. ASSUME NEW n \in 1 .. k - 1
        PROVE  rest[u[n - 1]] \in {3, 4} /\ u[n] = u[n - 1] + rest[u[n - 1]] + 1
    <3>1. n \in 0 .. k - 1 /\ n + 1 \in 1 .. k /\ (n + 1) - 1 = n
      BY <1>1
    <3>2. list[s[n]] \in {3, 4} /\ s[n + 1] = s[n] + list[s[n]] + 1 /\ s[n] \in Nat
      BY <1>3, <1>4, <3>1
    <3>3. u[n] = s[n + 1] - o /\ u[n - 1] = s[n] - o /\ rest[u[n - 1]] = list[s[n]]
      BY <1>10, <1>11, <3>1
    <3>4. list[s[n]] \in Nat
      BY <3>2
    <3> DEFINE x == list[s[n]]
               y == s[n]
               z == s[n + 1]
    <3>5. /\ x \in Nat /\ x \in {3, 4} /\ y \in Nat /\ o \in Nat /\ z = y + x + 1
          /\ u[n] = z - o /\ u[n - 1] = y - o /\ rest[u[n - 1]] = x
      BY <1>7, <3>2, <3>3, <3>4
    <3> HIDE DEF x, y, z
    <3>6. z - o = (y - o) + x + 1
      BY <3>5
    <3> QED BY <3>5, <3>6
  <2> QED BY <1>6, <1>8, <1>10, <2>1, <2>2, <2>3, <2>4 DEF Cut
<1>13. Messages(rest) = [n \in 1 .. k - 1 |-> MessageAt(rest, u[n - 1])]
  BY <1>12, CutMessages
<1>14. Tail(Messages(list)) = [n \in 1 .. k - 1 |-> MessageAt(list, s[(n + 1) - 1])]
  <2> DEFINE f == [n \in 1 .. k |-> MessageAt(list, s[n - 1])]
  <2>1. f \in Seq({f[n] : n \in 1 .. k}) /\ Len(f) = k
    <3> DEFINE T == {f[n] : n \in 1 .. k}
    <3>1. f \in [1 .. k -> T]
      OBVIOUS
    <3> HIDE DEF f, T
    <3>2. f \in Seq(T) /\ Len(f) = k
      BY <1>1, <3>1
    <3> QED BY <3>2 DEF T
  <2>2. Tail(f) = [n \in 1 .. k - 1 |-> f[n + 1]]
    <3> DEFINE T == {f[n] : n \in 1 .. k}
    <3>1. f \in Seq(T) /\ Len(f) = k
      BY <2>1
    <3> HIDE DEF f, T
    <3>2. f # <<>>
      BY <1>6, <3>1
    <3>3. /\ Tail(f) \in Seq(T) /\ Len(Tail(f)) = Len(f) - 1
          /\ \A i \in 1 .. Len(Tail(f)) : Tail(f)[i] = f[i + 1]
      BY <3>1, <3>2, HeadTailProperties
    <3>4. DOMAIN Tail(f) = 1 .. k - 1 /\ Tail(f) = [n \in DOMAIN Tail(f) |-> Tail(f)[n]]
      <4>1. Len(Tail(f)) = k - 1
        BY <3>1, <3>3
      <4>2. DOMAIN Tail(f) = 1 .. Len(Tail(f)) /\ Tail(f) = [n \in DOMAIN Tail(f) |-> Tail(f)[n]]
        <5> DEFINE t == Tail(f)
        <5>1. t \in Seq(T)
          BY <3>3
        <5> HIDE DEF t
        <5>2. t = [n \in 1 .. Len(t) |-> t[n]]
          BY <5>1
        <5>3. DOMAIN t = 1 .. Len(t)
          BY <5>1
        <5> QED BY <5>2, <5>3 DEF t
      <4> QED BY <4>1, <4>2
    <3>5. \A n \in 1 .. k - 1 : Tail(f)[n] = f[n + 1]
      BY <3>1, <3>3
    <3> QED BY <3>4, <3>5
  <2>3. \A n \in 1 .. k - 1 : f[n + 1] = MessageAt(list, s[(n + 1) - 1])
    BY <1>1
  <2> HIDE DEF f
  <2> QED BY <1>5, <2>2, <2>3 DEF f
<1>15. Messages(rest) = Tail(Messages(list))
  <2>1. \A n \in 1 .. k - 1 : MessageAt(rest, u[n - 1]) = MessageAt(list, s[(n + 1) - 1])
    BY <1>11
  <2> QED BY <1>13, <1>14, <2>1
<1>16. Messages(list) # <<>>
  <2>1. DOMAIN Messages(list) = 1 .. k
    BY <1>5
  <2> QED BY <1>6, <2>1
<1> QED BY <1>6, <1>10, <1>12, <1>15, <1>16 DEF Whole, rest

-----------------------------------------------------------------------------
(* How far a publication is.  A subscriber that has died is the only       *)
(* reason not to reach another of the same topic.                          *)
Mail(t, chan, data) == Elements([topic |-> t, chan |-> chan, data |-> data])
MailTo(to, m, mail) == IF m \in to THEN mail ELSE <<>>
Lost(t) == \E q \in db.subs[t] : At(q, "gone")
Reached(t, to, left) ==
    /\ to \subseteq db.subs[t] \ left
    /\ db.subs[t] \subseteq to \cup left \/ Lost(t)

(* What the publisher sees is what is committed and what it has sent to    *)
(* toC for the channel and to toP for the pattern that matches it.         *)
Sent(j, toC, toP) ==
    \A m \in Clients :
       work.messages[m] = (db.messages[m] \o MailTo(toC, m, Mail(j.chan, j.chan, j.data)))
                                         \o MailTo(toP, m, Mail(j.topic, j.chan, j.data))
Halfway(j, toC, toP) ==
    /\ Sent(j, toC, toP)
    /\ j.last => /\ j.topic \in Matching[j.chan]
                 /\ Reached(j.chan, toC, {}) /\ Reached(j.topic, toP, j.left)
    /\ ~j.last => /\ j.topic = j.chan /\ toP = {}
                  /\ Reached(j.chan, toC, j.left)

Publishing(c) ==
    LET j == h[c].job
    IN /\ lock = c /\ ~j.torn /\ j.data \in Data
       /\ j.left \subseteq db.subs[j.topic]
       /\ \/ At(c, "publish") /\ j.db = "messages"
          \/ Lost(j.topic)
       /\ \E toC, toP \in SUBSET Clients : Halfway(j, toC, toP)

DInv ==
    /\ sent \in Nat
    /\ \A c \in Clients : Whole(db.messages[c])
    /\ \A c \in Clients : h[c].job # NoJob => Publishing(c)
    /\ work = db \/ \E c \in Clients : lock = c /\ h[c].job # NoJob

(* What a publisher commits while it cleans up after a dead subscriber is  *)
(* half a publication.  It commits nothing then if it has no id, which is  *)
(* so unless it has subscribed or waited for a message itself.             *)
Apart == \A c \in Clients : h[c].job # NoJob /\ ~At(c, "publish") => ~h[c].id

-----------------------------------------------------------------------------
(* What is sent for a topic is cut as one message more.                    *)
LEMMA MailWhole ==
    ASSUME NEW chan \in Channels, NEW t, t = chan \/ t \in Patterns, NEW data \in Data,
           NEW list, Whole(list)
    PROVE  LET e == Mail(t, chan, data)
           IN /\ e \in Seq(Element) /\ Whole(list \o e)
              /\ Messages(list \o e)
                   = Messages(list) \o <<[topic |-> t, chan |-> chan, data |-> data]>>
<1> DEFINE e == Mail(t, chan, data)
<1>1. CASE t = chan
  <2>1. e = <<3, message, chan, data>>
    BY <1>1 DEF Mail, Elements
  <2>2. e \in Seq(Element) /\ Len(e) = 4 /\ e[1] = 3 /\ e[3] = chan /\ e[4] = data
    BY <2>1 DEF Element, Topic
  <2>3. MessageAt(e, 1) = [topic |-> t, chan |-> chan, data |-> data]
    BY <1>1, <2>2 DEF MessageAt
  <2> HIDE DEF e
  <2>4. Whole(list \o e) /\ Messages(list \o e) = Append(Messages(list), MessageAt(e, 1))
    BY <2>2, Appended
  <2> QED BY <2>2, <2>3, <2>4 DEF e
<1>2. CASE t # chan
  <2>1. t \in Patterns /\ t \notin Channels
    BY <1>2, DatabasesAssumption
  <2>2. e = <<4, pmessage, t, chan, data>>
    BY <2>1 DEF Mail, Elements
  <2>3. /\ e \in Seq(Element) /\ Len(e) = 5 /\ e[1] = 4
        /\ e[3] = t /\ e[4] = chan /\ e[5] = data
    BY <2>1, <2>2 DEF Element, Topic
  <2>4. MessageAt(e, 1) = [topic |-> t, chan |-> chan, data |-> data]
    BY <2>3 DEF MessageAt
  <2> HIDE DEF e
  <2>5. Whole(list \o e) /\ Messages(list \o e) = Append(Messages(list), MessageAt(e, 1))
    BY <2>3, Appended
  <2> QED BY <2>3, <2>4, <2>5 DEF e
<1> QED BY <1>1, <1>2

LEMMA NoMail ==
    ASSUME NEW list, Whole(list)
    PROVE  list \o <<>> = list /\ Messages(list) \o <<>> = Messages(list)
<1>1. PICK k \in Nat : \E s \in [0 .. k -> Nat] : Cut(list, k, s)
  BY DEF Whole
<1>2. PICK s \in [0 .. k -> Nat] : Cut(list, k, s)
  BY <1>1
<1>3. list \in Seq(Element)
  BY <1>2 DEF Cut
<1>4. Messages(list) = [n \in 1 .. k |-> MessageAt(list, s[n - 1])]
  BY <1>2, CutMessages
<1> DEFINE f == [n \in 1 .. k |-> MessageAt(list, s[n - 1])]
           T == {f[n] : n \in 1 .. k}
<1>5. f \in [1 .. k -> T]
  OBVIOUS
<1> HIDE DEF f, T
<1>6. f \in Seq(T)
  BY <1>5
<1>7. f \o <<>> = f
  BY <1>6
<1> QED BY <1>3, <1>4, <1>7 DEF f

Letter(t, chan, data) == <<[topic |-> t, chan |-> chan, data |-> data]>>

(* The list with the mail for m, and the box it is. *)
Posted(list, to, m, t, chan, data) ==
    /\ Whole(list \o MailTo(to, m, Mail(t, chan, data)))
    /\ m \notin to => list \o MailTo(to, m, Mail(t, chan, data)) = list
    /\ Messages(list \o MailTo(to, m, Mail(t, chan, data)))
         = Messages(list) \o MailTo(to, m, Letter(t, chan, data))

LEMMA MailToWhole ==
    ASSUME NEW chan \in Channels, NEW t, t = chan \/ t \in Patterns, NEW data \in Data,
           NEW list, Whole(list), NEW to, NEW m
    PROVE  Posted(list, to, m, t, chan, data)
<1>1. CASE m \in to
  BY <1>1, MailWhole DEF MailTo, Letter, Posted
<1>2. CASE m \notin to
  BY <1>2, NoMail DEF MailTo, Posted
<1> QED BY <1>1, <1>2

-----------------------------------------------------------------------------
(* How a step ends, for the publications: who commits or gives the lock    *)
(* back leaves no publication behind it, as only one client at a time has  *)
(* one; what goes on without the lock disturbs none.                       *)
Living == {c \in Clients : ~At(c, "gone")}

LEMMA OneJob ==
    ASSUME DInv, NEW c \in Clients, LockFree(c)
    PROVE  \A q \in Clients \ {c} : h[q].job = NoJob
<1>1. ASSUME NEW q \in Clients \ {c}, h[q].job # NoJob PROVE FALSE
  <2>1. lock = q
    BY <1>1 DEF DInv, Publishing
  <2> QED BY <2>1, NoneAssumption DEF LockFree
<1> QED BY <1>1

LEMMA NoJobView ==
    ASSUME DInv, NEW c \in Clients, LockFree(c), h[c].job = NoJob
    PROVE  View(c) = db
BY OneJob DEF DInv, View

LEMMA CommitDelivers ==
    ASSUME PInv, DInv, NEW c \in Clients, NEW new, NEW r, LockFree(c), Commit(c, new, r),
           sent' = sent, r.job = NoJob, r.pc # "gone", ~At(c, "gone"),
           \A q \in Clients : Whole(new.messages[q])
    PROVE  DInv' /\ Living' = Living /\ db' = new
<1>1. /\ db' = new /\ work' = new
      /\ h' = [q \in Clients |->
                 IF q = c THEN r
                 ELSE IF new # db /\ h[q].pc \in Unrefreshed THEN [h[q] EXCEPT !.stale = TRUE]
                 ELSE h[q]]
  BY DEF Commit
<1>2. ASSUME NEW q \in Clients \ {c} PROVE h'[q].job = NoJob /\ h'[q].pc = h[q].pc
  <2>1. ClientTyped(h[q]) /\ h[q].job = NoJob
    BY OneJob DEF PInv, ClientsTyped
  <2> QED BY <1>1, <2>1 DEF ClientTyped
<1>3. h'[c] = r
  BY <1>1
<1>4. Living' = Living
  BY <1>2, <1>3 DEF Living, At
<1> QED BY <1>1, <1>2, <1>3, <1>4 DEF DInv

LEMMA KeepDelivers ==
    ASSUME PInv, DInv, NEW c \in Clients, NEW holder, NEW r, LockFree(c), Keep(holder, db),
           sent' = sent, h' = [h EXCEPT ![c] = r], r.job = NoJob
    PROVE  DInv' /\ db' = db
<1>1. db' = db /\ work' = db
  BY DEF Keep
<1>2. \A q \in Clients : h'[q].job = NoJob
  BY OneJob DEF PInv, ClientsTyped
<1> QED BY <1>1, <1>2 DEF DInv

LEMMA JobTopics ==
    ASSUME FInv, DInv, NEW c \in Clients, h[c].job # NoJob
    PROVE  LET j == h[c].job
           IN /\ j.chan \in Channels /\ j.topic \in Topic
              /\ j.topic = j.chan \/ j.topic \in Patterns
<1> DEFINE j == h[c].job
<1>1. j.chan \in Channels
  BY JobFacts DEF FInv, FClient
<1>2. PICK toC \in SUBSET Clients, toP \in SUBSET Clients : Halfway(j, toC, toP)
  BY DEF DInv, Publishing
<1>3. j.topic = j.chan \/ j.topic \in Matching[j.chan]
  BY <1>2 DEF Halfway
<1> QED BY <1>1, <1>3, MatchingAssumption DEF Topic

LEMMA PublishingStays ==
    ASSUME PInv, FInv, DInv, NEW c \in Clients, h[c].job # NoJob,
           UNCHANGED <<db, work, lock>>, h'[c] = h[c],
           \A q \in Clients : At(q, "gone") => At(q, "gone")'
    PROVE  Publishing(c)'
<1> DEFINE j == h[c].job
<1>1. Publishing(c)
  BY DEF DInv
<1>2. ASSUME NEW t \in Topic, Lost(t) PROVE Lost(t)'
  <2>1. PICK q \in db.subs[t] : At(q, "gone")
    BY <1>2 DEF Lost
  <2>2. q \in Clients
    BY DEF PInv, Sound, DbTyped
  <2> QED BY <2>1, <2>2 DEF Lost
<1>3. j.chan \in Topic /\ j.topic \in Topic
  BY JobTopics DEF Topic
<1>4. PICK toC \in SUBSET Clients, toP \in SUBSET Clients : Halfway(j, toC, toP)
  BY <1>1 DEF Publishing
<1>5. Sent(j, toC, toP)'
  BY <1>4 DEF Halfway, Sent
<1>6. /\ \A to, left : Reached(j.chan, to, left) => Reached(j.chan, to, left)'
      /\ \A to, left : Reached(j.topic, to, left) => Reached(j.topic, to, left)'
  BY <1>2, <1>3 DEF Reached
<1>7. Halfway(j, toC, toP)'
  BY <1>4, <1>5, <1>6 DEF Halfway
<1>8. Lost(j.topic) => Lost(j.topic)'
  BY <1>2, <1>3
<1> QED BY <1>1, <1>7, <1>8 DEF Publishing, At

(* A step without the lock *)
LEMMA StillDelivers ==
    ASSUME PInv, FInv, DInv, NEW c \in Clients, NEW r, UNCHANGED <<db, work, lock, sent>>,
           h' = [h EXCEPT ![c] = r], r.job = NoJob, h[c].job = NoJob,
           At(c, "gone") => r.pc = "gone"
    PROVE  DInv'
<1>1. /\ h'[c] = r /\ \A q \in Clients \ {c} : h'[q] = h[q]
  BY DEF PInv, ClientsTyped
<1>2. \A q \in Clients : At(q, "gone") => At(q, "gone")'
  BY <1>1 DEF At
<1>3. ASSUME NEW q \in Clients, h[q].job # NoJob PROVE Publishing(q)'
  <2>1. h'[q] = h[q]
    BY <1>1, <1>3
  <2> QED BY <1>2, <1>3, <2>1, PublishingStays
<1>4. \A q \in Clients : h'[q].job # NoJob => Publishing(q)'
  BY <1>1, <1>3
<1>5. work' = db' \/ \E q \in Clients : lock' = q /\ h'[q].job # NoJob
  BY <1>1 DEF DInv
<1> QED BY <1>4, <1>5 DEF DInv

-----------------------------------------------------------------------------
(* What the steps are for the boxes                                        *)
SameBoxes == \A q \in Clients : Messages(db'.messages[q]) = Messages(db.messages[q])

LEMMA BoxesStutter ==
    ASSUME db'.subs = db.subs, SameBoxes, Living' = Living
    PROVE  [Boxes!Next]_(Boxes!vars)
BY DEF SameBoxes, Living, Boxes!vars

LEMMA BoxesSubscribe ==
    ASSUME NEW c \in Clients, NEW ts \in SUBSET Topic, Sound(db), db' = Added(db, c, ts),
           Living' = Living
    PROVE  [Boxes!Next]_(Boxes!vars)
<1>1. /\ db'.subs = [t \in Topic |-> IF t \in ts THEN db.subs[t] \cup {c} ELSE db.subs[t]]
      /\ db'.messages = db.messages
  BY DEF Added, Sound, DbTyped
<1>2. Boxes!Subscribe(c, ts)
  BY <1>1 DEF Boxes!Subscribe, Boxes!Topic, Topic, Living
<1> QED BY <1>2 DEF Boxes!Next, Boxes!Topic, Topic

LEMMA BoxesUnsubscribe ==
    ASSUME NEW c \in Clients, NEW ts \in SUBSET Topic, Sound(db), db' = Removed(db, c, ts),
           Living' = Living
    PROVE  [Boxes!Next]_(Boxes!vars)
<1>1. /\ db'.subs = [t \in Topic |-> IF t \in ts THEN db.subs[t] \ {c} ELSE db.subs[t]]
      /\ db'.messages = db.messages
  BY DEF Removed, Sound, DbTyped
<1>2. Boxes!Unsubscribe(c, ts)
  BY <1>1 DEF Boxes!Unsubscribe, Boxes!Topic, Topic, Living
<1> QED BY <1>2 DEF Boxes!Next, Boxes!Topic, Topic

LEMMA BoxesTake ==
    ASSUME NEW c \in Clients, Sound(db), Whole(db.messages[c]), Waiting(c), db' = Received(c),
           Living' = Living
    PROVE  /\ [Boxes!Next]_(Boxes!vars)
           /\ Whole(db'.messages[c])
           /\ \A q \in Clients \ {c} : db'.messages[q] = db.messages[q]
<1>1. /\ db'.subs = db.subs
      /\ db'.messages = [db.messages EXCEPT ![c] = Popped(@)]
      /\ db.messages = [q \in Clients |-> db.messages[q]]
  BY DEF Received, Sound, DbTyped
<1>2. /\ Whole(db'.messages[c]) /\ Messages(db.messages[c]) # <<>>
      /\ Messages(db'.messages[c]) = Tail(Messages(db.messages[c]))
  BY <1>1, Polled DEF Waiting
<1>3. \A q \in Clients \ {c} : db'.messages[q] = db.messages[q]
  BY <1>1
<1>4. Boxes!Take(c)
  BY <1>1, <1>2, <1>3 DEF Boxes!Take, Living
<1> QED BY <1>2, <1>3, <1>4 DEF Boxes!Next

LEMMA BoxesDie ==
    ASSUME NEW c \in Clients, db' = db, Living' = Living \ {c}
    PROVE  [Boxes!Next]_(Boxes!vars)
<1>1. Boxes!Die(c)
  BY DEF Boxes!Die, Living
<1> QED BY <1>1 DEF Boxes!Next

(* The sequences of no topic and of one, as Mailbox.tla takes them         *)
LEMMA SameCardinality == ASSUME NEW S PROVE Boxes!Cardinality(S) = Cardinality(S)
BY DEF Boxes!Cardinality, Cardinality

LEMMA FlattenNone == ASSUME NEW s, s = <<>> PROVE Boxes!FlattenSeq(s) = <<>>
BY DEF Boxes!FlattenSeq

LEMMA FlattenOne == ASSUME NEW s, s = <<s[1]>> PROVE Boxes!FlattenSeq(s) = s[1]
<1> DEFINE Solves(g) == g = [i \in 1 .. Len(s) |-> IF i = 1 THEN s[i] ELSE g[i - 1] \o s[i]]
           f == [i \in 1 .. Len(s) |-> s[1]]
           flatten == CHOOSE g : Solves(g)
<1>1. Len(s) = 1
  OBVIOUS
<1>2. Solves(f)
  <2>1. \A i \in 1 .. Len(s) : i = 1
    BY <1>1
  <2>2. \A i \in 1 .. Len(s) : s[1] = IF i = 1 THEN s[i] ELSE f[i - 1] \o s[i]
    BY <2>1, Zenon
  <2> QED BY <2>2, Zenon
<1>3. Solves(flatten)
  BY <1>2, Zenon
<1>4. Boxes!FlattenSeq(s) = flatten[Len(s)]
  BY <1>1 DEF Boxes!FlattenSeq
<1> HIDE DEF flatten
<1> QED BY <1>1, <1>3, <1>4

LEMMA OrderNone == <<>> \in Boxes!SetToSeqs({})
<1>1. Boxes!Cardinality({}) = 0
  BY SameCardinality, FS_EmptySet
<1>2. <<>> \in [1 .. 0 -> {}]
  OBVIOUS
<1> QED BY <1>1, <1>2 DEF Boxes!SetToSeqs

LEMMA OrderOne == ASSUME NEW t PROVE <<t>> \in Boxes!SetToSeqs({t})
<1>1. Boxes!Cardinality({t}) = 1
  BY SameCardinality, FS_Singleton
<1>2. <<t>> \in [1 .. 1 -> {t}]
  OBVIOUS
<1>3. \A i, j \in 1 .. 1 : i = j
  OBVIOUS
<1> QED BY <1>1, <1>2, <1>3 DEF Boxes!SetToSeqs

(* A publication that has reached all it has to, for the channel and for   *)
(* the one pattern that matches it or for none.                            *)
LEMMA BoxesPublish ==
    ASSUME NEW chan \in Channels, NEW data \in Data,
           NEW toC \in SUBSET Clients, NEW toP \in SUBSET Clients, NEW t,
           \/ Matching[chan] = {t}
           \/ Matching[chan] = {} /\ toP = {},
           Reached(chan, toC, {}), t \in Matching[chan] => Reached(t, toP, {}),
           Sound(db), \A q \in Clients : Whole(db.messages[q]),
           \A q \in Clients :
              Messages(db'.messages[q]) = (Messages(db.messages[q])
                                             \o MailTo(toC, q, Letter(chan, chan, data)))
                                          \o MailTo(toP, q, Letter(t, chan, data)),
           db'.subs = db.subs, Living' = Living
    PROVE  [Boxes!Next]_(Boxes!vars)
<1> DEFINE to == [x \in {chan} \cup Matching[chan] |-> IF x = chan THEN toC ELSE toP]
           order == IF Matching[chan] = {} THEN <<>> ELSE <<t>>
           mail(q, x) == IF q \in to[x] THEN <<[topic |-> x, chan |-> chan, data |-> data]>>
                         ELSE <<>>
           letters(q) == [i \in DOMAIN order |-> mail(q, order[i])]
<1>1. t \in Matching[chan] => t # chan
  BY MatchingAssumption, DatabasesAssumption
<1>2. to \in [{chan} \cup Matching[chan] -> SUBSET Clients]
  OBVIOUS
<1>3. to[chan] = toC /\ (t \in Matching[chan] => to[t] = toP)
  BY <1>1
<1>4. order \in Boxes!SetToSeqs(Matching[chan])
  BY OrderNone, OrderOne
<1>5. ASSUME NEW x \in {chan} \cup Matching[chan]
      PROVE  to[x] \subseteq db.subs[x] /\ (db.subs[x] \subseteq Living => to[x] = db.subs[x])
  <2>1. Reached(x, to[x], {})
    BY <1>3
  <2>2. Lost(x) => ~(db.subs[x] \subseteq Living)
    BY DEF Lost, Living
  <2> QED BY <2>1, <2>2 DEF Reached
<1>6. ASSUME NEW q \in Clients
      PROVE  /\ mail(q, chan) = MailTo(toC, q, Letter(chan, chan, data))
             /\ Boxes!FlattenSeq(letters(q)) = MailTo(toP, q, Letter(t, chan, data))
  <2>1. mail(q, chan) = MailTo(toC, q, Letter(chan, chan, data))
    BY <1>3 DEF MailTo, Letter
  <2>2. CASE Matching[chan] = {}
    <3>1. letters(q) = <<>>
      BY <2>2
    <3>2. Boxes!FlattenSeq(letters(q)) = <<>>
      BY <3>1, FlattenNone
    <3> QED BY <2>1, <2>2, <3>2 DEF MailTo
  <2>3. CASE Matching[chan] = {t}
    <3>1. mail(q, t) = MailTo(toP, q, Letter(t, chan, data))
      BY <1>3, <2>3 DEF MailTo, Letter
    <3>2. order = <<t>>
      BY <2>3
    <3> HIDE DEF order, mail
    <3>3. DOMAIN order = {1} /\ order[1] = t
      BY <3>2
    <3>4. letters(q) = [i \in {1} |-> mail(q, t)]
      BY <3>3
    <3>5. letters(q) = <<mail(q, t)>>
      BY <3>4
    <3>6. letters(q)[1] = mail(q, t)
      BY <3>4
    <3> HIDE DEF letters
    <3>7. Boxes!FlattenSeq(letters(q)) = letters(q)[1]
      BY <3>5, <3>6, FlattenOne
    <3> QED BY <2>1, <3>1, <3>6, <3>7
  <2> QED BY <2>2, <2>3
<1> DEFINE box == [q \in Clients |-> Messages(db.messages[q])]
<1>7. box' = [q \in Clients |->
                box[q] \o mail(q, chan) \o Boxes!FlattenSeq(letters(q))]
  BY <1>6
<1>8. CASE box' = box
  <2>1. SameBoxes
    BY <1>8 DEF SameBoxes
  <2> QED BY <2>1, BoxesStutter
<1>9. CASE box' # box
  <2>1. Boxes!Publish(chan, data)
    <3> HIDE DEF to, order
    <3> QED BY <1>2, <1>4, <1>5, <1>7, <1>9 DEF Boxes!Publish, Living
  <2> QED BY <2>1 DEF Boxes!Next
<1> QED BY <1>8, <1>9

-----------------------------------------------------------------------------
(* The steps of a client that does not publish.  Each keeps the invariant  *)
(* and is a step of the boxes, or none.                                    *)
Delivered == DInv' /\ [Boxes!Next]_(Boxes!vars)

(* A client's connection is replaced by one that has not died either.      *)
LEMMA LivesOn ==
    ASSUME PInv, NEW c \in Clients, NEW r, h' = [h EXCEPT ![c] = r],
           r.pc # "gone", ~At(c, "gone")
    PROVE  Living' = Living
BY DEF PInv, ClientsTyped, Living, At

(* Only who publishes has a job.                                           *)
LEMMA Jobless ==
    ASSUME PInv, FInv, NEW c \in Clients, h[c].pc \notin Unrefreshed
    PROVE  h[c].job = NoJob /\ ClientTyped(h[c])
BY DEF PInv, ClientsTyped, FInv, FClient, Serves

LEMMA SubscribeDelivers ==
    ASSUME PInv, FInv, DInv, NEW c \in Clients, NEW ts \in SUBSET Topic, Subscribe(c, ts)
    PROVE  Delivered
<1> DEFINE r == [h[c] EXCEPT !.id = TRUE, !.pc = "count"]
           new == Added(db, c, ts)
<1>1. /\ Commit(c, new, r) /\ LockFree(c) /\ sent' = sent
      /\ At(c, "idle") /\ ~At(c, "gone")
  BY DEF Subscribe, At
<1>2. h[c].job = NoJob /\ ClientTyped(h[c])
  BY <1>1, Jobless DEF At, Unrefreshed
<1>3. r.job = NoJob /\ r.pc # "gone"
  BY <1>2 DEF ClientTyped
<1>4. Sound(db)
  BY DEF PInv
<1>5. new.messages = db.messages
  BY <1>4, AddedSound
<1>6. \A q \in Clients : Whole(new.messages[q])
  BY <1>5 DEF DInv
<1> HIDE DEF r, new
<1>7. DInv' /\ Living' = Living /\ db' = new
  BY <1>1, <1>3, <1>6, CommitDelivers
<1> QED BY <1>4, <1>7, BoxesSubscribe DEF new, Delivered

LEMMA RemoveDelivers ==
    ASSUME PInv, FInv, DInv, NEW c \in Clients, NEW ts \in SUBSET Topic, LockFree(c),
           NEW r, Commit(c, Removed(db, c, ts), r), sent' = sent,
           r.job = NoJob, r.pc # "gone", ~At(c, "gone")
    PROVE  Delivered
<1> DEFINE new == Removed(db, c, ts)
<1>1. Sound(db)
  BY DEF PInv
<1>2. new.messages = db.messages
  BY <1>1, RemovedSound
<1>3. \A q \in Clients : Whole(new.messages[q])
  BY <1>2 DEF DInv
<1> HIDE DEF new
<1>4. DInv' /\ Living' = Living /\ db' = new
  BY <1>3, CommitDelivers DEF new
<1> QED BY <1>1, <1>4, BoxesUnsubscribe DEF new, Delivered

LEMMA ReceiveDelivers ==
    ASSUME PInv, FInv, DInv, NEW c \in Clients, NEW r, LockFree(c), Waiting(c),
           Commit(c, Received(c), r), sent' = sent,
           r.job = NoJob, r.pc # "gone", ~At(c, "gone")
    PROVE  Delivered
<1>1. Sound(db) /\ \A q \in Clients : Whole(db.messages[q])
  BY DEF PInv, DInv
<1>2. /\ Whole(Received(c).messages[c])
      /\ \A q \in Clients \ {c} : Received(c).messages[q] = db.messages[q]
  <2>1. /\ Received(c).messages = [db.messages EXCEPT ![c] = Popped(@)]
        /\ db.messages = [q \in Clients |-> db.messages[q]]
    BY <1>1 DEF Received, Sound, DbTyped
  <2>2. Whole(Popped(db.messages[c]))
    BY <1>1, Polled DEF Waiting
  <2> QED BY <2>1, <2>2
<1>3. \A q \in Clients : Whole(Received(c).messages[q])
  BY <1>1, <1>2
<1>4. DInv' /\ Living' = Living /\ db' = Received(c)
  BY <1>3, CommitDelivers
<1> QED BY <1>1, <1>4, BoxesTake DEF Delivered

(* A step that leaves the file as it is *)
LEMMA KeptDelivers ==
    ASSUME PInv, FInv, DInv, NEW c \in Clients, NEW holder, NEW r, LockFree(c),
           Keep(holder, db), sent' = sent, h' = [h EXCEPT ![c] = r],
           r.job = NoJob, r.pc # "gone", ~At(c, "gone")
    PROVE  Delivered
<1>1. DInv' /\ db' = db
  BY KeepDelivers
<1>2. Living' = Living
  BY LivesOn
<1>3. SameBoxes
  BY <1>1 DEF SameBoxes
<1> QED BY <1>1, <1>2, <1>3, BoxesStutter DEF Delivered

LEMMA QuietDelivers ==
    ASSUME PInv, FInv, DInv, NEW c \in Clients, NEW r, UNCHANGED <<db, work, lock, sent>>,
           h' = [h EXCEPT ![c] = r], r.job = NoJob, h[c].job = NoJob,
           r.pc # "gone", ~At(c, "gone")
    PROVE  Delivered
<1>1. DInv'
  BY StillDelivers
<1>2. Living' = Living
  BY LivesOn
<1>3. SameBoxes
  BY DEF SameBoxes
<1> QED BY <1>1, <1>2, <1>3, BoxesStutter DEF Delivered

LEMMA WaitDelivers ==
    ASSUME PInv, FInv, DInv, NEW c \in Clients, NEW wait,
           At(c, "idle") \/ At(c, "no reply"), Wait(c, wait)
    PROVE  Delivered
<1>1. /\ ~At(c, "gone") /\ h[c].job = NoJob /\ ClientTyped(h[c])
      /\ LockFree(c) /\ sent' = sent
  BY Jobless DEF At, Unrefreshed, Wait
<1>2. CASE h[c].id /\ Waiting(c)
  <2> DEFINE r == [h[c] EXCEPT !.pc = "idle"]
  <2>1. Commit(c, Received(c), r)
    BY <1>2 DEF Wait
  <2>2. r.job = NoJob /\ r.pc # "gone"
    BY <1>1 DEF ClientTyped
  <2> HIDE DEF r
  <2> QED BY <1>1, <1>2, <2>1, <2>2, ReceiveDelivers
<1>3. CASE ~(h[c].id /\ Waiting(c))
  <2> DEFINE r == [h[c] EXCEPT !.id = TRUE, !.wait = wait, !.pc = "create"]
  <2>1. h' = [h EXCEPT ![c] = r] /\ Keep(None, db)
    BY <1>3 DEF Wait
  <2>2. r.job = NoJob /\ r.pc # "gone"
    BY <1>1 DEF ClientTyped
  <2> HIDE DEF r
  <2> QED BY <1>1, <2>1, <2>2, KeptDelivers
<1> QED BY <1>2, <1>3

-----------------------------------------------------------------------------
(* The steps of a publication up to its commit, none of them one of the    *)
(* boxes: nothing is committed, nobody dies, and it is a publication still.*)
LEMMA LostStays ==
    ASSUME PInv, db' = db, \A q \in Clients : At(q, "gone") => At(q, "gone")',
           NEW t \in Topic
    PROVE  /\ Lost(t) => Lost(t)'
           /\ \A to, left : Reached(t, to, left) => Reached(t, to, left)'
<1>1. ASSUME Lost(t) PROVE Lost(t)'
  <2>1. PICK q \in db.subs[t] : At(q, "gone")
    BY <1>1 DEF Lost
  <2>2. q \in Clients
    BY DEF PInv, Sound, DbTyped
  <2> QED BY <2>1, <2>2 DEF Lost
<1> QED BY <1>1 DEF Reached

LEMMA GoesOn ==
    ASSUME PInv, FInv, DInv, NEW c \in Clients, LockFree(c), ~At(c, "gone"),
           db' = db, lock' = c, sent' \in Nat,
           \A q \in Clients \ {c} : h'[q].job = h[q].job /\ (At(q, "gone")' <=> At(q, "gone")),
           h'[c].pc # "gone", h'[c].job # NoJob, Publishing(c)'
    PROVE  Delivered
<1>1. \A q \in Clients \ {c} : h'[q].job = NoJob
  BY OneJob
<1>2. DInv'
  BY <1>1 DEF DInv
<1>3. Living' = Living
  BY DEF Living, At
<1>4. SameBoxes
  BY DEF SameBoxes
<1> QED BY <1>2, <1>3, <1>4, BoxesStutter DEF Delivered

LEMMA PublishDelivers ==
    ASSUME PInv, FInv, DInv, NEW c \in Clients, NEW chan \in Channels, Publish(c, chan)
    PROVE  Delivered
<1>1. PICK j : j = [chan |-> chan, data |-> sent', topic |-> chan, left |-> db.subs[chan],
                    db |-> "messages", last |-> FALSE, torn |-> FALSE]
  OBVIOUS
<1> DEFINE r == [h[c] EXCEPT !.pc = "publish", !.job = j]
<1>2. /\ At(c, "idle") /\ LockFree(c) /\ sent < MaxMessages /\ sent' = sent + 1
      /\ h' = [h EXCEPT ![c] = r] /\ Keep(c, db)
  BY <1>1 DEF Publish, PInv, ClientsTyped
<1>3. /\ db' = db /\ work' = db /\ lock' = c
  BY <1>2, NoneAssumption DEF Keep
<1>4. /\ j.chan = chan /\ j.topic = chan /\ j.left = db.subs[chan] /\ j.db = "messages"
      /\ ~j.last /\ ~j.torn /\ j.data = sent' /\ j # NoJob
  <2>1. "data" \in DOMAIN j /\ "data" \notin DOMAIN NoJob
    BY <1>1 DEF NoJob
  <2> QED BY <1>1, <2>1
<1>5. sent' \in Data /\ sent' \in Nat
  BY <1>2, MaxMessagesAssumption DEF DInv, Data
<1>6. /\ h'[c].pc = "publish" /\ h'[c].job = j
      /\ \A q \in Clients \ {c} : h'[q] = h[q]
  BY <1>2 DEF PInv, ClientsTyped, ClientTyped
<1>7. Sent(j, {}, {})'
  <2>1. \A m \in Clients : db.messages[m] = db.messages[m] \o <<>>
    BY NoMail DEF DInv
  <2> QED BY <1>3, <2>1 DEF Sent, MailTo
<1>8. Reached(chan, {}, db.subs[chan])'
  BY <1>3 DEF Reached
<1>9. Halfway(j, {}, {})'
  BY <1>3, <1>4, <1>7, <1>8 DEF Halfway
<1>10. Publishing(c)'
  BY <1>3, <1>4, <1>5, <1>6, <1>9 DEF Publishing, At
<1> QED BY <1>2, <1>3, <1>4, <1>5, <1>6, <1>10, GoesOn DEF At

(* What is known of a publication                                          *)
LEMMA JobState ==
    ASSUME PInv, FInv, DInv, NEW c \in Clients, h[c].job # NoJob
    PROVE  LET j == h[c].job
           IN /\ lock = c /\ View(c) = work /\ LockFree(c) /\ ~At(c, "gone")
              /\ ClientTyped(h[c]) /\ j = [f \in JobFields |-> j[f]]
              /\ j.chan \in Channels /\ j.topic \in Topic
              /\ j.topic = j.chan \/ j.topic \in Patterns
              /\ ~j.torn /\ j.data \in Data /\ j.left \subseteq db.subs[j.topic]
              /\ \/ At(c, "publish") /\ j.db = "messages"
                 \/ Lost(j.topic)
              /\ \E toC, toP \in SUBSET Clients : Halfway(j, toC, toP)
              /\ Sound(work) /\ Sound(db) /\ work.subs = db.subs
<1>1. Publishing(c) /\ Serves(c)
  BY DEF DInv, FInv, FClient
<1>2. ~At(c, "gone")
  BY <1>1 DEF Serves, Unrefreshed, At
<1> QED BY <1>1, <1>2, JobTopics, JobFacts DEF Publishing, View, LockFree, PInv, ClientsTyped, FInv

(* A member without an id has died.                                        *)
LEMMA DeadMember ==
    ASSUME PInv, FInv, NEW t \in Topic, NEW m \in db.subs[t], ~Alive(m)
    PROVE  Lost(t)
<1>1. m \in Clients /\ t \in db.own[m]
  BY DEF PInv, Sound, DbTyped, Agree
<1>2. At(m, "gone")
  BY <1>1 DEF FInv, FClient, OwnTopics, Alive
<1> QED BY <1>2 DEF Lost

(* A member left to serve is served, or passed by when one has died.       *)
LEMMA ReachedMore ==
    ASSUME NEW t, NEW to, NEW left, NEW m \in left, left \subseteq db.subs[t],
           Reached(t, to, left)
    PROVE  Reached(t, to \cup {m}, left \ {m}) /\ m \notin to
<1>1. to \subseteq db.subs[t] \ left /\ (db.subs[t] \subseteq to \cup left \/ Lost(t))
  BY DEF Reached
<1> HIDE DEF Lost
<1>2. /\ to \cup {m} \subseteq db.subs[t] \ (left \ {m})
      /\ db.subs[t] \subseteq (to \cup {m}) \cup (left \ {m}) \/ Lost(t)
      /\ m \notin to
  BY <1>1
<1> QED BY <1>2 DEF Reached

LEMMA ReachedLess ==
    ASSUME NEW t, NEW to, NEW left, NEW less, less \subseteq left, Lost(t),
           Reached(t, to, left)
    PROVE  Reached(t, to, less)
<1>1. to \subseteq db.subs[t] \ left
  BY DEF Reached
<1>2. to \subseteq db.subs[t] \ less
  BY <1>1
<1> QED BY <1>2 DEF Reached

(* A member is served: it is one more that has the message.                *)
LEMMA MemberSent ==
    ASSUME PInv, FInv, DInv, NEW c \in Clients, h[c].job # NoJob, NEW m \in h[c].job.left,
           NEW k, k = [h[c].job EXCEPT !.left = @ \ {m}], db' = db,
           work'.messages = [work.messages EXCEPT ![m] = @ \o Elements(h[c].job)],
           \A q \in Clients : At(q, "gone") => At(q, "gone")'
    PROVE  \E toC, toP \in SUBSET Clients : Halfway(k, toC, toP)'
<1> DEFINE j == h[c].job
           mailC == Mail(j.chan, j.chan, j.data)
           mailP == Mail(j.topic, j.chan, j.data)
<1>1. /\ j = [f \in JobFields |-> j[f]]
      /\ j.chan \in Channels /\ j.topic \in Topic
      /\ j.topic = j.chan \/ j.topic \in Patterns
      /\ j.data \in Data /\ j.left \subseteq db.subs[j.topic] /\ Sound(work)
      /\ j.chan \in Topic
  BY JobState DEF Topic
<1>2. PICK toC \in SUBSET Clients, toP \in SUBSET Clients : Halfway(j, toC, toP)
  BY JobState
<1>3. m \in Clients /\ m \in j.left
  <2>1. db.subs \in [Topic -> SUBSET Clients]
    BY DEF PInv, Sound, DbTyped
  <2>2. m \in db.subs[j.topic]
    BY <1>1
  <2> QED BY <1>1, <2>1, <2>2
<1>4. /\ k.chan = j.chan /\ k.data = j.data /\ k.topic = j.topic /\ k.last = j.last
      /\ k.left = j.left \ {m}
  BY <1>1 DEF JobFields
<1>5. /\ work'.messages[m] = work.messages[m] \o mailP
      /\ \A q \in Clients \ {m} : work'.messages[q] = work.messages[q]
  <2>1. mailP = Elements(j)
    BY DEF Mail, Elements
  <2>2. work.messages = [q \in Clients |-> work.messages[q]]
    BY <1>1 DEF Sound, DbTyped
  <2> HIDE DEF mailP
  <2> QED BY <1>3, <2>1, <2>2
<1>6. \A q \in Clients : Whole(db.messages[q])
  BY DEF DInv
<1>7. \A t \in {j.chan, j.topic} :
         \A to, left : Reached(t, to, left) => Reached(t, to, left)'
  <2>1. ASSUME NEW t \in Topic
        PROVE  \A to, left : Reached(t, to, left) => Reached(t, to, left)'
    BY LostStays
  <2> QED BY <1>1, <2>1
<1> HIDE DEF j
<1>m. ASSUME NEW list, Whole(list)
      PROVE  Whole(list \o mailC) /\ \A to, q : Whole(list \o MailTo(to, q, mailC))
  <2>1. Whole(list \o mailC)
    BY <1>1, <1>m, MailWhole
  <2>2. ASSUME NEW to, NEW q PROVE Whole(list \o MailTo(to, q, mailC))
    BY <1>1, <1>m, MailToWhole DEF Posted
  <2> QED BY <2>1, <2>2
<1> HIDE DEF mailC, mailP
<1>8. \A q \in Clients :
         work.messages[q] = (db.messages[q] \o MailTo(toC, q, mailC)) \o MailTo(toP, q, mailP)
  BY <1>2 DEF Halfway, Sent, mailC, mailP
<1>9. CASE j.last
  <2>1. /\ j.topic \in Matching[j.chan]
        /\ Reached(j.chan, toC, {}) /\ Reached(j.topic, toP, j.left)
    BY <1>2, <1>9 DEF Halfway
  <2>t. j.left \subseteq db.subs[j.topic] /\ Reached(j.topic, toP, j.left) /\ m \in j.left
    BY <1>1, <1>3, <2>1
  <2>s. Reached(j.topic, toP \cup {m}, j.left \ {m}) /\ m \notin toP
    BY ONLY <2>t, ReachedMore
  <2>2. Reached(j.topic, toP \cup {m}, j.left \ {m})
    BY <2>s
  <2>3. m \notin toP
    BY <2>s
  <2>4. ASSUME NEW q \in Clients
        PROVE  work'.messages[q] = (db.messages[q] \o MailTo(toC, q, mailC))
                                      \o MailTo(toP \cup {m}, q, mailP)
    <3>1. CASE q # m
      BY <1>5, <1>8, <3>1 DEF MailTo
    <3>2. CASE q = m
      <4>1. Whole(db.messages[m] \o MailTo(toC, m, mailC))
        BY <1>3, <1>6, <1>m
      <4>2. work.messages[m] = db.messages[m] \o MailTo(toC, m, mailC)
        BY <1>3, <1>8, <2>3, <4>1, NoMail DEF MailTo
      <4> QED BY <1>5, <3>2, <4>2 DEF MailTo
    <3> QED BY <3>1, <3>2
  <2>5. Sent(k, toC, toP \cup {m})'
    BY <1>4, <2>4 DEF Sent, mailC, mailP
  <2>6. Halfway(k, toC, toP \cup {m})'
    BY <1>4, <1>7, <1>9, <2>1, <2>2, <2>5 DEF Halfway
  <2> QED BY <1>3, <2>6
<1>10. CASE ~j.last
  <2>1. /\ j.topic = j.chan /\ toP = {}
        /\ Reached(j.chan, toC, j.left)
    BY <1>2, <1>10 DEF Halfway
  <2>t. j.left \subseteq db.subs[j.chan] /\ Reached(j.chan, toC, j.left) /\ m \in j.left
    BY <1>1, <1>3, <2>1
  <2>s. Reached(j.chan, toC \cup {m}, j.left \ {m}) /\ m \notin toC
    BY ONLY <2>t, ReachedMore
  <2>2. Reached(j.chan, toC \cup {m}, j.left \ {m})
    BY <2>s
  <2>3. m \notin toC
    BY <2>s
  <2>4. ASSUME NEW q \in Clients
        PROVE  work'.messages[q] = (db.messages[q] \o MailTo(toC \cup {m}, q, mailC))
                                      \o MailTo({}, q, mailP)
    <3>1. CASE q # m
      BY <1>5, <1>8, <2>1, <3>1 DEF MailTo
    <3>2. CASE q = m
      <4>1. work.messages[m] = db.messages[m]
        <5>1. MailTo(toC, m, mailC) = <<>> /\ MailTo(toP, m, mailP) = <<>>
          BY <2>1, <2>3 DEF MailTo
        <5>2. work.messages[m] = (db.messages[m] \o <<>>) \o <<>>
          BY <1>3, <1>8, <5>1
        <5>3. db.messages[m] \o <<>> = db.messages[m]
          BY <1>3, <1>6, NoMail
        <5> QED BY <5>2, <5>3, Zenon
      <4>2. Whole(db.messages[m] \o mailC)
        BY <1>3, <1>6, <1>m
      <4>3. (db.messages[m] \o mailC) \o <<>> = db.messages[m] \o mailC
        BY <4>2, NoMail
      <4>4. mailC = mailP
        BY <2>1 DEF mailC, mailP
      <4>5. MailTo(toC \cup {m}, m, mailC) = mailC /\ MailTo({}, m, mailP) = <<>>
        BY DEF MailTo
      <4> QED BY <1>5, <3>2, <4>1, <4>3, <4>4, <4>5, Zenon
    <3> QED BY <3>1, <3>2
  <2>5. Sent(k, toC \cup {m}, {})'
    BY <1>4, <2>4 DEF Sent, mailC, mailP
  <2>6. Halfway(k, toC \cup {m}, {})'
    BY <1>4, <1>7, <1>10, <2>1, <2>2, <2>5 DEF Halfway
  <2> QED BY <1>3, <2>6
<1> QED BY <1>9, <1>10

(* A member is passed by, when one of its topic has died.                  *)
LEMMA MemberMissed ==
    ASSUME PInv, FInv, DInv, NEW c \in Clients, h[c].job # NoJob, Lost(h[c].job.topic),
           NEW k, k.chan = h[c].job.chan, k.data = h[c].job.data, k.topic = h[c].job.topic,
           k.last = h[c].job.last, k.left \subseteq h[c].job.left,
           db' = db, work'.messages = work.messages,
           \A q \in Clients : At(q, "gone") => At(q, "gone")'
    PROVE  \E toC, toP \in SUBSET Clients : Halfway(k, toC, toP)'
<1> DEFINE j == h[c].job
<1>1. j.chan \in Topic /\ j.topic \in Topic
  BY JobState DEF Topic
<1>2. PICK toC \in SUBSET Clients, toP \in SUBSET Clients : Halfway(j, toC, toP)
  BY JobState
<1>3. \A t \in {j.chan, j.topic} :
         \A to, left : Reached(t, to, left) => Reached(t, to, left)'
  BY <1>1, LostStays
<1>4. \A to : Reached(j.topic, to, j.left) => Reached(j.topic, to, k.left)
  BY ReachedLess
<1>5. Sent(k, toC, toP)'
  BY <1>2 DEF Halfway, Sent
<1>6. Halfway(k, toC, toP)'
  BY <1>2, <1>3, <1>4, <1>5 DEF Halfway
<1> QED BY <1>6

(* A publication stays one while one of its fields is changed.             *)
LEMMA StillJob ==
    ASSUME NEW j, NEW k, j = [f \in JobFields |-> j[f]], NEW x,
           \/ k = [j EXCEPT !.left = x]
           \/ k = [j EXCEPT !.db = x]
    PROVE  /\ k # NoJob
           /\ k.chan = j.chan /\ k.data = j.data /\ k.topic = j.topic
           /\ k.last = j.last /\ k.torn = j.torn
<1>1. DOMAIN k = JobFields
  BY DEF JobFields
<1>2. "data" \in DOMAIN k /\ "data" \notin DOMAIN NoJob
  BY <1>1 DEF JobFields, NoJob
<1> QED BY <1>2 DEF JobFields

LEMMA SendDelivers ==
    ASSUME PInv, FInv, DInv, NEW c \in Clients, NEW m \in Clients, Send(c, m)
    PROVE  Delivered
<1> DEFINE j == h[c].job
           s == Signalled(m)
<1>1. /\ At(c, "publish") /\ LockFree(c) /\ m \in j.left /\ sent' = sent
      /\ h[c].pc = "publish"
  BY DEF Send, At
<1>2. j # NoJob
  BY <1>1 DEF FInv, FClient, Serves
<1>3. /\ View(c) = work /\ ~At(c, "gone") /\ Sound(work)
      /\ ClientTyped(h[c]) /\ j = [f \in JobFields |-> j[f]]
      /\ j.topic \in Topic /\ ~j.torn /\ j.data \in Data /\ j.left \subseteq db.subs[j.topic]
      /\ j.db = "messages" \/ Lost(j.topic)
  BY <1>2, JobState
<1>4. PICK k : k = [j EXCEPT !.left = @ \ {m}]
  OBVIOUS
<1>5. /\ k # NoJob /\ k.topic = j.topic /\ k.chan = j.chan /\ k.data = j.data
      /\ k.last = j.last /\ ~k.torn /\ k.db = j.db /\ k.left = j.left \ {m}
  <2> DEFINE x == j.left \ {m}
  <2>1. k = [j EXCEPT !.left = x]
    BY <1>4
  <2>2. k.left = x /\ k.db = j.db
    BY <1>3, <2>1 DEF JobFields
  <2> HIDE DEF x, j
  <2>3. /\ k # NoJob /\ k.topic = j.topic /\ k.chan = j.chan /\ k.data = j.data
        /\ k.last = j.last /\ k.torn = j.torn
    BY <1>3, <2>1, StillJob
  <2> QED BY <1>3, <2>2, <2>3 DEF x
<1>6. /\ s = [q \in Clients |-> s[q]]
      /\ \A q \in Clients \ {m} : s[q] = h[q]
      /\ s[m] = IF h[m].pc = "asleep" THEN [h[m] EXCEPT !.pc = "woken"]
                ELSE IF h[m].pc = "create" THEN [h[m] EXCEPT !.missed = TRUE]
                ELSE h[m]
  BY DEF Signalled, PInv, ClientsTyped
<1>7. s[c] = h[c]
  BY <1>1, <1>6
<1>8. /\ \A q \in Clients \ {c} : h'[q] = s[q]
      /\ h'[c] = [h[c] EXCEPT !.job = k]
  <2>1. h' = [s EXCEPT ![c].job.left = s[c].job.left \ {m}]
    BY DEF Send
  <2> HIDE DEF s
  <2>2. h'[c] = [s[c] EXCEPT !.job.left = s[c].job.left \ {m}]
    BY <1>6, <2>1
  <2>3. \A q \in Clients \ {c} : h'[q] = s[q]
    BY <1>6, <2>1
  <2> QED BY <1>4, <1>7, <2>2, <2>3
<1> HIDE DEF s
<1>9. h'[c].pc = "publish" /\ h'[c].job = k
  BY <1>1, <1>3, <1>8 DEF ClientTyped
<1>10. \A q \in Clients \ {c} :
          h'[q].job = h[q].job /\ (At(q, "gone")' <=> At(q, "gone"))
  <2>1. ASSUME NEW q \in Clients \ {c}
        PROVE  h'[q].job = h[q].job /\ (h'[q].pc = "gone" <=> h[q].pc = "gone")
    <3>1. ClientTyped(h[q])
      BY DEF PInv, ClientsTyped
    <3>2. \/ h'[q] = h[q]
          \/ h'[q] = [h[q] EXCEPT !.pc = "woken"] /\ h[q].pc = "asleep"
          \/ h'[q] = [h[q] EXCEPT !.missed = TRUE]
      BY <1>6, <1>8
    <3> QED BY <3>1, <3>2 DEF ClientTyped
  <2> QED BY <2>1 DEF At
<1>11. \A q \in Clients : At(q, "gone") => At(q, "gone")'
  BY <1>3, <1>10
<1>12. db' = db /\ lock' = c
  BY NoneAssumption DEF Send, Keep
<1>13. Lost(k.topic) => Lost(k.topic)'
  BY <1>3, <1>5, <1>11, <1>12, LostStays
<1>14. \E toC, toP \in SUBSET Clients : Halfway(k, toC, toP)'
  <2>1. CASE j.db = "messages"
    <3>1. work' = [work EXCEPT !.messages[m] = @ \o Elements(j)]
      BY <1>3, <2>1, NoneAssumption DEF Send, Keep
    <3>2. work'.messages = [work.messages EXCEPT ![m] = @ \o Elements(j)]
      BY <1>3, <3>1 DEF Sound, DbTyped
    <3> QED BY <1>1, <1>2, <1>4, <1>11, <1>12, <3>2, MemberSent
  <2>2. CASE j.db # "messages"
    <3>1. work' = [work EXCEPT !.user[m] = @ \o Elements(j)]
      BY <1>3, <2>2, NoneAssumption DEF Send, Keep
    <3>2. work'.messages = work.messages
      BY <1>3, <3>1 DEF Sound, DbTyped
    <3>3. Lost(j.topic) /\ k.left \subseteq j.left
      BY <1>3, <1>5, <2>2
    <3> QED BY <1>2, <1>5, <1>11, <1>12, <3>2, <3>3, MemberMissed
  <2> QED BY <2>1, <2>2
<1>15. Publishing(c)'
  BY <1>3, <1>5, <1>9, <1>12, <1>13, <1>14 DEF Publishing, At
<1>16. sent' \in Nat
  BY <1>1 DEF DInv
<1> QED BY <1>1, <1>3, <1>5, <1>9, <1>10, <1>12, <1>15, <1>16, GoesOn

(* A member that has died is passed by.                                    *)
LEMMA CleanUpDelivers ==
    ASSUME PInv, FInv, DInv, NEW c \in Clients, NEW m \in Clients, CleanUp(c, m)
    PROVE  Delivered
<1> DEFINE j == h[c].job
<1>1. /\ At(c, "publish") /\ LockFree(c) /\ m \in j.left /\ ~Alive(m) /\ sent' = sent
  BY DEF CleanUp
<1>2. j # NoJob
  BY <1>1 DEF FInv, FClient, Serves
<1>3. /\ View(c) = work /\ ~At(c, "gone") /\ Sound(work)
      /\ ClientTyped(h[c]) /\ j = [f \in JobFields |-> j[f]]
      /\ j.topic \in Topic /\ ~j.torn /\ j.data \in Data /\ j.left \subseteq db.subs[j.topic]
  BY <1>2, JobState
<1>4. PICK k : k = [j EXCEPT !.left = @ \ {m}]
  OBVIOUS
<1>5. /\ k # NoJob /\ k.topic = j.topic /\ k.chan = j.chan /\ k.data = j.data
      /\ k.last = j.last /\ ~k.torn /\ k.left = j.left \ {m}
  <2> DEFINE x == j.left \ {m}
  <2>1. k = [j EXCEPT !.left = x]
    BY <1>4
  <2>2. k.left = x
    BY <1>3, <2>1 DEF JobFields
  <2> HIDE DEF x, j
  <2>3. /\ k # NoJob /\ k.topic = j.topic /\ k.chan = j.chan /\ k.data = j.data
        /\ k.last = j.last /\ k.torn = j.torn
    BY <1>3, <2>1, StillJob
  <2> QED BY <1>3, <2>2, <2>3 DEF x
<1>6. /\ \A q \in Clients \ {c} : h'[q] = h[q]
      /\ h'[c] = [h[c] EXCEPT !.pc = "unsubscribe channels", !.whom = m, !.job = k]
  BY <1>3, <1>4 DEF CleanUp, PInv, ClientsTyped, ClientTyped
<1>7. h'[c].pc = "unsubscribe channels" /\ h'[c].job = k
  BY <1>3, <1>6 DEF ClientTyped
<1>8. db' = db /\ lock' = c /\ work' = work
  BY <1>3, NoneAssumption DEF CleanUp, Keep
<1>9. \A q \in Clients : At(q, "gone") => At(q, "gone")'
  BY <1>3, <1>6 DEF At
<1>10. Lost(j.topic)
  BY <1>1, <1>3, DeadMember
<1>11. Lost(k.topic)'
  BY <1>3, <1>5, <1>8, <1>9, <1>10, LostStays
<1>12. \E toC, toP \in SUBSET Clients : Halfway(k, toC, toP)'
  <2>1. k.left \subseteq j.left /\ work'.messages = work.messages
    BY <1>5, <1>8
  <2> QED BY <1>2, <1>5, <1>8, <1>9, <1>10, <2>1, MemberMissed
<1>13. Publishing(c)'
  BY <1>3, <1>5, <1>7, <1>8, <1>11, <1>12 DEF Publishing
<1>14. sent' \in Nat
  BY <1>1 DEF DInv
<1> QED BY <1>1, <1>3, <1>5, <1>6, <1>7, <1>8, <1>13, <1>14, GoesOn DEF At

(* The channel's members are served, and a pattern's follow.               *)
LEMMA NextTopicDelivers ==
    ASSUME PInv, FInv, DInv, NEW c \in Clients, NextTopic(c)
    PROVE  Delivered
<1> DEFINE j == h[c].job
<1>1. /\ At(c, "publish") /\ LockFree(c) /\ j.left = {} /\ ~j.last /\ sent' = sent
  BY DEF NextTopic
<1>2. j # NoJob
  BY <1>1 DEF FInv, FClient, Serves
<1>3. /\ View(c) = work /\ work.subs = db.subs /\ ~At(c, "gone")
      /\ ClientTyped(h[c]) /\ j = [f \in JobFields |-> j[f]]
      /\ j.chan \in Channels /\ ~j.torn /\ j.data \in Data
  BY <1>2, JobState
<1>4. PICK t \in Matching[j.chan] :
         h' = [h EXCEPT ![c].job = [@ EXCEPT !.topic = t, !.left = View(c).subs[t],
                                             !.db = "messages", !.last = TRUE]]
  BY DEF NextTopic
<1>5. PICK k : k = [j EXCEPT !.topic = t, !.left = db.subs[t], !.db = "messages", !.last = TRUE]
  OBVIOUS
<1>6. /\ k.topic = t /\ k.left = db.subs[t] /\ k.db = "messages" /\ k.last
      /\ k.chan = j.chan /\ k.data = j.data /\ ~k.torn
      /\ k # NoJob
  <2>1. DOMAIN k = JobFields
    BY <1>3, <1>5 DEF JobFields
  <2>2. "data" \in DOMAIN k /\ "data" \notin DOMAIN NoJob
    BY <2>1 DEF JobFields, NoJob
  <2> QED BY <1>3, <1>5, <2>2 DEF JobFields
<1>7. /\ \A q \in Clients \ {c} : h'[q] = h[q]
      /\ h'[c] = [h[c] EXCEPT !.job = k]
  BY <1>3, <1>4, <1>5 DEF PInv, ClientsTyped
<1>8. h'[c].pc = "publish" /\ h'[c].job = k
  BY <1>1, <1>3, <1>7 DEF ClientTyped, At
<1>9. db' = db /\ lock' = c /\ work' = work
  BY <1>3, NoneAssumption DEF NextTopic, Keep
<1>10. \A q \in Clients : At(q, "gone") => At(q, "gone")'
  BY <1>3, <1>7 DEF At
<1>11. PICK toC \in SUBSET Clients, toP \in SUBSET Clients : Halfway(j, toC, toP)
  BY <1>2, JobState
<1>12. toP = {} /\ Reached(k.chan, toC, {})
  BY <1>1, <1>6, <1>11 DEF Halfway
<1>13. Reached(k.chan, toC, {})'
  <2>1. k.chan \in Topic
    BY <1>3, <1>6 DEF Topic
  <2> QED BY <1>9, <1>10, <1>12, <2>1, LostStays
<1>14. Reached(k.topic, {}, k.left)'
  BY <1>6, <1>9 DEF Reached
<1>15. Sent(k, toC, {})'
  <2>1. Sent(j, toC, {})
    BY <1>11, <1>12 DEF Halfway
  <2> QED BY <1>6, <1>9, <2>1 DEF Sent, MailTo
<1>16. Halfway(k, toC, {})'
  BY <1>6, <1>13, <1>14, <1>15 DEF Halfway
<1>17. Publishing(c)'
  BY <1>3, <1>6, <1>8, <1>9, <1>16 DEF Publishing, At
<1>18. sent' \in Nat
  BY <1>1 DEF DInv
<1> QED BY <1>1, <1>3, <1>6, <1>7, <1>8, <1>9, <1>17, <1>18, GoesOn DEF At

(* The clean-up after a dead subscriber, by a publisher without an id      *)
LEMMA CleaningDelivers ==
    ASSUME PInv, FInv, DInv, Apart, NEW c \in Clients, h[c].job # NoJob,
           UnsubscribeChannels(c) \/ UnsubscribePatterns(c)
    PROVE  Delivered
<1> DEFINE j == h[c].job
<1>1. ~At(c, "publish") /\ sent' = sent
  BY DEF UnsubscribeChannels, UnsubscribePatterns, UnsubscribeType, At
<1>2. ~h[c].id
  BY <1>1 DEF Apart
<1>3. /\ View(c) = work /\ LockFree(c) /\ ~At(c, "gone") /\ Lost(j.topic)
      /\ ClientTyped(h[c]) /\ j = [f \in JobFields |-> j[f]]
      /\ j.topic \in Topic /\ ~j.torn /\ j.data \in Data /\ j.left \subseteq db.subs[j.topic]
  BY <1>1, JobState
<1> DEFINE channels == [h[c] EXCEPT !.pc = "unsubscribe patterns"]
           patterns == [h[c] EXCEPT !.pc = "publish", !.whom = None, !.job.db = "user"]
<1>4. PICK r : /\ r = channels \/ r = patterns
               /\ h' = [h EXCEPT ![c] = r] /\ Keep(c, View(c))
  BY <1>2 DEF UnsubscribeChannels, UnsubscribePatterns, UnsubscribeType
<1>5. PICK k : k = r.job
  OBVIOUS
<1>6. /\ r.pc # "gone" /\ k # NoJob
      /\ k.topic = j.topic /\ k.chan = j.chan /\ k.data = j.data
      /\ k.last = j.last /\ ~k.torn /\ k.left = j.left
  <2>1. CASE r = channels
    BY <1>3, <1>5, <2>1 DEF ClientTyped
  <2>2. CASE r = patterns
    <3>1. k = [j EXCEPT !.db = "user"] /\ r.pc = "publish"
      BY <1>3, <1>5, <2>2 DEF ClientTyped
    <3>2. k.left = j.left
      BY <1>3, <3>1 DEF JobFields
    <3>3. /\ k # NoJob /\ k.topic = j.topic /\ k.chan = j.chan /\ k.data = j.data
          /\ k.last = j.last /\ k.torn = j.torn
      <4> HIDE DEF j
      <4> QED BY <1>3, <3>1, StillJob
    <3> QED BY <1>3, <3>1, <3>2, <3>3
  <2> QED BY <1>4, <2>1, <2>2
<1> HIDE DEF channels, patterns
<1>7. h'[c] = r /\ \A q \in Clients \ {c} : h'[q] = h[q]
  BY <1>4 DEF PInv, ClientsTyped
<1>8. db' = db /\ lock' = c /\ work' = work
  BY <1>3, <1>4, NoneAssumption DEF Keep
<1>9. \A q \in Clients : At(q, "gone") => At(q, "gone")'
  BY <1>3, <1>7 DEF At
<1>10. Lost(k.topic)'
  BY <1>3, <1>6, <1>8, <1>9, LostStays
<1>11. \E toC, toP \in SUBSET Clients : Halfway(k, toC, toP)'
  <2>1. k.left \subseteq j.left /\ work'.messages = work.messages
    BY <1>6, <1>8
  <2> QED BY <1>3, <1>6, <1>8, <1>9, <2>1, MemberMissed
<1>12. Publishing(c)'
  BY <1>3, <1>5, <1>6, <1>7, <1>8, <1>10, <1>11 DEF Publishing
<1>13. sent' \in Nat
  BY <1>1 DEF DInv
<1> QED BY <1>3, <1>5, <1>6, <1>7, <1>8, <1>12, <1>13, GoesOn DEF At

(* At its commit a publication is in all boxes at once.                    *)
OneMatch == \A chan \in Channels : \A t \in Matching[chan] : Matching[chan] = {t}

LEMMA EndPublishDelivers ==
    ASSUME OneMatch, PInv, FInv, DInv, NEW c \in Clients, EndPublish(c)
    PROVE  Delivered
<1> DEFINE j == h[c].job
           r == [h[c] EXCEPT !.pc = "idle", !.job = NoJob, !.stale = FALSE]
<1>1. /\ At(c, "publish") /\ LockFree(c) /\ Commit(c, View(c), r) /\ sent' = sent
      /\ j.torn \/ (j.left = {} /\ (j.last \/ \A t \in Matching[j.chan] : View(c).subs[t] = {}))
  BY DEF EndPublish
<1>2. j # NoJob
  BY <1>1 DEF FInv, FClient, Serves
<1>3. /\ View(c) = work /\ work.subs = db.subs /\ ~At(c, "gone") /\ Sound(db)
      /\ ClientTyped(h[c])
      /\ j.chan \in Channels /\ ~j.torn /\ j.data \in Data
      /\ j.topic = j.chan \/ j.topic \in Patterns
  BY <1>2, JobState
<1>4. r.job = NoJob /\ r.pc # "gone"
  BY <1>3 DEF ClientTyped
<1>5. PICK toC \in SUBSET Clients, toP \in SUBSET Clients : Halfway(j, toC, toP)
  BY <1>2, JobState
<1>6. ASSUME NEW q \in Clients
      PROVE  /\ Whole(work.messages[q])
             /\ Messages(work.messages[q]) = (Messages(db.messages[q])
                                                \o MailTo(toC, q, Letter(j.chan, j.chan, j.data)))
                                             \o MailTo(toP, q, Letter(j.topic, j.chan, j.data))
  <2>1. Whole(db.messages[q])
    BY DEF DInv
  <2>2. PICK l : l = db.messages[q] \o MailTo(toC, q, Mail(j.chan, j.chan, j.data))
    OBVIOUS
  <2>3. work.messages[q] = l \o MailTo(toP, q, Mail(j.topic, j.chan, j.data))
    BY <1>5, <2>2 DEF Halfway, Sent
  <2> HIDE DEF j
  <2>4. Posted(db.messages[q], toC, q, j.chan, j.chan, j.data)
    BY <1>3, <2>1, MailToWhole
  <2>5. Whole(l) /\ Messages(l) = Messages(db.messages[q])
                                    \o MailTo(toC, q, Letter(j.chan, j.chan, j.data))
    BY <2>2, <2>4 DEF Posted
  <2>6. Posted(l, toP, q, j.topic, j.chan, j.data)
    BY <1>3, <2>5, MailToWhole
  <2> QED BY <2>3, <2>5, <2>6 DEF Posted
<1>7. DInv' /\ Living' = Living /\ db' = work
  <2> HIDE DEF r
  <2> QED BY <1>1, <1>3, <1>4, <1>6, CommitDelivers
<1>8. ASSUME NEW t, Matching[j.chan] = {t} \/ (Matching[j.chan] = {} /\ toP = {}),
             Reached(j.chan, toC, {}), t \in Matching[j.chan] => Reached(t, toP, {}),
             toP = {} \/ t = j.topic
      PROVE  [Boxes!Next]_(Boxes!vars)
  <2>1. PICK chan : chan = j.chan
    OBVIOUS
  <2>2. PICK data : data = j.data
    OBVIOUS
  <2>3. \A q \in Clients :
           Messages(db'.messages[q]) = (Messages(db.messages[q])
                                          \o MailTo(toC, q, Letter(chan, chan, data)))
                                       \o MailTo(toP, q, Letter(t, chan, data))
    BY <1>6, <1>7, <1>8, <2>1, <2>2 DEF MailTo
  <2>4. /\ chan \in Channels /\ data \in Data /\ db'.subs = db.subs
        /\ \A q \in Clients : Whole(db.messages[q])
    BY <1>3, <1>7, <2>1, <2>2 DEF DInv
  <2> HIDE DEF j
  <2>5. /\ Matching[chan] = {t} \/ (Matching[chan] = {} /\ toP = {})
        /\ Reached(chan, toC, {}) /\ (t \in Matching[chan] => Reached(t, toP, {}))
        /\ Sound(db) /\ Living' = Living
    BY <1>3, <1>7, <1>8, <2>1
  <2> HIDE DEF Sound, Letter
  <2> QED BY <2>3, <2>4, <2>5, BoxesPublish
<1>9. CASE j.last
  <2>1. /\ j.topic \in Matching[j.chan] /\ Reached(j.chan, toC, {})
        /\ Reached(j.topic, toP, j.left) /\ j.left = {}
    BY <1>1, <1>3, <1>5, <1>9 DEF Halfway
  <2>2. Matching[j.chan] = {j.topic}
    BY <1>3, <2>1 DEF OneMatch
  <2> QED BY <1>7, <1>8, <2>1, <2>2 DEF Delivered
<1>10. CASE ~j.last
  <2>1. /\ toP = {} /\ Reached(j.chan, toC, {})
        /\ \A t \in Matching[j.chan] : db.subs[t] = {}
    BY <1>1, <1>3, <1>5, <1>10 DEF Halfway
  <2>2. \A t \in Matching[j.chan] : Reached(t, {}, {})
    BY <2>1 DEF Reached
  <2>3. \E t : Matching[j.chan] = {t} \/ Matching[j.chan] = {}
    BY <1>3 DEF OneMatch
  <2> QED BY <1>7, <1>8, <2>1, <2>2, <2>3 DEF Delivered
<1> QED BY <1>9, <1>10

-----------------------------------------------------------------------------
(* The other steps, and the theorem                                        *)
LEMMA GoneDelivers ==
    ASSUME PInv, FInv, DInv, NEW c \in Clients, ~At(c, "gone"), sent' = sent,
           h' = [h EXCEPT ![c] = Gone], Keep(IF lock = c THEN None ELSE lock, work)
    PROVE  Delivered
<1>1. Gone.pc = "gone" /\ Gone.job = NoJob
  BY DEF Gone, Fresh
<1>2. DInv' /\ db' = db
  <2>1. CASE lock = c
    <3>1. Keep(None, db) /\ LockFree(c)
      BY <2>1 DEF Keep, LockFree
    <3> HIDE DEF Gone
    <3> QED BY <1>1, <3>1, KeepDelivers
  <2>2. CASE lock # c
    <3>1. h[c].job = NoJob
      BY <2>2 DEF DInv, Publishing
    <3>2. lock = None => work = db
      BY NoneAssumption DEF DInv
    <3>3. UNCHANGED <<db, work, lock, sent>>
      BY <2>2, <3>2 DEF Keep
    <3> QED BY <1>1, <3>1, <3>3, StillDelivers
  <2> QED BY <2>1, <2>2
<1>3. Living' = Living \ {c}
  <2>1. h'[c].pc = "gone" /\ \A q \in Clients \ {c} : h'[q] = h[q]
    BY <1>1 DEF PInv, ClientsTyped
  <2> QED BY <2>1 DEF Living, At
<1> QED BY <1>2, <1>3, BoxesDie DEF Delivered

LEMMA CallDelivers ==
    ASSUME PInv, FInv, DInv, NEW c \in Clients, Call(c)
    PROVE  Delivered
<1>1. ASSUME NEW kind \in {Channels, Patterns},
             NEW ts \in (SUBSET (kind \cap TopicsOf[c])) \ {{}}, Subscribe(c, ts)
      PROVE  Delivered
  <2>1. ts \in SUBSET Topic
    BY DEF Topic
  <2> QED BY <1>1, <2>1, SubscribeDelivers
<1>2. ASSUME NEW kind \in {Channels, Patterns}, NEW ts \in SUBSET Topic, NEW pc, pc # "gone",
             At(c, "idle"), LockFree(c), sent' = sent,
             Commit(c, Removed(db, c, ts), [h[c] EXCEPT !.pc = pc])
      PROVE  Delivered
  <2> DEFINE r == [h[c] EXCEPT !.pc = pc]
  <2>1. h[c].job = NoJob /\ ClientTyped(h[c]) /\ ~At(c, "gone")
    BY <1>2, Jobless DEF At, Unrefreshed
  <2>2. r.job = NoJob /\ r.pc # "gone"
    BY <1>2, <2>1 DEF ClientTyped
  <2> HIDE DEF r
  <2> QED BY <1>2, <2>1, <2>2, RemoveDelivers DEF r
<1>3. ASSUME NEW kind \in {Channels, Patterns},
             NEW ts \in (SUBSET (kind \cap TopicsOf[c])) \ {{}}, Unsubscribe(c, ts)
      PROVE  Delivered
  <2>1. ts \in SUBSET Topic /\ "count" # "gone"
    BY DEF Topic
  <2> QED BY <1>2, <1>3, <2>1 DEF Unsubscribe
<1>4. ASSUME NEW kind \in {Channels, Patterns}, UnsubscribeAll(c, kind)
      PROVE  Delivered
  <2> DEFINE ts == {t \in kind : db.subs[t] # {}}
  <2>1. ts \in SUBSET Topic
    BY DEF Topic
  <2>2. PICK pc : /\ pc # "gone"
                  /\ Commit(c, Removed(db, c, ts), [h[c] EXCEPT !.pc = pc])
    <3>1. Commit(c, Removed(db, c, ts),
                 [h[c] EXCEPT !.pc = IF ts = {} THEN "no reply" ELSE "count"])
      BY <1>4 DEF UnsubscribeAll
    <3> QED BY <3>1
  <2>3. At(c, "idle") /\ LockFree(c) /\ sent' = sent
    BY <1>4 DEF UnsubscribeAll
  <2> HIDE DEF ts
  <2> QED BY <1>2, <2>1, <2>2, <2>3
<1>5. ASSUME Poll(c) PROVE Delivered
  <2>1. h[c].job = NoJob /\ h[c].pc # "gone" /\ ~At(c, "gone")
    BY <1>5, Jobless DEF Poll, At, Unrefreshed
  <2> QED BY <1>5, <2>1, ReceiveDelivers DEF Poll
<1>6. ASSUME NEW wait, PollWait(c, wait) PROVE Delivered
  BY <1>6, WaitDelivers DEF PollWait
<1>7. ASSUME NEW chan \in Channels, Publish(c, chan) PROVE Delivered
  BY <1>7, PublishDelivers
<1>8. ASSUME Close(c) PROVE Delivered
  <2> DEFINE r == [h[c] EXCEPT !.pc = "unsubscribe channels", !.whom = c]
  <2>1. /\ h' = [h EXCEPT ![c] = r] /\ Keep(c, db) /\ LockFree(c) /\ sent' = sent
        /\ At(c, "idle")
    BY <1>8 DEF Close, PInv, ClientsTyped
  <2>2. h[c].job = NoJob /\ ClientTyped(h[c]) /\ ~At(c, "gone")
    BY <2>1, Jobless DEF At, Unrefreshed
  <2>3. r.job = NoJob /\ r.pc # "gone"
    BY <2>2 DEF ClientTyped
  <2> HIDE DEF r
  <2> QED BY <2>1, <2>2, <2>3, KeptDelivers
<1> QED BY <1>1, <1>3, <1>4, <1>5, <1>6, <1>7, <1>8 DEF Call

(* A client that closes gives up its own subscriptions.                    *)
LEMMA ClosingDelivers ==
    ASSUME PInv, FInv, DInv, NEW c \in Clients, h[c].job = NoJob,
           UnsubscribeChannels(c) \/ UnsubscribePatterns(c)
    PROVE  Delivered
<1> DEFINE Half(kind, pc) == /\ UnsubscribeType(c, kind, [h[c] EXCEPT !.pc = pc])
                             /\ pc # "gone" /\ ~At(c, "gone")
<1>0. PICK kind \in {Channels, Patterns} : \E pc : Half(kind, pc)
  <2>1. CASE UnsubscribeChannels(c)
    BY <2>1 DEF UnsubscribeChannels, At
  <2>2. CASE UnsubscribePatterns(c)
    BY <2>2 DEF UnsubscribePatterns, At
  <2> QED BY <2>1, <2>2
<1>1. PICK pc : Half(kind, pc)
  BY <1>0
<1> DEFINE next == [h[c] EXCEPT !.pc = pc]
           done == [next EXCEPT !.stale = FALSE]
           ts == db.own[h[c].whom] \cap kind
<1>2. LockFree(c) /\ sent' = sent
  BY <1>1 DEF UnsubscribeType
<1>3. View(c) = db
  BY <1>2, NoJobView
<1>4. /\ next.job = NoJob /\ next.pc # "gone" /\ done.job = NoJob /\ done.pc # "gone"
  BY <1>1 DEF PInv, ClientsTyped, ClientTyped
<1>5. \/ Commit(c, Removed(db, c, ts), done)
      \/ h' = [h EXCEPT ![c] = next] /\ Keep(c, db)
  BY <1>1, <1>3, <1>4 DEF UnsubscribeType
<1>6. ts \in SUBSET Topic
  BY DEF Topic
<1> HIDE DEF next, done, ts
<1>7. CASE Commit(c, Removed(db, c, ts), done)
  BY <1>1, <1>2, <1>4, <1>6, <1>7, RemoveDelivers
<1>8. CASE h' = [h EXCEPT ![c] = next] /\ Keep(c, db)
  BY <1>1, <1>2, <1>4, <1>8, KeptDelivers
<1> QED BY <1>5, <1>7, <1>8

LEMMA StepDelivers ==
    ASSUME OneMatch, PInv, FInv, DInv, Apart, NEW c \in Clients, Step(c)
    PROVE  Delivered
<1>0. h = [q \in Clients |-> h[q]] /\ ClientTyped(h[c])
  BY DEF PInv, ClientsTyped
<1>1. ASSUME NEW pc, pc # "gone", h[c].pc \notin Unrefreshed \cup {"gone"}
      PROVE  LET r == [h[c] EXCEPT !.pc = pc]
             IN /\ r.job = NoJob /\ r.pc # "gone"
                /\ h[c].job = NoJob /\ ~At(c, "gone")
  <2>1. h[c].job = NoJob
    BY <1>1, Jobless
  <2> QED BY <1>0, <1>1, <2>1 DEF ClientTyped, At
<1>2. ASSUME Count(c) PROVE Delivered
  <2> DEFINE r == [h[c] EXCEPT !.pc = "idle"]
  <2>1. /\ h' = [h EXCEPT ![c] = r] /\ Keep(None, db) /\ LockFree(c) /\ sent' = sent
        /\ h[c].pc = "count"
    BY <1>0, <1>2 DEF Count, At
  <2>2. r.job = NoJob /\ r.pc # "gone" /\ ~At(c, "gone")
    BY <1>1, <2>1 DEF Unrefreshed
  <2> HIDE DEF r
  <2> QED BY <2>1, <2>2, KeptDelivers
<1>3. ASSUME NoReply(c) PROVE Delivered
  BY <1>3, WaitDelivers DEF NoReply
<1>4. ASSUME OpenSignal(c) PROVE Delivered
  <2> DEFINE r == [h[c] EXCEPT !.pc = "asleep"]
  <2>1. /\ h' = [h EXCEPT ![c] = r] /\ UNCHANGED <<db, work, lock, sent>> /\ h[c].pc = "create"
    BY <1>0, <1>4 DEF OpenSignal, At
  <2>2. r.job = NoJob /\ r.pc # "gone" /\ h[c].job = NoJob /\ ~At(c, "gone")
    BY <1>1, <2>1 DEF Unrefreshed
  <2> HIDE DEF r
  <2> QED BY <2>1, <2>2, QuietDelivers
<1>5. ASSUME Timeout(c) PROVE Delivered
  <2> DEFINE r == [h[c] EXCEPT !.pc = "woken"]
  <2>1. /\ h' = [h EXCEPT ![c] = r] /\ UNCHANGED <<db, work, lock, sent>> /\ h[c].pc = "asleep"
    BY <1>0, <1>5 DEF Timeout, At
  <2>2. r.job = NoJob /\ r.pc # "gone" /\ h[c].job = NoJob /\ ~At(c, "gone")
    BY <1>1, <2>1 DEF Unrefreshed
  <2> HIDE DEF r
  <2> QED BY <2>1, <2>2, QuietDelivers
<1>6. ASSUME PollAgain(c) PROVE Delivered
  <2> DEFINE r == [h[c] EXCEPT !.pc = "idle", !.wait = "none", !.missed = FALSE]
  <2>1. LockFree(c) /\ sent' = sent /\ h[c].pc = "woken"
    BY <1>6 DEF PollAgain, At
  <2>2. h[c].job = NoJob /\ ~At(c, "gone")
    BY <1>1, <2>1 DEF Unrefreshed
  <2>3. r.job = NoJob /\ r.pc # "gone"
    BY <1>0, <2>2 DEF ClientTyped
  <2>4. CASE Waiting(c)
    <3>1. Commit(c, Received(c), r)
      BY <1>6, <2>4 DEF PollAgain
    <3> HIDE DEF r
    <3> QED BY <2>1, <2>2, <2>3, <2>4, <3>1, ReceiveDelivers
  <2>5. CASE ~Waiting(c)
    <3>1. h' = [h EXCEPT ![c] = r] /\ \E holder : Keep(holder, db)
      BY <1>6, <2>5 DEF PollAgain
    <3> HIDE DEF r
    <3> QED BY <2>1, <2>2, <2>3, <3>1, KeptDelivers
  <2> QED BY <2>4, <2>5
<1>7. ASSUME UnsubscribeChannels(c) \/ UnsubscribePatterns(c) PROVE Delivered
  BY <1>7, CleaningDelivers, ClosingDelivers
<1>8. ASSUME EndClose(c) PROVE Delivered
  BY <1>8, GoneDelivers DEF EndClose, At
<1>9. ASSUME NextCall(c) PROVE Delivered
  <2>1. /\ h' = [h EXCEPT ![c] = h[c]] /\ Keep(None, db) /\ LockFree(c) /\ sent' = sent
        /\ h[c].pc = "idle"
    BY <1>0, <1>9 DEF NextCall, At, LockFree
  <2>2. h[c].job = NoJob /\ h[c].pc # "gone" /\ ~At(c, "gone")
    BY <2>1, Jobless DEF Unrefreshed, At
  <2> QED BY <2>1, <2>2, KeptDelivers
<1> QED
  BY <1>2, <1>3, <1>4, <1>5, <1>6, <1>7, <1>8, <1>9, SendDelivers, CleanUpDelivers,
     NextTopicDelivers, EndPublishDelivers DEF Step

LEMMA NextDelivers ==
    ASSUME OneMatch, PInv, FInv, DInv, Apart, [Next]_vars
    PROVE  Delivered
<1>1. CASE Next
  <2>1. PICK c \in Clients : Call(c) \/ Step(c) \/ Die(c)
    BY <1>1 DEF Next
  <2>2. CASE Die(c)
    BY <2>2, GoneDelivers DEF Die
  <2> QED BY <2>1, <2>2, CallDelivers, StepDelivers
<1>2. CASE UNCHANGED vars
  <2>1. UNCHANGED <<db, work, lock, h, sent>>
    BY <1>2 DEF vars
  <2>2. Living' = Living /\ SameBoxes
    BY <2>1 DEF Living, At, SameBoxes
  <2>3. ASSUME NEW c \in Clients, h[c].job # NoJob PROVE Publishing(c)'
    BY <2>1, <2>3, PublishingStays DEF At
  <2>4. DInv'
    BY <2>1, <2>3 DEF DInv
  <2> QED BY <2>1, <2>2, <2>4, BoxesStutter DEF Delivered
<1> QED BY <1>1, <1>2

LEMMA InitDelivers == Init => DInv /\ Boxes!Init
<1> SUFFICES ASSUME Init PROVE DInv /\ Boxes!Init
  OBVIOUS
<1>1. /\ db = EmptyDb /\ work = EmptyDb /\ sent = 0
      /\ h = [c \in Clients |-> Fresh]
  BY DEF Init
<1>2. /\ \A c \in Clients : EmptyDb.messages[c] = <<>>
      /\ EmptyDb.subs = [t \in Topic |-> {}]
      /\ Fresh.pc = "idle" /\ Fresh.job = NoJob
  BY DEF EmptyDb, Fresh
<1>3. DInv
  BY <1>1, <1>2, NothingWhole DEF DInv
<1>4. [c \in Clients |-> Messages(db.messages[c])] = [c \in Clients |-> <<>>]
  BY <1>1, <1>2, NothingWhole
<1>5. {c \in Clients : ~At(c, "gone")} = Clients
  BY <1>1, <1>2 DEF At
<1>6. Boxes!Init
  BY <1>1, <1>2, <1>4, <1>5 DEF Boxes!Init, Boxes!Topic, Topic
<1> QED BY <1>3, <1>6

(* If no two patterns match a channel, and no publisher has an id when it  *)
(* meets a dead subscriber, a publication is one step: it enters at its    *)
(* commit the boxes of all who subscribe to the channel or to the pattern, *)
(* each once and behind what is there, unless one of the topic's           *)
(* subscribers has died; and each client takes its messages in that order  *)
(* (rl_publish, do_publish, rl_poll).                                      *)
THEOREM ImplementsMailbox == OneMatch => (Spec /\ []Apart => Delivers)
<1>1. OneMatch /\ PInv /\ FInv /\ DInv /\ Apart /\ [Next]_vars
        => DInv' /\ [Boxes!Next]_(Boxes!vars)
  BY NextDelivers DEF Delivered
<1>2. OneMatch' <=> OneMatch
  BY DEF OneMatch
<1> QED BY <1>1, <1>2, InitDelivers, FreshInvariance, PTL DEF Spec, Delivers, Boxes!Spec

-----------------------------------------------------------------------------
(* Publishers that only publish have no id.                                *)
OnlyPublish ==
    /\ Waits \subseteq {"reply"}
    /\ \A c \in Publishers : TopicsOf[c] = {} /\ c \notin Pollers

Nameless == \A c \in Publishers : ~h[c].id /\ ~At(c, "no reply")

LEMMA NamelessKept ==
    ASSUME PInv, Nameless, NEW c \in Clients, NEW r,
           h' = [h EXCEPT ![c] = r] \/ \E new : Commit(c, new, r),
           c \in Publishers => ~r.id /\ r.pc # "no reply"
    PROVE  Nameless'
<1>1. ASSUME NEW q \in Publishers PROVE ~h'[q].id /\ h'[q].pc # "no reply"
  <2>1. q \in Clients /\ ~h[q].id /\ h[q].pc # "no reply" /\ ClientTyped(h[q])
    BY RolesAssumption DEF Nameless, At, PInv, ClientsTyped
  <2>2. \/ q = c /\ h'[q] = r
        \/ q # c /\ h'[q] = h[q]
        \/ q # c /\ h'[q] = [h[q] EXCEPT !.stale = TRUE]
    BY <2>1 DEF Commit, PInv, ClientsTyped
  <2> QED BY <2>1, <2>2 DEF ClientTyped
<1> QED BY <1>1 DEF Nameless, At

LEMMA NamelessCall ==
    ASSUME OnlyPublish, PInv, FInv, Nameless, NEW c \in Clients, Call(c)
    PROVE  Nameless'
<1>0. h = [q \in Clients |-> h[q]] /\ ClientTyped(h[c])
  BY DEF PInv, ClientsTyped
<1>1. c \in Publishers => ~h[c].id /\ TopicsOf[c] = {} /\ c \notin Pollers
  BY DEF Nameless, OnlyPublish
<1>2. ASSUME NEW r, c \notin Publishers, h' = [h EXCEPT ![c] = r] \/ \E new : Commit(c, new, r)
      PROVE  Nameless'
  BY <1>2, NamelessKept
<1>3. ASSUME NEW kind \in {Channels, Patterns},
             NEW ts \in (SUBSET (kind \cap TopicsOf[c])) \ {{}}, Subscribe(c, ts)
      PROVE  Nameless'
  <2>1. ts \in SUBSET (kind \cap TopicsOf[c]) /\ ts \notin {{}}
    OBVIOUS
  <2>2. c \notin Publishers
    BY <1>1, <2>1
  <2> QED BY <1>2, <1>3, <2>2 DEF Subscribe
<1>4. ASSUME NEW kind \in {Channels, Patterns},
             NEW ts \in (SUBSET (kind \cap TopicsOf[c])) \ {{}}, Unsubscribe(c, ts)
      PROVE  Nameless'
  BY <1>1, <1>2, <1>4 DEF Unsubscribe
<1>5. ASSUME NEW kind \in {Channels, Patterns}, UnsubscribeAll(c, kind)
      PROVE  Nameless'
  BY <1>1, <1>2, <1>5 DEF UnsubscribeAll
<1>6. ASSUME Poll(c) PROVE Nameless'
  BY <1>1, <1>2, <1>6 DEF Poll
<1>7. ASSUME NEW wait, PollWait(c, wait) PROVE Nameless'
  <2>1. c \notin Publishers
    BY <1>1, <1>7 DEF PollWait, OnlyPublish
  <2>2. \E r : h' = [h EXCEPT ![c] = r] \/ \E new : Commit(c, new, r)
    <3>1. Wait(c, wait)
      BY <1>7 DEF PollWait
    <3>2. CASE h[c].id /\ Waiting(c)
      BY <3>1, <3>2 DEF Wait
    <3>3. CASE ~(h[c].id /\ Waiting(c))
      BY <3>1, <3>3 DEF Wait
    <3> QED BY <3>2, <3>3
  <2> QED BY <1>2, <2>1, <2>2
<1>8. ASSUME NEW chan \in Channels, Publish(c, chan) PROVE Nameless'
  <2>1. PICK job : h' = [h EXCEPT ![c].pc = "publish", ![c].job = job]
    BY <1>8 DEF Publish
  <2> DEFINE r == [h[c] EXCEPT !.pc = "publish", !.job = job]
  <2>2. h' = [h EXCEPT ![c] = r]
    BY <1>0, <2>1
  <2>3. r.id = h[c].id /\ r.pc = "publish"
    BY <1>0 DEF ClientTyped
  <2> HIDE DEF r
  <2> QED BY <1>1, <2>2, <2>3, NamelessKept
<1>9. ASSUME Close(c) PROVE Nameless'
  <2>1. c \notin Publishers
    BY <1>1, <1>9 DEF Close
  <2>2. h' = [h EXCEPT ![c] = [h[c] EXCEPT !.pc = "unsubscribe channels", !.whom = c]]
    BY <1>0, <1>9 DEF Close
  <2> QED BY <1>2, <2>1, <2>2
<1> QED BY <1>3, <1>4, <1>5, <1>6, <1>7, <1>8, <1>9 DEF Call

LEMMA NamelessStep ==
    ASSUME PInv, FInv, Nameless, NEW c \in Clients, Step(c)
    PROVE  Nameless'
<1>0. h = [q \in Clients |-> h[q]] /\ ClientTyped(h[c])
  BY DEF PInv, ClientsTyped
<1>1. c \in Publishers => ~h[c].id /\ h[c].pc # "no reply"
  BY DEF Nameless, At
<1>2. ASSUME NEW r, r.id = h[c].id, r.pc # "no reply",
             h' = [h EXCEPT ![c] = r] \/ \E new : Commit(c, new, r)
      PROVE  Nameless'
  BY <1>1, <1>2, NamelessKept
<1>3. ASSUME Count(c) PROVE Nameless'
  <2> DEFINE r == [h[c] EXCEPT !.pc = "idle"]
  <2>1. h' = [h EXCEPT ![c] = r] /\ r.id = h[c].id /\ r.pc = "idle"
    BY <1>0, <1>3 DEF Count, ClientTyped
  <2> HIDE DEF r
  <2> QED BY <1>2, <2>1
<1>4. ASSUME NoReply(c) PROVE Nameless'
  <2>1. c \notin Publishers
    BY <1>1, <1>4 DEF NoReply, At
  <2>2. \E r : h' = [h EXCEPT ![c] = r] \/ \E new : Commit(c, new, r)
    <3>1. Wait(c, "reply")
      BY <1>4 DEF NoReply
    <3>2. CASE h[c].id /\ Waiting(c)
      BY <3>1, <3>2 DEF Wait
    <3>3. CASE ~(h[c].id /\ Waiting(c))
      BY <3>1, <3>3 DEF Wait
    <3> QED BY <3>2, <3>3
  <2> QED BY <2>1, <2>2, NamelessKept
<1>5. ASSUME OpenSignal(c) PROVE Nameless'
  <2> DEFINE r == [h[c] EXCEPT !.pc = "asleep"]
  <2>1. h' = [h EXCEPT ![c] = r] /\ r.id = h[c].id /\ r.pc = "asleep"
    BY <1>0, <1>5 DEF OpenSignal, ClientTyped
  <2> HIDE DEF r
  <2> QED BY <1>2, <2>1
<1>6. ASSUME Timeout(c) PROVE Nameless'
  <2> DEFINE r == [h[c] EXCEPT !.pc = "woken"]
  <2>1. h' = [h EXCEPT ![c] = r] /\ r.id = h[c].id /\ r.pc = "woken"
    BY <1>0, <1>6 DEF Timeout, ClientTyped
  <2> HIDE DEF r
  <2> QED BY <1>2, <2>1
<1>7. ASSUME PollAgain(c) PROVE Nameless'
  <2> DEFINE r == [h[c] EXCEPT !.pc = "idle", !.wait = "none", !.missed = FALSE]
  <2>1. h' = [h EXCEPT ![c] = r] \/ \E new : Commit(c, new, r)
    BY <1>7 DEF PollAgain
  <2>2. r.id = h[c].id /\ r.pc = "idle"
    BY <1>0 DEF ClientTyped
  <2> HIDE DEF r
  <2> QED BY <1>2, <2>1, <2>2
<1>8. ASSUME NEW m \in Clients, Send(c, m) PROVE Nameless'
  <2>1. At(c, "publish") /\ h' = [Signalled(m) EXCEPT ![c].job.left = Signalled(m)[c].job.left \ {m}]
    BY <1>8 DEF Send
  <2>2. \A q \in Clients : \/ Signalled(m)[q] = h[q]
                           \/ Signalled(m)[q] = [h[q] EXCEPT !.pc = "woken"]
                           \/ Signalled(m)[q] = [h[q] EXCEPT !.missed = TRUE]
    BY <1>0 DEF Signalled
  <2>3. DOMAIN Signalled(m) = Clients
    BY <1>0 DEF Signalled
  <2>4. ASSUME NEW q \in Publishers PROVE ~h'[q].id /\ h'[q].pc # "no reply"
    <3>1. q \in Clients /\ ~h[q].id /\ h[q].pc # "no reply" /\ ClientTyped(h[q])
      BY RolesAssumption DEF Nameless, At, PInv, ClientsTyped
    <3> DEFINE s == Signalled(m)[q]
    <3>2. ClientTyped(s) /\ ~s.id /\ s.pc # "no reply"
      BY <2>2, <3>1 DEF ClientTyped
    <3>3. h'[q] = s \/ \E job : h'[q] = [s EXCEPT !.job = job]
      BY <2>1, <2>3, <3>1
    <3> HIDE DEF s
    <3> QED BY <3>2, <3>3 DEF ClientTyped
  <2> QED BY <2>4 DEF Nameless, At
<1>9. ASSUME NEW m \in Clients, CleanUp(c, m) PROVE Nameless'
  <2> DEFINE r == [h[c] EXCEPT !.pc = "unsubscribe channels", !.whom = m,
                               !.job.left = @ \ {m}]
  <2>1. h' = [h EXCEPT ![c] = r]
    BY <1>0, <1>9 DEF CleanUp
  <2>2. r.id = h[c].id /\ r.pc = "unsubscribe channels"
    BY <1>0 DEF ClientTyped
  <2> HIDE DEF r
  <2> QED BY <1>2, <2>1, <2>2
<1>10. ASSUME NextTopic(c) PROVE Nameless'
  <2>1. PICK job : h' = [h EXCEPT ![c].job = job] /\ At(c, "publish")
    BY <1>10 DEF NextTopic
  <2> DEFINE r == [h[c] EXCEPT !.job = job]
  <2>2. h' = [h EXCEPT ![c] = r] /\ r.id = h[c].id /\ r.pc = "publish"
    BY <1>0, <2>1 DEF ClientTyped, At
  <2> HIDE DEF r
  <2> QED BY <1>2, <2>2
<1>11. ASSUME EndPublish(c) PROVE Nameless'
  <2> DEFINE r == [h[c] EXCEPT !.pc = "idle", !.job = NoJob, !.stale = FALSE]
  <2>1. \E new : Commit(c, new, r)
    BY <1>11 DEF EndPublish
  <2>2. r.id = h[c].id /\ r.pc = "idle"
    BY <1>0 DEF ClientTyped
  <2> HIDE DEF r
  <2> QED BY <1>2, <2>1, <2>2
<1>12. ASSUME NEW kind, NEW next, ClientTyped(next), next.id = h[c].id, next.pc # "no reply",
              UnsubscribeType(c, kind, next)
       PROVE  Nameless'
  <2> DEFINE done == [next EXCEPT !.stale = FALSE]
             torn == [done EXCEPT !.job.torn = TRUE]
  <2>1. /\ done.id = h[c].id /\ done.pc # "no reply"
        /\ torn.id = h[c].id /\ torn.pc # "no reply"
    BY <1>12 DEF ClientTyped
  <2>2. \/ h' = [h EXCEPT ![c] = next]
        \/ \E new : Commit(c, new, done) \/ Commit(c, new, torn)
    BY <1>12 DEF UnsubscribeType
  <2> HIDE DEF done, torn
  <2> QED BY <1>2, <1>12, <2>1, <2>2
<1>13. ASSUME UnsubscribeChannels(c) \/ UnsubscribePatterns(c) PROVE Nameless'
  <2> DEFINE channels == [h[c] EXCEPT !.pc = "unsubscribe patterns"]
             closing == [h[c] EXCEPT !.pc = "closing"]
             patterns == [h[c] EXCEPT !.pc = "publish", !.whom = None, !.job.db = "user"]
  <2>1. \E kind : \/ UnsubscribeType(c, kind, channels)
                  \/ UnsubscribeType(c, kind, closing)
                  \/ UnsubscribeType(c, kind, patterns)
    <3>1. CASE UnsubscribeChannels(c)
      BY <3>1 DEF UnsubscribeChannels
    <3>2. CASE UnsubscribePatterns(c)
      BY <3>2 DEF UnsubscribePatterns
    <3> QED BY <1>13, <3>1, <3>2
  <2>2. /\ ClientTyped(channels) /\ channels.id = h[c].id /\ channels.pc # "no reply"
        /\ ClientTyped(closing) /\ closing.id = h[c].id /\ closing.pc # "no reply"
        /\ ClientTyped(patterns) /\ patterns.id = h[c].id /\ patterns.pc # "no reply"
    BY <1>0 DEF ClientTyped
  <2> HIDE DEF channels, closing, patterns
  <2> QED BY <1>12, <2>1, <2>2
<1>14. ASSUME EndClose(c) PROVE Nameless'
  BY <1>14, NamelessKept DEF EndClose, Gone, Fresh
<1>15. ASSUME NextCall(c) PROVE Nameless'
  BY <1>15 DEF NextCall, Nameless, At
<1> QED BY <1>3, <1>4, <1>5, <1>6, <1>7, <1>8, <1>9, <1>10, <1>11, <1>13, <1>14, <1>15 DEF Step

LEMMA NamelessNext ==
    ASSUME OnlyPublish, PInv, FInv, Nameless, [Next]_vars
    PROVE  Nameless'
<1>1. ASSUME NEW c \in Clients, Die(c) PROVE Nameless'
  BY <1>1, NamelessKept DEF Die, Gone, Fresh
<1>2. CASE UNCHANGED vars
  BY <1>2 DEF vars, Nameless, At
<1> QED BY <1>1, <1>2, NamelessCall, NamelessStep DEF Next

(* With publishers that neither subscribe nor wait for messages, as in the *)
(* run, that is all that is needed.                                        *)
THEOREM PublishersDeliver == OneMatch /\ OnlyPublish => (Spec => Delivers)
<1>1. OnlyPublish /\ PInv /\ FInv /\ Nameless /\ [Next]_vars => Nameless'
  BY NamelessNext
<1>2. Init => Nameless
  <2>1. Fresh.id = FALSE /\ Fresh.pc = "idle"
    BY DEF Fresh
  <2>2. Init => \A c \in Clients : h[c] = Fresh
    BY DEF Init
  <2> QED BY <2>1, <2>2, RolesAssumption DEF Nameless, At
<1>3. FInv /\ Nameless => Apart
  BY RolesAssumption DEF FInv, FClient, Serves, Nameless, Apart
<1>4. OnlyPublish' <=> OnlyPublish
  BY DEF OnlyPublish
<1> QED BY <1>1, <1>2, <1>3, <1>4, FreshInvariance, ImplementsMailbox, PTL DEF Spec
=============================================================================
