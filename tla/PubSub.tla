------------------------------- MODULE PubSub -------------------------------
(***************************************************************************)
(* Publish and subscribe between processes (pubsub.c, signal_posix.c, the  *)
(* commands and the reply loop of hirlite.c).  Subscriptions and messages  *)
(* are keys in the internal databases of the file all clients share; a     *)
(* subscriber shows that it is there by a lock on a file of its own, and   *)
(* sleeps on a fifo of its own.                                            *)
(*                                                                         *)
(* Wal.tla shows that what happens under the file's lock is one atomic     *)
(* step for other processes, but for what goes around the database: the    *)
(* signals, the locked files, a death.  So a command is one step unless it *)
(* meets those or gives the lock back half way; a client that has to wait  *)
(* for the lock is one whose step is not enabled.                          *)
(***************************************************************************)
EXTENDS Naturals, Sequences, FiniteSets, SequencesExt

CONSTANTS
    Clients,       \* connections; one that is closed or dead does not return
    Publishers,    \* bound: the clients that publish
    Mortal,        \* the clients that may die
    Pollers,       \* the clients that poll with a timeout, again and again
    Waits,         \* the ways in which the other clients wait
    TopicsOf,      \* bound: the topics each client subscribes to
    Channels,
    Patterns,
    Matching,      \* for each channel, the patterns that match it
    MaxMessages,   \* bound on the number of publications
    message,       \* the words a message starts with
    pmessage,
    None

ASSUME RolesAssumption == Publishers \cup Mortal \cup Pollers \subseteq Clients
ASSUME TopicsAssumption == TopicsOf \in [Clients -> SUBSET (Channels \cup Patterns)]
ASSUME WaitsAssumption == Waits \subseteq {"timeout", "forever", "reply"}
ASSUME MatchingAssumption == Matching \in [Channels -> SUBSET Patterns]
(* Channels and patterns are kept in databases of their own. *)
ASSUME DatabasesAssumption == Channels \cap Patterns = {}
ASSUME MaxMessagesAssumption == MaxMessages \in Nat
ASSUME NoneAssumption == None \notin Clients

Topic == Channels \cup Patterns
Data == 1 .. MaxMessages

VARIABLES
    db,      \* the internal databases, and the user's, as committed
    work,    \* what the lock's holder sees; db if nobody holds the lock
    lock,    \* the client that holds the file's lock, or None
    h,       \* the clients' connections
    sent,    \* how many publications were begun
    blind    \* history: clients that committed changes with an old header
vars == <<db, work, lock, h, sent, blind>>

(* CHANNEL_SUBSCRIBERS and PATTERN_SUBSCRIBERS; SUBSCRIBER_CHANNELS and    *)
(* SUBSCRIBER_PATTERNS; SUBSCRIBER_MESSAGES; the lists that got into the   *)
(* database the publisher had selected.                                    *)
EmptyDb ==
    [subs |-> [t \in Topic |-> {}],
     own  |-> [c \in Clients |-> {}],
     messages |-> [c \in Clients |-> <<>>],
     user |-> [c \in Clients |-> <<>>]]

(* A connection: pc; id, whether it has a subscriber_id, and so a locked   *)
(* file; how it waits; missed (history), whether it was signalled before   *)
(* its fifo was open; stale, whether another client has changed the file   *)
(* since it read the header; whom it unsubscribes; what it publishes.      *)
NoJob == [chan |-> None]
Fresh ==
    [pc |-> "idle", id |-> FALSE, wait |-> "none", missed |-> FALSE,
     stale |-> FALSE, whom |-> None, job |-> NoJob]
Gone == [Fresh EXCEPT !.pc = "gone"]

Init ==
    /\ db = EmptyDb /\ work = EmptyDb
    /\ lock = None
    /\ h = [c \in Clients |-> Fresh]
    /\ sent = 0
    /\ blind = {}

-----------------------------------------------------------------------------
At(c, l) == h[c].pc = l

(* rl_refresh gives the client's own lock back before it waits; a read on  *)
(* a closed file waits, too.                                               *)
LockFree(c) == lock \in {None, c}
View(c) == IF lock = c THEN work ELSE db

(* Between a commit and the next refresh the handle keeps the header. *)
Unrefreshed == {"unsubscribe channels", "unsubscribe patterns", "publish"}

(* rl_commit: the lock is given back, and who is between a commit and the  *)
(* end of its command has an old header now.  next is the client's         *)
(* connection afterwards.                                                  *)
Commit(c, new, next) ==
    /\ db' = new /\ work' = new
    /\ lock' = None
    /\ h' = [q \in Clients |->
               IF q = c THEN next
               ELSE IF new # db /\ h[q].pc \in Unrefreshed THEN [h[q] EXCEPT !.stale = TRUE]
               ELSE h[q]]
    /\ blind' = IF new # db /\ h[c].stale THEN blind \cup {c} ELSE blind

(* A step that leaves the file as it is, with the lock held or given back. *)
Keep(holder, new) ==
    /\ lock' = holder
    /\ work' = IF holder = None THEN db ELSE new
    /\ UNCHANGED <<db, blind>>

Added(d, c, ts) ==
    [d EXCEPT !.subs = [t \in Topic |-> IF t \in ts THEN @[t] \cup {c} ELSE @[t]],
              !.own[c] = @ \cup ts]
(* Mutant: the client's own list keeps what it has unsubscribed from. *)
RemovedOnce(d, c, ts) ==
    [d EXCEPT !.subs = [t \in Topic |-> IF t \in ts THEN @[t] \ {c} ELSE @[t]]]
Removed(d, c, ts) ==
    [d EXCEPT !.subs = [t \in Topic |-> IF t \in ts THEN @[t] \ {c} ELSE @[t]],
              !.own[c] = @ \ ts]

-----------------------------------------------------------------------------
(* do_subscribe: the first subscription creates the id and locks its file; *)
(* the commit is in the middle of the command, and the reply counts the    *)
(* subscriptions on a file that is opened, and so locked, once more.       *)
Subscribe(c, ts) ==
    /\ At(c, "idle") /\ LockFree(c)
    /\ Commit(c, Added(db, c, ts), [h[c] EXCEPT !.id = TRUE, !.pc = "count"])
    /\ UNCHANGED sent

(* rl_pubsub_count_subscriptions, and the commit that ends the command. *)
Count(c) ==
    /\ At(c, "count") /\ LockFree(c)
    /\ h' = [h EXCEPT ![c].pc = "idle"]
    /\ Keep(None, db) /\ UNCHANGED sent

(* do_unsubscribe, of a client that has an id; else there is nothing to do. *)
Unsubscribe(c, ts) ==
    /\ At(c, "idle") /\ h[c].id /\ LockFree(c)
    /\ Commit(c, Removed(db, c, ts), [h[c] EXCEPT !.pc = "count"])
    /\ UNCHANGED sent

(* UNSUBSCRIBE without arguments: from every channel that anybody has      *)
(* subscribed to.  If there is none the command has no reply, and whoever  *)
(* asks for one waits for a message.                                       *)
UnsubscribeAll(c, kind) ==
    LET ts == {t \in kind : db.subs[t] # {}}
    IN /\ At(c, "idle") /\ h[c].id /\ LockFree(c)
       /\ Commit(c, Removed(db, c, ts),
                 [h[c] EXCEPT !.pc = IF ts = {} THEN "no reply" ELSE "count"])
       /\ UNCHANGED sent

-----------------------------------------------------------------------------
(* rl_poll pops the number of elements and then the elements.  A message   *)
(* from a channel has three, one from a pattern has four.                  *)
Popped(list) == SubSeq(list, list[1] + 2, Len(list))
Received(c) == [db EXCEPT !.messages[c] = Popped(@)]
Waiting(c) == db.messages[c] # <<>>

(* rl_poll finds a message.  (If it does not, POLL changes nothing.) *)
Poll(c) ==
    /\ At(c, "idle") /\ h[c].id /\ LockFree(c)
    /\ Waiting(c)
    /\ Commit(c, Received(c), h[c])
    /\ UNCHANGED sent

(* Mutant: the lock is kept while the client waits. *)
WaitLocked(c, wait) ==
    /\ LockFree(c)
    /\ IF h[c].id /\ Waiting(c)
         THEN Commit(c, Received(c), [h[c] EXCEPT !.pc = "idle"])
         ELSE /\ h' = [h EXCEPT ![c] = [@ EXCEPT !.id = TRUE, !.wait = wait, !.pc = "create"]]
              /\ Keep(c, db)
    /\ UNCHANGED sent

(* rl_poll_wait: poll, and if there is nothing give the lock back. *)
Wait(c, wait) ==
    /\ LockFree(c)
    /\ IF h[c].id /\ Waiting(c)
         THEN Commit(c, Received(c), [h[c] EXCEPT !.pc = "idle"])
         ELSE /\ h' = [h EXCEPT ![c] = [@ EXCEPT !.id = TRUE, !.wait = wait, !.pc = "create"]]
              /\ Keep(None, db)
    /\ UNCHANGED sent

(* POLL with a timeout or without, and a reply asked for without a command. *)
PollWait(c, wait) ==
    /\ At(c, "idle")
    /\ wait \in IF c \in Pollers THEN {"timeout"} ELSE Waits
    /\ wait = "reply" => h[c].id
    /\ Wait(c, wait)

(* The reply loop, after a command that left no reply. *)
NoReply(c) ==
    /\ At(c, "no reply")
    /\ Wait(c, "reply")

(* rl_create_signal, and the open in rl_read_signal: from now on a signal  *)
(* finds a reader.                                                         *)
OpenSignal(c) ==
    /\ At(c, "create")
    /\ h' = [h EXCEPT ![c].pc = "asleep"]
    /\ UNCHANGED <<db, work, lock, sent, blind>>

(* Mutant: select's result taken at its word, the wait starts over. *)
TimeoutReads(c) ==
    /\ At(c, "asleep") /\ h[c].wait = "timeout"
    /\ h' = [h EXCEPT ![c].pc = "create"]
    /\ UNCHANGED <<db, work, lock, sent, blind>>

(* select returns after the timeout; open without one does not return. *)
Timeout(c) ==
    /\ At(c, "asleep") /\ h[c].wait = "timeout"
    /\ h' = [h EXCEPT ![c].pc = "woken"]
    /\ UNCHANGED <<db, work, lock, sent, blind>>

(* The second poll.  The reply loop returns without a commit, so if there  *)
(* is no message after all it returns with the lock.                       *)
PollAgain(c) ==
    LET back == [h[c] EXCEPT !.pc = "idle", !.wait = "none", !.missed = FALSE]
    IN /\ At(c, "woken") /\ LockFree(c)
       /\ IF Waiting(c)
            THEN Commit(c, Received(c), back)
            ELSE /\ h' = [h EXCEPT ![c] = back]
                 /\ Keep(IF h[c].wait = "reply" THEN c ELSE None, db)
       /\ UNCHANGED sent

(* Any further call starts with rl_refresh. *)
NextCall(c) ==
    /\ At(c, "idle") /\ lock = c
    /\ Keep(None, db)
    /\ UNCHANGED <<h, sent>>

-----------------------------------------------------------------------------
(* rl_is_flocked: a client that has closed or died holds no lock. *)
Alive(c) == h[c].id

(* Mutant: only a blocked open is woken, not a select. *)
SignalledBlocked(m) ==
    [h EXCEPT ![m] = IF @.pc = "asleep" /\ @.wait # "timeout" THEN [@ EXCEPT !.pc = "woken"]
                     ELSE IF @.pc = "create" THEN [@ EXCEPT !.missed = TRUE]
                     ELSE @]

(* rl_write_signal finds a reader once the fifo is open; else nobody is told. *)
Signalled(m) ==
    [h EXCEPT ![m] = IF @.pc = "asleep" THEN [@ EXCEPT !.pc = "woken"]
                     ELSE IF @.pc = "create" THEN [@ EXCEPT !.missed = TRUE]
                     ELSE @]

(* A job: the channel and data; the topic whose members are served, those  *)
(* still to come; the database that rl_push works on; whether this is the  *)
(* last topic; whether a commit has freed the pages that it iterates on.   *)
Elements(job) ==
    IF job.topic \in Channels
      THEN <<3, message, job.chan, job.data>>
      ELSE <<4, pmessage, job.topic, job.chan, job.data>>

(* rl_publish starts with the members of the channel. *)
Publish(c, chan) ==
    /\ At(c, "idle") /\ LockFree(c) /\ sent < MaxMessages
    /\ sent' = sent + 1
    /\ h' = [h EXCEPT ![c].pc = "publish",
                      ![c].job = [chan |-> chan, data |-> sent', topic |-> chan,
                                  left |-> db.subs[chan], db |-> "messages", last |-> FALSE,
                                  torn |-> FALSE]]
    /\ Keep(c, db)

(* Mutant: each member's message is committed by itself. *)
SendCommitted(c, m) ==
    LET job == h[c].job
    IN /\ At(c, "publish") /\ LockFree(c)
       /\ m \in job.left /\ Alive(m)
       /\ Commit(c, [View(c) EXCEPT !.messages[m] = @ \o Elements(job)],
                 [h[c] EXCEPT !.job.left = @ \ {m}])
       /\ UNCHANGED sent

(* do_publish to a live member: the message enters its list, and its fifo  *)
(* is signalled before the commit.                                         *)
Send(c, m) ==
    LET job == h[c].job
    IN /\ At(c, "publish") /\ LockFree(c)
       /\ m \in job.left /\ Alive(m)
       /\ h' = [Signalled(m) EXCEPT ![c].job.left = @ \ {m}]
       /\ Keep(c, IF job.db = "messages"
                    THEN [View(c) EXCEPT !.messages[m] = @ \o Elements(job)]
                    ELSE [View(c) EXCEPT !.user[m] = @ \o Elements(job)])
       /\ UNCHANGED sent

(* do_publish to a dead member starts rl_unsubscribe_all_subscriber. *)
CleanUp(c, m) ==
    /\ At(c, "publish") /\ LockFree(c)
    /\ m \in h[c].job.left /\ ~Alive(m)
    /\ h' = [h EXCEPT ![c].pc = "unsubscribe channels", ![c].whom = m,
                      ![c].job.left = @ \ {m}]
    /\ Keep(c, View(c)) /\ UNCHANGED sent

(* The channel's members are served: on to a pattern that matches.         *)
(* publish_to_members leaves the messages' database selected, so after one *)
(* pattern the members of another are not found.                           *)
NextTopic(c) ==
    LET job == h[c].job
        matching == {t \in Matching[job.chan] : View(c).subs[t] # {}}
    IN /\ At(c, "publish") /\ LockFree(c) /\ job.left = {}
       /\ ~job.last /\ matching # {}
       /\ \E t \in matching :
             h' = [h EXCEPT ![c].job = [@ EXCEPT !.topic = t, !.left = View(c).subs[t],
                                                 !.db = "messages", !.last = TRUE]]
       /\ Keep(c, View(c)) /\ UNCHANGED sent

(* The last member is served; or the publication fails on pages that were  *)
(* freed below it, and what was done so far is committed with the error.   *)
EndPublish(c) ==
    LET job == h[c].job
        nobody == \A t \in Matching[job.chan] : View(c).subs[t] = {}
    IN /\ At(c, "publish") /\ LockFree(c)
       /\ job.torn \/ (job.left = {} /\ (job.last \/ nobody))
       /\ Commit(c, View(c), [h[c] EXCEPT !.pc = "idle", !.job = NoJob, !.stale = FALSE])
       /\ UNCHANGED sent

-----------------------------------------------------------------------------
(* Mutant: commits though there was nothing to remove. *)
UnsubscribeTypeAlways(c, kind, next) ==
    LET ts == View(c).own[h[c].whom] \cap kind
        done == [next EXCEPT !.stale = FALSE]
    IN /\ LockFree(c)
       /\ IF h[c].id
            THEN Commit(c, Removed(View(c), c, ts),
                        IF next.job = NoJob THEN done ELSE [done EXCEPT !.job.torn = TRUE])
            ELSE h' = [h EXCEPT ![c] = next] /\ Keep(c, View(c))
       /\ UNCHANGED sent

(* rl_unsubscribe_all_type reads the topics of whom, and do_unsubscribe    *)
(* takes this client's own subscriptions to them away, if it has an id,    *)
(* and commits.  When there is nothing to remove nothing is committed.     *)
UnsubscribeType(c, kind, next) ==
    LET ts == View(c).own[h[c].whom] \cap kind
        done == [next EXCEPT !.stale = FALSE]
    IN /\ LockFree(c)
       /\ IF h[c].id /\ ts # {}
            THEN Commit(c, Removed(View(c), c, ts),
                        IF next.job = NoJob THEN done ELSE [done EXCEPT !.job.torn = TRUE])
            ELSE h' = [h EXCEPT ![c] = next] /\ Keep(c, View(c))
       /\ UNCHANGED sent

UnsubscribeChannels(c) ==
    /\ At(c, "unsubscribe channels")
    /\ UnsubscribeType(c, Channels, [h[c] EXCEPT !.pc = "unsubscribe patterns"])

(* Back in rl_close or in the publication, in which the user's database    *)
(* is selected now.                                                        *)
UnsubscribePatterns(c) ==
    /\ At(c, "unsubscribe patterns")
    /\ UnsubscribeType(c, Patterns,
          IF h[c].job = NoJob THEN [h[c] EXCEPT !.pc = "closing"]
          ELSE [h[c] EXCEPT !.pc = "publish", !.whom = None, !.job.db = "user"])

(* rl_close, and rl_unsubscribe_all for a client with an id. *)
Close(c) ==
    /\ At(c, "idle") /\ h[c].id /\ LockFree(c)
    /\ h' = [h EXCEPT ![c].pc = "unsubscribe channels", ![c].whom = c]
    /\ Keep(c, db) /\ UNCHANGED sent

EndClose(c) ==
    /\ At(c, "closing")
    /\ h' = [h EXCEPT ![c] = Gone]
    /\ Keep(IF lock = c THEN None ELSE lock, work) /\ UNCHANGED sent

Die(c) ==
    /\ c \in Mortal /\ ~At(c, "gone")
    /\ h' = [h EXCEPT ![c] = Gone]
    /\ Keep(IF lock = c THEN None ELSE lock, work) /\ UNCHANGED sent

-----------------------------------------------------------------------------
Call(c) ==
    \/ \E kind \in {Channels, Patterns} :
          \/ \E ts \in (SUBSET (kind \cap TopicsOf[c])) \ {{}} :
                Subscribe(c, ts) \/ Unsubscribe(c, ts)
          \/ TopicsOf[c] \cap kind # {} /\ UnsubscribeAll(c, kind)
    \/ Poll(c)
    \/ \E wait \in {"timeout", "forever", "reply"} : PollWait(c, wait)
    \/ c \in Publishers /\ \E chan \in Channels : Publish(c, chan)
    \/ Close(c)

(* What goes on once a call has begun, up to where the lock is given back. *)
Step(c) ==
    \/ Count(c) \/ NoReply(c) \/ OpenSignal(c) \/ Timeout(c) \/ PollAgain(c)
    \/ \E m \in Clients : Send(c, m) \/ CleanUp(c, m)
    \/ NextTopic(c) \/ EndPublish(c)
    \/ UnsubscribeChannels(c) \/ UnsubscribePatterns(c) \/ EndClose(c)
    \/ NextCall(c)

Next == \E c \in Clients : Call(c) \/ Step(c) \/ Die(c)

Spec == Init /\ [][Next]_vars

(* A client finishes its call once it gets the lock, and gets it if it is  *)
(* free again and again; one that returned with the lock calls again; the  *)
(* pollers go on polling.  Nobody has to publish, subscribe, close or die. *)
Fairness ==
    /\ \A c \in Clients : SF_vars(Step(c))
    /\ \A c \in Pollers : SF_vars(Poll(c) \/ PollWait(c, "timeout"))
LiveSpec == Spec /\ Fairness

-----------------------------------------------------------------------------
(* The two directions in which subscriptions are stored agree, for what is *)
(* committed and for what the lock's holder works on.                      *)
SubscriptionsAgree ==
    \A d \in {db, work} : \A t \in Topic, c \in Clients :
       c \in d.subs[t] <=> t \in d.own[c]

(* A client sleeps on a message only if it was signalled between its poll  *)
(* and the opening of its fifo: that the signal is given before the commit *)
(* is no loss, nor is any other order.                                     *)
SleepsOnlyInRace ==
    \A c \in Clients : At(c, "asleep") /\ Waiting(c) => h[c].missed

(* Changes made with the header of an earlier transaction are committed    *)
(* only by a client that gives up channels and patterns at once, or that   *)
(* meets a dead subscriber when it publishes.                              *)
FreshCommits ==
    \A c \in blind :
       \/ \A kind \in {Channels, Patterns} : TopicsOf[c] \cap kind # {}
       \/ c \in Publishers /\ \E m \in Mortal : At(m, "gone")

(* A subscription goes away only by its client's own call, and the clean-up *)
(* after a dead client removes that client's.                              *)
KeepsOthers ==
    [][\A c \in Clients, t \in Topic :
         c \in db.subs[t] /\ c \notin db'.subs[t] =>
            \/ ~Alive(c)
            \/ h[c].pc = "idle" \/ h[c].whom = c]_vars

(* A box is what the list holds, cut into messages as rl_poll does it.     *)
MessageAt(list, i) ==
    [topic |-> list[i + 2], chan |-> list[i + list[i] - 1], data |-> list[i + list[i]]]
(* Where the list starts after each poll: a message has four elements, or  *)
(* more.                                                                   *)
Starts(list) ==
    LET end == Len(list) + 1
        next == [i \in 1 .. end |-> IF i = end THEN end ELSE i + list[i] + 1]
        start[n \in 0 .. Len(list) \div 4] == IF n = 0 THEN 1 ELSE next[start[n - 1]]
    IN start
Messages(list) ==
    LET start == Starts(list)
        polls == Cardinality({n \in DOMAIN start : start[n] <= Len(list)})
    IN [n \in 1 .. polls |-> MessageAt(list, start[n - 1])]

Boxes == INSTANCE Mailbox WITH
    subs <- db.subs,
    box <- [c \in Clients |-> Messages(db.messages[c])],
    alive <- {c \in Clients : ~At(c, "gone")}

(* A publication reaches every subscriber at its commit, once per topic    *)
(* and in the order of commits, unless one of that topic's has died.       *)
Delivers == Boxes!Spec

(* A signal that came before the fifo was open, and no timeout to make up  *)
(* for it.                                                                 *)
Overslept(c) == h[c].missed /\ h[c].wait # "timeout"

(* Who waits when there is a message returns, and who polls again and      *)
(* again gets its messages, unless it has overslept one.                   *)
Served ==
    /\ \A c \in Clients :
          Waiting(c) /\ h[c].pc \in {"no reply", "create", "asleep", "woken"}
             ~> h[c].pc \in {"idle", "gone"} \/ Overslept(c)
    /\ \A c \in Pollers :
          Waiting(c) ~> ~Waiting(c) \/ ~Alive(c) \/ Overslept(c)

(* A call that has begun ends, unless it waits for a message or is closed. *)
CallsEnd ==
    \A c \in Clients : h[c].pc \in Unrefreshed \cup {"count", "closing"} 
          ~> h[c].pc \in {"idle", "no reply", "gone"}

=============================================================================
