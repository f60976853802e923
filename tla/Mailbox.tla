------------------------------ MODULE Mailbox ------------------------------
(***************************************************************************)
(* What publish and subscribe promise (pubsub.c): a client has a box of    *)
(* messages; a publication enters the boxes of all who subscribe to its    *)
(* channel, and of all who subscribe to a pattern that matches it, at one  *)
(* instant; a client takes its messages one by one, oldest first.  Only    *)
(* when a subscriber has died may the others of that topic miss it.        *)
(***************************************************************************)
EXTENDS Sequences, SequencesExt

CONSTANTS
    Clients,    \* connections
    Channels,
    Patterns,
    Matching,   \* for each channel, the patterns that match it
    Data        \* what is published

Topic == Channels \cup Patterns

VARIABLES
    subs,    \* who subscribes to each topic
    box,     \* the messages that wait for each client
    alive    \* the clients that have not died
vars == <<subs, box, alive>>

Init ==
    /\ subs = [t \in Topic |-> {}]
    /\ box = [c \in Clients |-> <<>>]
    /\ alive = Clients

Subscribe(c, ts) ==
    /\ subs' = [t \in Topic |-> IF t \in ts THEN subs[t] \cup {c} ELSE subs[t]]
    /\ UNCHANGED <<box, alive>>

Unsubscribe(c, ts) ==
    /\ subs' = [t \in Topic |-> IF t \in ts THEN subs[t] \ {c} ELSE subs[t]]
    /\ UNCHANGED <<box, alive>>

(* A message for each topic it is published to: the channel's comes first. *)
(* A publication that reaches nobody leaves no trace.                      *)
Publish(chan, d) ==
    /\ box' # box
    /\ \E order \in SetToSeqs(Matching[chan]),
          to \in [{chan} \cup Matching[chan] -> SUBSET Clients] :
          LET mail(c, t) ==
                IF c \in to[t] THEN <<[topic |-> t, chan |-> chan, data |-> d]>> ELSE <<>>
          IN /\ \A t \in DOMAIN to :
                   to[t] \subseteq subs[t] /\ (subs[t] \subseteq alive => to[t] = subs[t])
             /\ box' = [c \in Clients |->
                          box[c] \o mail(c, chan)
                          \o FlattenSeq([i \in DOMAIN order |-> mail(c, order[i])])]
    /\ UNCHANGED <<subs, alive>>

Take(c) ==
    /\ box[c] # <<>>
    /\ box' = [box EXCEPT ![c] = Tail(@)]
    /\ UNCHANGED <<subs, alive>>

Die(c) ==
    /\ alive' = alive \ {c}
    /\ UNCHANGED <<subs, box>>

Next ==
    \/ \E c \in Clients, ts \in SUBSET Topic : Subscribe(c, ts) \/ Unsubscribe(c, ts)
    \/ \E chan \in Channels, d \in Data : Publish(chan, d)
    \/ \E c \in Clients : Take(c) \/ Die(c)

Spec == Init /\ [][Next]_vars

=============================================================================
