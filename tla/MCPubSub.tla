------------------------------ MODULE MCPubSub ------------------------------
(* PubSub for TLC: clients, channels and patterns are model values. *)
EXTENDS PubSub, TLC

CONSTANTS a, b, p, ch, pat1, pat2

MCClients == {a, b, p}
OneChannel == {ch}
OnePattern == {pat1}
TwoPatterns == {pat1, pat2}
MatchAll == [x \in Channels |-> Patterns]

(* One client subscribes to a channel and a pattern, another to a pattern. *)
MCTopics == [c \in Clients |-> IF c = a THEN {ch, pat1} ELSE IF c = b THEN {pat1} ELSE {}]

=============================================================================
