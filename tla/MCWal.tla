------------------------------- MODULE MCWal -------------------------------
(* Wal for TLC: processes and values are model values. *)
EXTENDS Wal, TLC

CONSTANTS w1, w2, r1, v1, v2

OneWriter == {w1}
TwoWriters == {w1, w2}
OneReader == {r1}
MCValues == {v1, v2}
OneValue == {v1}
MCSymmetry == Permutations(Writers) \cup Permutations(Values)

=============================================================================
