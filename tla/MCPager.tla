------------------------------- MODULE MCPager -------------------------------
(* Pager for TLC: values and databases are model values. *)
EXTENDS Pager, TLC

CONSTANTS v1, v2, d0

MCValues == {v1, v2}
MCDatabases == {d0}
MCSymmetry == Permutations(MCValues)

=============================================================================
