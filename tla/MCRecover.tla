----------------------------- MODULE MCRecover -----------------------------
(* Constants for the run of Recover. *)
EXTENDS Recover, TLC

CONSTANTS t1, s1, p1, p2

SizeTwo == [t \in Tasks |-> 2]

KindsTwo == {<<"s", "other">>, <<"f", "bracket">>}

SymReporters == Permutations(Reporters)
=============================================================================
