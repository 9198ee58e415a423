----------------------------- MODULE MCMailList -----------------------------
(* Constants for the runs of MailList; the cfg files choose among them. *)
EXTENDS MailList, TLC

CONSTANTS t1, t2, t3, d1, d2, s1, s2

SizeOne == [l \in Lists |-> 1]
(* Only the first list has two. *)
SizeMixed == [l \in Lists |-> IF l = <<t1, d1>> THEN 2 ELSE 1]
SizeTwo == [l \in Lists |-> 2]

KindsSuccess == {<<"s", "other">>}
KindsThree == {<<"s", "other">>, <<"f", "nouser5">>, <<"d", "step1">>}

SymSessions == Permutations(Sessions)
=============================================================================
