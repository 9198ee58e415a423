-------------------------- MODULE MCDeliverEngine --------------------------
(* Instances of DeliverEngine for TLC. *)
EXTENDS DeliverEngine, TLC

CONSTANTS t1, t2, t3, a1, b1, c1, w1, w2

(* one mailbox of t1, one of t2 *)
PairOf == (a1 :> t1) @@ (b1 :> t2)

(* one mailbox of each task *)
EachOf == (a1 :> t1) @@ (b1 :> t2) @@ (c1 :> t3)

ThreadSymmetry == Permutations(Workers)
=============================================================================
