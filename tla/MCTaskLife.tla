----------------------------- MODULE MCTaskLife -----------------------------
(* Instances of TaskLife for TLC: the runnables are interchangeable, and so  *)
(* are the sessions.                                                         *)
EXTENDS TaskLife, TLC

Symmetry == Permutations(Runnables) \cup Permutations(Users)

\* Behaviours are followed while the row is kept; after a disturbance of the
\* map or the loss of the scan file, with one operation or one fault only.
Followed ==
    /\ RowKept
    /\ (MapKept /\ "unfiled" \notin why) \/ ops + faults <= 1
=============================================================================
