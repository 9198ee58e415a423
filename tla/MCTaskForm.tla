----------------------------- MODULE MCTaskForm -----------------------------
(* The instance of TaskForm for TLC.  Names are interchangeable.  The run    *)
(* goes on from a state with two tasks, or with a request that no page waits *)
(* for, only while all that is in it is plain: one tag, nothing excluded, no *)
(* campaign, no plan, no reviewer, no failed selection.  All these states    *)
(* are checked.                                                              *)
EXTENDS TaskForm, TLC

SymNames == Permutations(Names)

Plain(r) ==
    /\ r.inc \in {{}, Tags} /\ r.exc = {}
    /\ ~r.camp /\ r.code = "current" /\ r.plan = None

Followed ==
    Len(tasks) > 1 \/ (\E s \in Slots : late[s] # NoRequest) =>
        /\ Plain(form) /\ dialog # "failed"
        /\ \A t \in DOMAIN tasks :
             Plain(tasks[t]) /\ tasks[t].status \in {"drafted", "queueing"}
        /\ \A q \in Requests : Adds(q) => Plain(q.form) /\ ~q.blind
        /\ plans = 0
=============================================================================
