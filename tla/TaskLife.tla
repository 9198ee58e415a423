------------------------------ MODULE TaskLife ------------------------------
(***************************************************************************)
(* The life of one mailing task of the web application after it is stored: *)
(* the operations of its users and auditors (TaskAction, AuditAction), the *)
(* job that hands it over to the dispatcher (TaskJob) and the dispatcher's *)
(* confirmations (Api.taskCallback).                                       *)
(*                                                                         *)
(* All of them work on the task's row in the database, on its entry in the *)
(* map scanMap, which is shared by the job and the handlers, and on its    *)
(* scan file.  A handler reads the row, decides, and saves the whole row   *)
(* later; nothing keeps others from the row meanwhile.  "synchronized      *)
(* (taskId)" locks an Integer object: the runnables made from one entry of *)
(* the map share it, a handler and the job do not.  Periodical tasks are   *)
(* left out, and other tasks are seen only in that they keep the job from  *)
(* this one.                                                               *)
(***************************************************************************)
EXTENDS Naturals, FiniteSets

CONSTANTS
    Runnables,      \* runnables for this task in the executor
    Users,          \* sessions that operate on the task
    MaxOps,         \* bound: operations of users and auditors
    MaxFaults       \* bound: restarts, failures and lost answers

ASSUME LifeAssumption ==
    /\ IsFiniteSet(Runnables) /\ IsFiniteSet(Users)
    /\ MaxOps \in Nat /\ MaxFaults \in Nat

VARIABLES
    row,        \* the task's row: status, send code, delivery_time set or not
    clock,      \* job_time: "early", "locked" (less than 5 minutes) or "due"
    entry,      \* the task's entry in scanMap and the Integer it has as key
    file,       \* TRUE while the scan file exists
    job,        \* TaskJob.execute: where it is and what scan() has read
    run,        \* the runnables: where each is, its copy of the row, its key
    op,         \* each session: the operation, where it is, its copy
    side,       \* the task at the dispatcher
    handed,     \* how often the dispatcher has been given the task
    confirm,    \* a confirmation on its way from the dispatcher, or "none"
    ops,        \* operations so far
    faults,     \* faults so far
    why         \* the disturbances so far (see Disturbances)

vars == <<row, clock, entry, file, job, run, op, side, handed, confirm, ops,
          faults, why>>

Statuses == {"drafted", "reviewing", "return", "waited", "queueing",
             "processing", "paused", "cancelled", "completed", "deleted",
             "notfind"}
AtDispatcher == {"processing", "paused", "cancelled", "completed", "notfind"}
Row == [status : Statuses, code : {"current", "schedule"},
        delivered : BOOLEAN]

NoEntry == [state |-> "none", key |-> 0]
NoRun == [pc |-> "none", key |-> 0]
NoOp == [pc |-> "idle"]

\* The Integer objects that can be the entry's key or a runnable's: a new
\* one is named by the first number that is not in use.
Keys == 1..(Cardinality(Runnables) + 1)
NewKey ==
    CHOOSE k \in Keys :
        /\ \A r \in Runnables : run[r].key # k
        /\ \A j \in 1..(k - 1) : \E r \in Runnables : run[r].key = j

\* scanMap.put: an entry that is there keeps its key.
Put(state, key) ==
    entry' = [state |-> state,
              key |-> IF entry = NoEntry THEN key ELSE entry.key]

\* Wrong: a task that was delivered is found again.
ScannedAgain(r) ==
    \/ r.status = "waited" /\ clock = "due"
    \/ r.status = "queueing" /\ r.code = "current"
    \/ r.status = "processing"

\* The query Task.scan.
Scanned(r) ==
    \/ r.status = "waited" /\ clock = "due"
    \/ r.status = "queueing" /\ r.code = "current"
    \/ r.status = "processing" /\ ~r.delivered

\* Audits.moderate without a review.
moderate(code) == IF code = "schedule" THEN "waited" ELSE "queueing"

(***************************************************************************)
(* The operations: from which status of the row, delivered or not, which   *)
(* mark goes into scanMap, which status is saved, what becomes of the scan *)
(* file, and what is asked of the dispatcher instead.                      *)
(***************************************************************************)
Edit(name, from, sent, mark, to, scanFile) ==
    [name |-> name, from |-> from, sent |-> sent, mark |-> mark, to |-> to,
     file |-> scanFile, ask |-> "none"]
Ask(name, from, ask) ==
    [name |-> name, from |-> from, sent |-> {TRUE}, mark |-> "none",
     to |-> "none", file |-> "keep", ask |-> ask]

cancel == {Edit("cancel", {"waited"}, BOOLEAN, "cancelled", "cancelled",
                "delete")}
pause ==
    {Edit("pause", {"queueing"}, BOOLEAN, "paused", "paused", "delete"),
     Edit("pause", {"processing"}, {FALSE}, "none", "paused", "delete"),
     Ask("pause", {"processing"}, "pause")}
restart ==
    {Edit("restart", {"paused"}, {FALSE}, "waiting", "processing", "create"),
     Ask("restart", {"paused"}, "restart")}
stop ==
    {Edit("stop", {"queueing"}, BOOLEAN, "cancelled", "cancelled", "delete"),
     Edit("stop", {"processing", "paused"}, {FALSE}, "none", "cancelled",
          "delete"),
     Ask("stop", {"processing", "paused"}, "stop")}
del == {Edit("del", {"drafted", "return"}, BOOLEAN, "none", "deleted", "keep")}

\* The auditor's two answers; "sent" stands for what moderate returns.
audit ==
    {Edit("passed", {"reviewing"}, BOOLEAN, "none", "sent", "create"),
     Edit("returned", {"reviewing"}, BOOLEAN, "none", "return", "keep")}

\* createTask on a stored task: saved as a draft, sent to review, or sent.
createTask ==
    {Edit("add", {"drafted", "return", "waited"}, BOOLEAN, "none", to,
          IF to = "sent" THEN "create" ELSE "keep")
       : to \in {"drafted", "reviewing", "sent"}}

Operations ==
    cancel \cup pause \cup restart \cup stop \cup del \cup audit
        \cup createTask

\* The handler reads the row and finds the operation allowed (Tasks.
\* lockSchedule keeps a waiting task from changes just before its time).
opRead(u, o) ==
    /\ op[u] = NoOp /\ ops < MaxOps
    /\ row.status \in o.from /\ row.delivered \in o.sent
    /\ o.name = "add" /\ row.status = "waited" => clock = "early"
    /\ op' = [op EXCEPT ![u] =
                [pc |-> IF o.ask # "none" THEN "ask"
                        ELSE IF o.mark # "none" THEN "mark" ELSE "save",
                 o |-> o, task |-> row]]
    /\ ops' = ops + 1
    /\ UNCHANGED <<row, clock, entry, file, job, run, side, handed, confirm,
                   faults>>

opMark(u) ==
    /\ op[u].pc = "mark"
    /\ Put(op[u].o.mark, NewKey)
    /\ op' = [op EXCEPT ![u].pc = "save"]
    /\ UNCHANGED <<row, clock, file, job, run, side, handed, confirm, ops,
                   faults>>

\* taskService.save writes every column of the copy.
opSave(u) ==
    /\ op[u].pc = "save"
    /\ \E code \in IF op[u].o.name = "add" THEN {"current", "schedule"}
                   ELSE {op[u].task.code} :
         /\ row' = [op[u].task EXCEPT
                      !.status = IF op[u].o.to = "sent" THEN moderate(code)
                                 ELSE op[u].o.to,
                      !.code = code]
         /\ clock' = IF op[u].o.name = "add" THEN "early" ELSE clock
    /\ op' = [op EXCEPT ![u] =
                IF op[u].o.file = "keep" THEN NoOp
                ELSE [@ EXCEPT !.pc = "file"]]
    /\ UNCHANGED <<entry, file, job, run, side, handed, confirm, ops, faults>>

opFile(u) ==
    /\ op[u].pc = "file"
    /\ file' = (op[u].o.file = "create")
    /\ op' = [op EXCEPT ![u] = NoOp]
    /\ UNCHANGED <<row, clock, entry, job, run, side, handed, confirm, ops,
                   faults>>

\* The dispatcher's answer to what a handler asks, and what it does then.
Obeyed(ask) ==
    CASE ask = "pause" -> "paused" [] ask = "restart" -> "running"
      [] ask = "stop" -> "stopped"

\* Processings.pause, restart and stop: the dispatcher obeys and will
\* confirm, or the request fails and the user is told so.
opAsk(u) ==
    /\ op[u].pc = "ask"
    /\ op' = [op EXCEPT ![u] = NoOp]
    /\ \/ /\ confirm = "none" /\ side \in {"running", "paused"}
          /\ side' = Obeyed(op[u].o.ask)
          /\ confirm' = op[u].o.ask
       \/ UNCHANGED <<side, confirm>>
    /\ UNCHANGED <<row, clock, entry, file, job, run, handed, ops, faults>>

(***************************************************************************)
(* TaskJob.                                                                *)
(***************************************************************************)

\* scan(): if there is a scan file, the row is looked up ...
jobScan ==
    /\ job.pc = "scan"
    /\ job' = [pc |-> "apply",
               gone |-> file /\ row.status \notin
                                  {"waited", "queueing", "processing"},
               found |-> file /\ Scanned(row)]
    /\ UNCHANGED <<row, clock, entry, file, run, op, side, handed, confirm,
                   ops, faults>>

\* ... then the file is deleted, the map is looked at ...
jobApply ==
    /\ job.pc = "apply"
    /\ file' = (file /\ ~job.gone)
    /\ job' = [pc |-> IF job.found /\ entry = NoEntry THEN "put" ELSE "queue"]
    /\ UNCHANGED <<row, clock, entry, run, op, side, handed, confirm, ops,
                   faults>>

\* ... and an entry made: the Integer the job has locked is its own.
jobPut ==
    /\ job.pc = "put"
    /\ Put("waiting", NewKey)
    /\ job' = [pc |-> "queue"]
    /\ UNCHANGED <<row, clock, file, run, op, side, handed, confirm, ops,
                   faults>>

\* A runnable is in one of its two synchronized blocks with this Integer.
InBlock(r) == run[r].pc \in {"checking", "checked", "saving"}
Held(key) == \E r \in Runnables : run[r].key = key /\ InBlock(r)

\* queue(): a marked entry is removed; for one that waits a runnable is given
\* to the executor, in every round of the job until one runs ...
jobSubmit(r) ==
    /\ job.pc = "queue" /\ ~Held(entry.key)
    /\ entry.state = "waiting"
    /\ run[r] = NoRun
    /\ run' = [run EXCEPT ![r] = [pc |-> "queued", key |-> entry.key]]
    /\ job' = [pc |-> "scan"]
    /\ UNCHANGED <<row, clock, entry, file, op, side, handed, confirm, ops,
                   faults>>

\* ... unless the executor is busy, or the iteration over the map fails
\* because another entry was removed.
jobSkip ==
    /\ job.pc = "queue" /\ ~Held(entry.key)
    /\ entry' = IF entry.state \in {"paused", "cancelled"} THEN NoEntry
                ELSE entry
    /\ job' = [pc |-> "scan"]
    /\ UNCHANGED <<row, clock, file, run, op, side, handed, confirm, ops,
                   faults>>

\* Another runnable made from the same entry is in one of the blocks.
Locked(r) ==
    \E q \in Runnables \ {r} : run[q].key = run[r].key /\ InBlock(q)

runRead(r) ==
    /\ run[r].pc = "queued" /\ ~Locked(r)
    /\ run' = [run EXCEPT ![r] =
                 [pc |-> "checking", key |-> @.key, task |-> row]]
    /\ UNCHANGED <<row, clock, entry, file, job, op, side, handed, confirm,
                   ops, faults>>

\* Wrong: a runnable does not look whether another one has the task.
runCheckMarks(r) ==
    /\ run[r].pc = "checking"
    /\ run' = [run EXCEPT ![r] =
                 IF entry.state \in {"paused", "cancelled"} THEN NoRun
                 ELSE [@ EXCEPT !.pc = "checked"]]
    /\ UNCHANGED <<row, clock, entry, file, job, op, side, handed, confirm,
                   ops, faults>>

\* A runnable leaves the task to another one, and to a user's mark ...
runCheck(r) ==
    /\ run[r].pc = "checking"
    /\ run' = [run EXCEPT ![r] =
                 IF entry.state \in {"processing", "paused", "cancelled"}
                 THEN NoRun ELSE [@ EXCEPT !.pc = "checked"]]
    /\ UNCHANGED <<row, clock, entry, file, job, op, side, handed, confirm,
                   ops, faults>>

\* ... and otherwise takes it.
runTake(r) ==
    /\ run[r].pc = "checked"
    /\ Put("processing", run[r].key)
    /\ run' = [run EXCEPT ![r].pc = "writing"]
    /\ UNCHANGED <<row, clock, file, job, op, side, handed, confirm, ops,
                   faults>>

\* A check on the task or writerService.write fails: a failure to write
\* (ServiceErrors) puts the task back to waiting, any other makes it a draft.
runFail(r) ==
    /\ run[r].pc = "writing" /\ faults < MaxFaults
    /\ \E draft \in BOOLEAN :
         /\ row' = [run[r].task EXCEPT
                      !.status = IF draft THEN "drafted"
                                 ELSE moderate(run[r].task.code)]
         /\ run' = [run EXCEPT ![r].pc = IF draft THEN "dropping"
                                         ELSE "releasing"]
    /\ faults' = faults + 1
    /\ UNCHANGED <<clock, entry, file, job, op, side, handed, confirm, ops>>

\* The file for the dispatcher is written, which may take long, and the row
\* is looked up again: may the task still be sent?
runScan(r) ==
    /\ run[r].pc = "writing"
    /\ run' = [run EXCEPT ![r].pc = IF Scanned(row) THEN "scanned"
                                    ELSE "dropping"]
    /\ UNCHANGED <<row, clock, entry, file, job, op, side, handed, confirm,
                   ops, faults>>

\* It may not, or it failed: entry and scan file go.
runDrop(r) ==
    /\ run[r].pc \in {"dropping", "releasing"}
    /\ entry' = NoEntry
    /\ file' = (file /\ run[r].pc = "releasing")
    /\ run' = [run EXCEPT ![r] = NoRun]
    /\ UNCHANGED <<row, clock, job, op, side, handed, confirm, ops, faults>>

\* listener: a mark in the map ends the runnable.
listener(r) ==
    /\ run[r].pc = "scanned" /\ ~Locked(r)
    /\ entry.state \in {"paused", "cancelled"}
    /\ run' = [run EXCEPT ![r] = NoRun]
    /\ UNCHANGED <<row, clock, entry, file, job, op, side, handed, confirm,
                   ops, faults>>

Posting(r) ==
    /\ run[r].pc = "scanned" /\ ~Locked(r)
    /\ entry.state \notin {"paused", "cancelled"}

\* Processings.processing: the dispatcher takes the task ...
runPost(r) ==
    /\ Posting(r)
    /\ side' = "running"
    /\ handed' = handed + 1
    /\ run' = [run EXCEPT ![r].pc = "saving"]
    /\ UNCHANGED <<row, clock, entry, file, job, op, confirm, ops, faults>>

\* Wrong: the entry stays as it is.
runRefusedStuck(r) ==
    /\ Posting(r) /\ faults < MaxFaults
    /\ run' = [run EXCEPT ![r] = NoRun]
    /\ faults' = faults + 1
    /\ UNCHANGED <<row, clock, entry, file, job, op, side, handed, confirm,
                   ops>>

\* ... or does not, or its answer is lost: the entry waits again.
runRefused(r) ==
    /\ Posting(r) /\ faults < MaxFaults
    /\ \/ UNCHANGED <<side, handed>>
       \/ side' = "running" /\ handed' = handed + 1
    /\ Put("waiting", run[r].key)
    /\ run' = [run EXCEPT ![r] = NoRun]
    /\ faults' = faults + 1
    /\ UNCHANGED <<row, clock, file, job, op, confirm, ops>>

\* Wrong: the time of delivery is not set.
runSaveNoTime(r) ==
    /\ run[r].pc = "saving"
    /\ row' = [run[r].task EXCEPT !.status = "processing"]
    /\ entry' = NoEntry
    /\ run' = [run EXCEPT ![r] = NoRun]
    /\ UNCHANGED <<clock, file, job, op, side, handed, confirm, ops, faults>>

\* The answer is 200: the row is saved and the entry removed.
runSave(r) ==
    /\ run[r].pc = "saving"
    /\ row' = [run[r].task EXCEPT !.status = "processing", !.delivered = TRUE]
    /\ entry' = NoEntry
    /\ run' = [run EXCEPT ![r] = NoRun]
    /\ UNCHANGED <<clock, file, job, op, side, handed, confirm, ops, faults>>

(***************************************************************************)
(* The dispatcher, the clock and restarts.                                 *)
(***************************************************************************)

\* Api.taskCallback compares the text it got with a number, and a String
\* equals no Integer.
infoEquals(info, n) == FALSE

\* The status it would set.
Confirmed(action, status) ==
    CASE action = "pause" /\ status = "processing" -> "paused"
      [] action = "restart" /\ status = "paused" -> "processing"
      [] action = "stop" /\ status \in {"processing", "paused"} -> "cancelled"
      [] OTHER -> status

taskCallback ==
    /\ confirm # "none"
    /\ \E info \in {"0", "1"} :
         row' = [row EXCEPT !.status =
                   IF infoEquals(info, 0) THEN Confirmed(confirm, @)
                   ELSE IF infoEquals(info, 1) THEN "notfind" ELSE @]
    /\ confirm' = "none"
    /\ UNCHANGED <<clock, entry, file, job, run, op, side, handed, ops, faults>>

\* When the dispatcher is done, the cache database writes the status.
completed ==
    /\ side = "running"
    /\ side' = "done"
    /\ row' = [row EXCEPT !.status = "completed"]
    /\ UNCHANGED <<clock, entry, file, job, run, op, handed, confirm, ops,
                   faults>>

tick ==
    /\ row.code = "schedule" /\ clock # "due"
    /\ clock' = IF clock = "early" THEN "locked" ELSE "due"
    /\ UNCHANGED <<row, entry, file, job, run, op, side, handed, confirm, ops,
                   faults>>

\* The web application is restarted: rows and scan files are what is left.
crash ==
    /\ faults < MaxFaults
    /\ faults' = faults + 1
    /\ entry' = NoEntry
    /\ job' = [pc |-> "scan"]
    /\ run' = [r \in Runnables |-> NoRun]
    /\ op' = [u \in Users |-> NoOp]
    /\ UNCHANGED <<row, clock, file, side, handed, confirm, ops>>

-----------------------------------------------------------------------------
Preparing(r) == run[r].pc \in {"writing", "scanned", "saving"}
HandingOver(r) == run[r].pc \in {"scanned", "saving"}
Checking(r) == run[r].pc \in {"checking", "checked"}

\* What may happen that leaves the row, the map and the dispatcher apart:
\* a task that is to be sent has no scan file; runnables made from two
\* entries, which lock two Integers, look at the map at the same time.
Disturbances ==
    {d \in {"unfiled", "split"} :
        \/ /\ d = "unfiled"
           /\ Scanned(row) /\ ~file
           /\ ~\E u \in Users : op[u].pc = "file" /\ op[u].o.file = "create"
        \/ /\ d = "split"
           /\ \E q, r \in Runnables :
                Checking(q) /\ Checking(r) /\ run[q].key # run[r].key}

\* Others are steps: a handler's mark, or the job, replaces the entry of a
\* runnable at work; a handler saves a copy of a task that was handed over,
\* while the row is no longer what it has copied; the dispatcher takes the
\* task and that is not saved; a runnable fails for a task that was handed
\* over before.
StepDisturbances ==
    {d \in {"over", "stale", "doubt", "failed"} :
        \/ /\ d = "over" /\ entry.state = "processing" /\ run' = run
           /\ entry'.state # "processing"
        \/ /\ d = "stale" /\ handed > 0 /\ row' # row
           /\ \E u \in Users :
                op[u].pc = "save" /\ op'[u] # op[u] /\ op[u].task # row
        \/ \E r \in Runnables :
             \/ /\ d = "doubt" /\ HandingOver(r)
                /\ handed' > 0 /\ run'[r] = NoRun /\ row' = row
             \/ /\ d = "failed" /\ run[r].pc = "writing" /\ handed > 0
                /\ run'[r].pc \in {"dropping", "releasing"} /\ faults' > faults}

Init ==
    /\ row \in [status : {"reviewing"}, code : {"current", "schedule"},
                delivered : {FALSE}]
               \cup [status : {"queueing"}, code : {"current"},
                     delivered : {FALSE}]
               \cup [status : {"waited"}, code : {"schedule"},
                     delivered : {FALSE}]
    /\ clock = "early"
    /\ entry = NoEntry
    /\ file = (row.status # "reviewing")
    /\ job = [pc |-> "scan"]
    /\ run = [r \in Runnables |-> NoRun]
    /\ op = [u \in Users |-> NoOp]
    /\ side = "none"
    /\ handed = 0
    /\ confirm = "none"
    /\ ops = 0
    /\ faults = 0
    /\ why = {}

Step ==
    \/ \E u \in Users :
         \/ \E o \in Operations : opRead(u, o)
         \/ opMark(u) \/ opSave(u) \/ opFile(u) \/ opAsk(u)
    \/ jobScan \/ jobApply \/ jobPut \/ jobSkip
    \/ \E r \in Runnables :
         \/ jobSubmit(r)
         \/ runRead(r) \/ runCheck(r) \/ runTake(r) \/ runFail(r)
         \/ runScan(r) \/ runDrop(r) \/ listener(r)
         \/ runPost(r) \/ runRefused(r) \/ runSave(r)
    \/ taskCallback \/ completed \/ tick \/ crash

Noted == why' = why \cup Disturbances' \cup StepDisturbances

Next == Step /\ Noted

Spec == Init /\ [][Next]_vars

\* Handlers and runnables run to their end, the job is called every minute
\* and now and then finds a thread free, time passes, and confirmations
\* arrive.
Fairness ==
    /\ \A u \in Users :
         WF_vars((opMark(u) \/ opSave(u) \/ opFile(u) \/ opAsk(u)) /\ Noted)
    /\ WF_vars((jobScan \/ jobApply \/ jobPut \/ jobSkip) /\ Noted)
    /\ SF_vars((\E r \in Runnables : jobSubmit(r)) /\ Noted)
    /\ \A r \in Runnables :
         WF_vars(/\ \/ runRead(r) \/ runCheck(r) \/ runTake(r) \/ runScan(r)
                    \/ runDrop(r) \/ listener(r) \/ runPost(r) \/ runSave(r)
                 /\ Noted)
    /\ WF_vars((tick \/ taskCallback) /\ Noted)

LiveSpec == Spec /\ Fairness

-----------------------------------------------------------------------------
\* Type correctness.
TypeOK ==
    /\ row \in Row
    /\ clock \in {"early", "locked", "due"}
    /\ entry \in {NoEntry} \cup
         [state : {"waiting", "processing", "paused", "cancelled"}, key : Keys]
    /\ file \in BOOLEAN
    /\ job.pc \in {"scan", "apply", "put", "queue"}
    /\ \A r \in Runnables :
         run[r] \in {NoRun} \cup [pc : {"queued"}, key : Keys]
           \cup [pc : {"checking", "checked", "writing", "scanned", "saving",
                       "dropping", "releasing"},
                 key : Keys, task : Row]
    /\ \A u \in Users :
         op[u] \in {NoOp} \cup [pc : {"mark", "save", "file", "ask"},
                                o : Operations, task : Row]
    /\ side \in {"none", "running", "paused", "stopped", "done"}
    /\ handed \in Nat
    /\ confirm \in {"none", "pause", "restart", "stop"}
    /\ ops \in 0..MaxOps /\ faults \in 0..MaxFaults
    /\ why \subseteq {"unfiled", "split", "over", "stale", "doubt", "failed"}

\* The row was not left behind, and the map was not.
RowKept == why \cap {"stale", "doubt", "failed"} = {}
MapKept == why \cap {"split", "over"} = {}

\* One runnable prepares the task at a time, however many the job has given
\* to the executor and whenever each of them comes to run
\* (TaskJob.java:165-198): the entry PROCESSING keeps the others away until
\* the one that made it is done.  That fails only after a handler's mark or
\* the job's put replaced that entry (TaskJob.java:126, TaskAction.java:862),
\* or after runnables of two entries, which lock different Integers, looked
\* at the map at the same time.
OnePrepares ==
    MapKept => \A q, r \in Runnables : Preparing(q) /\ Preparing(r) => q = r

\* The dispatcher gets a task once, although the job submits a runnable for
\* a waiting entry in every round and each of them may come to run later
\* (TaskJob.java:169-181), and although the entry that would stop the second
\* one is removed by the first (TaskJob.java:254).
HandedOnce == RowKept /\ MapKept => handed <= 1

\* What the dispatcher has been given is shown as delivered, in one of the
\* statuses of a task at the dispatcher, or is about to be: operations
\* begun before, during or after the hand-over, runnables that come to run
\* after it and confirmations (whatever they set) do not take it back.
\* Excepted are the three ways in which the code loses it: a handler saves a
\* copy it read before the row changed (Task.xml:203-228 writes all
\* columns), the answer or the save is lost, and a later runnable fails and
\* saves the task as a draft or as waiting (TaskJob.java:267-287).
HandedIsShown ==
    RowKept /\ handed > 0 =>
        \/ row.delivered /\ row.status \in AtDispatcher
        \/ \E r \in Runnables : run[r].pc = "saving"

\* A task that is to be sent is handed over in the end, or something takes
\* it out of sending: no interleaving of the job's rounds, operations,
\* failures and restarts leaves it in the map or the database for ever,
\* unless it lost its scan file.
EventuallySent == Scanned(row) ~> (~Scanned(row) \/ "unfiled" \in why)
=============================================================================
