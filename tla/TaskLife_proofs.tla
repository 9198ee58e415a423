--------------------------- MODULE TaskLife_proofs ---------------------------
(***************************************************************************)
(* Proofs about TaskLife, for any number of runnables, sessions,           *)
(* operations and faults.                                                  *)
(*                                                                         *)
(* LifeInv has three parts beside the types.  As long as the map was kept, *)
(* a runnable at work has the entry PROCESSING for itself, and one that    *)
(* has looked at the map finds it still free.  As long as the row was      *)
(* kept, what the dispatcher has is shown as delivered or is about to be.  *)
(* As long as both were, a runnable that has looked the row up again has   *)
(* the task before the dispatcher has it.  Nothing is used of the two      *)
(* comparisons in taskCallback: confirmations may set what they would.     *)
(***************************************************************************)
EXTENDS TaskLife, FiniteSetTheorems, WellFoundedInduction, NaturalsInduction, TLAPS

Entries ==
  {NoEntry} \cup [state : {"waiting", "processing", "paused", "cancelled"}, key : Keys]

Working == {"checking", "checked", "writing", "scanned", "saving", "dropping", "releasing"}

RunStates ==
  {NoRun} \cup [pc : {"queued"}, key : Keys] \cup [pc : Working, key : Keys, task : Row]

(* A handler that marks or saves does not ask, and its copy is of a task    *)
(* that its operation is allowed on.                                        *)
OpRight(s) ==
  /\ s.pc \in {"mark", "save"} => s.o.ask = "none"
  /\ s.pc = "mark" => s.o.mark # "none"
  /\ s.pc = "ask" => s.o.ask # "none"
  /\ s.task.status \in s.o.from /\ s.task.delivered \in s.o.sent

OpStates ==
  {NoOp} \cup {s \in [pc : {"mark", "save", "file", "ask"}, o : Operations, task : Row] :
                 OpRight(s)}

Typed ==
  /\ row \in Row /\ clock \in {"early", "locked", "due"}
  /\ entry \in Entries /\ file \in BOOLEAN
  /\ job.pc \in {"scan", "apply", "put", "queue"}
  /\ run \in [Runnables -> RunStates]
  /\ op \in [Users -> OpStates]
  /\ side \in {"none", "running", "paused", "stopped", "done"}
  /\ handed \in Nat
  /\ confirm \in {"none", "pause", "restart", "stop"}
  /\ ops \in 0..MaxOps /\ faults \in 0..MaxFaults
  /\ why \subseteq {"unfiled", "split", "over", "stale", "doubt", "failed"}

(* The map: a runnable at work has the task for itself. *)
AtWork(r) == run[r].pc \in {"writing", "scanned", "saving", "dropping", "releasing"}
Alone == \A q, r \in Runnables : AtWork(q) /\ AtWork(r) => q = r
Taken == \A r \in Runnables : AtWork(r) => entry.state = "processing"
Free == \A r \in Runnables : run[r].pc = "checked" => entry.state # "processing"
OneChecks == \A q, r \in Runnables : Checking(q) /\ Checking(r) => q = r
MapInv == Alone /\ Taken /\ Free /\ OneChecks

(* The row: what was handed over is shown, or is about to be. *)
Saving == \E r \in Runnables : run[r].pc = "saving"
Shown == handed > 0 => (row.delivered /\ row.status \in AtDispatcher) \/ Saving

(* Both: what a runnable is about to send was not sent before. *)
Once == handed <= 1 /\ \A r \in Runnables : run[r].pc = "scanned" => handed = 0

LifeInv ==
  /\ Typed
  /\ MapKept => MapInv
  /\ RowKept => Shown
  /\ RowKept /\ MapKept => Once

-----------------------------------------------------------------------------
(* There is always an Integer that no runnable has, and a first one. *)
LEMMA UnusedKey ==
  ASSUME \A r \in Runnables : run[r].key \in Nat
  PROVE  \E k \in Keys : \A r \in Runnables : run[r].key # k
<1> DEFINE n == Cardinality(Runnables)
<1>1. n \in Nat /\ IsFiniteSet(Runnables)
  BY FS_CardinalityType, LifeAssumption
<1>2. IsFiniteSet(Keys) /\ Cardinality(Keys) = n + 1
  <2> HIDE DEF n
  <2>1. 1 \in Int /\ n + 1 \in Int
    BY <1>1
  <2>2. IsFiniteSet(1..(n + 1)) /\ Cardinality(1..(n + 1)) = IF 1 > n + 1 THEN 0 ELSE (n + 1) - 1 + 1
    BY <2>1, FS_Interval
  <2>3. Keys = 1..(n + 1)
    BY DEF Keys, n
  <2>q. QED
    BY <1>1, <2>2, <2>3
<1>3. SUFFICES ASSUME \A k \in Keys : \E r \in Runnables : run[r].key = k
               PROVE  FALSE
  OBVIOUS
<1> DEFINE f == [k \in Keys |-> CHOOSE r \in Runnables : run[r].key = k]
<1>4. \A k \in Keys : f[k] \in Runnables /\ run[f[k]].key = k
  BY <1>3
<1>5. f \in [Keys -> Runnables]
  BY <1>4
<1>6. Cardinality(Runnables) < Cardinality(Keys)
  BY <1>1, <1>2
<1>7. PICK x, y \in Keys : x # y /\ f[x] = f[y]
  <2> HIDE DEF f
  <2>q. QED
    BY <1>1, <1>2, <1>5, <1>6, FS_PigeonHole
<1>q. QED
  <2> HIDE DEF f
  <2>q. QED
    BY <1>4, <1>7

LEMMA FirstKey ==
  ASSUME \A r \in Runnables : run[r].key \in Nat
  PROVE  NewKey \in Keys
<1> DEFINE T == {k \in Keys : \A r \in Runnables : run[r].key # k}
           R == OpToRel(<, Nat)
<1>1. Keys \subseteq Nat /\ \A k \in Keys : \A j \in 1..(k - 1) : j \in Keys /\ j < k
  <2>1. Cardinality(Runnables) \in Nat
    BY FS_CardinalityType, LifeAssumption
  <2>q. QED
    BY <2>1 DEF Keys
<1>2. T # {} /\ T \subseteq Nat
  BY <1>1, UnusedKey
<1>3. IsWellFoundedOn(R, Nat)
  BY NatLessThanWellFounded
<1>4. PICK x \in T : \A y \in T : <<y, x>> \notin R
  <2> HIDE DEF R, T
  <2>q. QED
    BY <1>2, <1>3, WFMin
<1>5. \A y \in T : ~(y < x)
  BY <1>2, <1>4 DEF OpToRel
<1>6. /\ x \in Keys /\ \A r \in Runnables : run[r].key # x
      /\ \A j \in 1..(x - 1) : \E r \in Runnables : run[r].key = j
  <2>1. \A j \in 1..(x - 1) : j \in Keys /\ j < x
    BY <1>1, <1>4
  <2>q. QED
    BY <1>4, <1>5, <2>1
<1>q. QED
  BY <1>6, Zenon DEF NewKey

LEMMA KeysTyped ==
  ASSUME Typed
  PROVE  /\ \A r \in Runnables : run[r] \in RunStates /\ run[r].key \in Nat
         /\ NewKey \in Keys
<1>1. Cardinality(Runnables) \in Nat
  BY FS_CardinalityType, LifeAssumption
<1>2. \A r \in Runnables : run[r] \in RunStates
  BY DEF Typed
<1>3. \A s \in RunStates : s.key \in Nat
  BY <1>1 DEF RunStates, NoRun, Keys
<1>q. QED
  BY <1>2, <1>3, FirstKey

(* What an entry, a runnable and a handler hold *)
LEMMA EntryFields ==
  ASSUME NEW e \in Entries
  PROVE  /\ e # NoEntry => e.key \in Keys
         /\ e.state \in {"waiting", "processing", "paused", "cancelled"} => e.key \in Keys
         /\ NoEntry \in Entries
         /\ \A s \in {"waiting", "processing", "paused", "cancelled"}, k \in Keys :
              [state |-> s, key |-> k] \in Entries
BY DEF Entries, NoEntry

LEMMA PutTyped ==
  ASSUME entry \in Entries, NEW k \in Keys,
         NEW s \in {"waiting", "processing", "paused", "cancelled"}, Put(s, k)
  PROVE  entry' \in Entries
<1>1. entry' = [state |-> s, key |-> IF entry = NoEntry THEN k ELSE entry.key]
  BY DEF Put
<1>2. (IF entry = NoEntry THEN k ELSE entry.key) \in Keys
  BY EntryFields
<1>q. QED
  BY <1>1, <1>2, EntryFields

LEMMA RunFields ==
  ASSUME NEW s \in RunStates, s.pc # "none"
  PROVE  /\ s.key \in Keys
         /\ s.pc = "queued" => \A t \in Row : [pc |-> "checking", key |-> s.key, task |-> t] \in RunStates
         /\ s.pc # "queued" => /\ s.task \in Row /\ s.pc \in Working
                               /\ \A p \in Working : /\ [s EXCEPT !.pc = p] \in RunStates
                                                     /\ [s EXCEPT !.pc = p].pc = p
<1>1. s \in [pc : {"queued"}, key : Keys] \cup [pc : Working, key : Keys, task : Row]
  BY DEF RunStates, NoRun
<1>2. CASE s \in [pc : {"queued"}, key : Keys]
  BY <1>2 DEF RunStates, Working
<1>3. CASE s \in [pc : Working, key : Keys, task : Row]
  BY <1>3 DEF RunStates, Working
<1>q. QED
  BY <1>1, <1>2, <1>3

LEMMA OpFields ==
  ASSUME NEW s \in OpStates, s # NoOp
  PROVE  /\ s.o \in Operations /\ s.task \in Row /\ OpRight(s)
         /\ s.pc \in {"mark", "save", "file", "ask"}
         /\ [s EXCEPT !.pc = "file"] \in OpStates
         /\ s.pc = "mark" => [s EXCEPT !.pc = "save"] \in OpStates
<1>1. s \in [pc : {"mark", "save", "file", "ask"}, o : Operations, task : Row] /\ OpRight(s)
  BY DEF OpStates
<1>2. \A p \in {"save", "file"} :
        /\ [s EXCEPT !.pc = p] \in [pc : {"mark", "save", "file", "ask"}, o : Operations, task : Row]
        /\ [s EXCEPT !.pc = p].pc = p /\ [s EXCEPT !.pc = p].o = s.o
  BY <1>1
<1>3. \A p \in {"save", "file"} : [s EXCEPT !.pc = p].task = s.task
  BY <1>1
<1>4. OpRight([s EXCEPT !.pc = "file"])
  BY <1>3, <1>1, <1>2 DEF OpRight
<1>5. s.pc = "mark" => OpRight([s EXCEPT !.pc = "save"])
  BY <1>3, <1>1, <1>2 DEF OpRight
<1>q. QED
  BY <1>1, <1>2, <1>4, <1>5 DEF OpStates

LEMMA IdlePc == NoOp.pc = "idle" /\ NoRun.pc = "none" /\ NoOp \in OpStates /\ NoRun \in RunStates
BY DEF NoOp, NoRun, OpStates, RunStates

(* What the operations save, mark and ask: one that is allowed on a task    *)
(* that is at the dispatcher only asks.                                     *)
Marks == {"none", "waiting", "paused", "cancelled"}
Asks == {"pause", "restart", "stop"}

Fits(o) ==
  /\ o.ask = "none" => o.to \in Statuses \cup {"sent"}
  /\ o.ask \in {"none"} \cup Asks
  /\ o.mark \in Marks
  /\ o.from \cap AtDispatcher # {} /\ TRUE \in o.sent => o.ask # "none"

LEMMA EditFits ==
  ASSUME NEW name, NEW from, NEW sent, NEW mark \in Marks, NEW to \in Statuses \cup {"sent"},
         NEW scanFile, from \cap AtDispatcher = {} \/ TRUE \notin sent
  PROVE  Fits(Edit(name, from, sent, mark, to, scanFile))
BY DEF Fits, Edit

LEMMA AskFits ==
  ASSUME NEW name, NEW from, NEW ask \in Asks
  PROVE  Fits(Ask(name, from, ask))
BY DEF Fits, Ask, Marks, Asks

LEMMA OperationFits ==
  ASSUME NEW o \in Operations
  PROVE  Fits(o)
<1>1. CASE o \in cancel \cup del \cup audit
  <2>1. Fits(Edit("cancel", {"waited"}, BOOLEAN, "cancelled", "cancelled", "delete"))
    BY EditFits DEF Marks, Statuses, AtDispatcher
  <2>2. Fits(Edit("del", {"drafted", "return"}, BOOLEAN, "none", "deleted", "keep"))
    BY EditFits DEF Marks, Statuses, AtDispatcher
  <2>3. /\ Fits(Edit("passed", {"reviewing"}, BOOLEAN, "none", "sent", "create"))
        /\ Fits(Edit("returned", {"reviewing"}, BOOLEAN, "none", "return", "keep"))
    BY EditFits DEF Marks, Statuses, AtDispatcher
  <2>q. QED
    BY <1>1, <2>1, <2>2, <2>3 DEF cancel, del, audit
<1>2. CASE o \in pause
  <2>1. /\ Fits(Edit("pause", {"queueing"}, BOOLEAN, "paused", "paused", "delete"))
        /\ Fits(Edit("pause", {"processing"}, {FALSE}, "none", "paused", "delete"))
    BY EditFits DEF Marks, Statuses, AtDispatcher
  <2>2. Fits(Ask("pause", {"processing"}, "pause"))
    BY AskFits DEF Asks
  <2>q. QED
    BY <1>2, <2>1, <2>2 DEF pause
<1>3. CASE o \in restart
  <2>1. Fits(Edit("restart", {"paused"}, {FALSE}, "waiting", "processing", "create"))
    BY EditFits DEF Marks, Statuses, AtDispatcher
  <2>2. Fits(Ask("restart", {"paused"}, "restart"))
    BY AskFits DEF Asks
  <2>q. QED
    BY <1>3, <2>1, <2>2 DEF restart
<1>4. CASE o \in stop
  <2>1. /\ Fits(Edit("stop", {"queueing"}, BOOLEAN, "cancelled", "cancelled", "delete"))
        /\ Fits(Edit("stop", {"processing", "paused"}, {FALSE}, "none", "cancelled", "delete"))
    BY EditFits DEF Marks, Statuses, AtDispatcher
  <2>2. Fits(Ask("stop", {"processing", "paused"}, "stop"))
    BY AskFits DEF Asks
  <2>q. QED
    BY <1>4, <2>1, <2>2 DEF stop
<1>5. CASE o \in createTask
  <2>1. PICK to \in {"drafted", "reviewing", "sent"} :
          o = Edit("add", {"drafted", "return", "waited"}, BOOLEAN, "none", to,
                   IF to = "sent" THEN "create" ELSE "keep")
    BY <1>5, Zenon DEF createTask
  <2>2. "none" \in Marks /\ to \in Statuses \cup {"sent"}
    BY DEF Marks, Statuses, AtDispatcher
  <2>3. {"drafted", "return", "waited"} \cap AtDispatcher = {}
    BY DEF AtDispatcher
  <2>q. QED
    BY <2>1, <2>2, <2>3, EditFits
<1>q. QED
  BY <1>1, <1>2, <1>3, <1>4, <1>5 DEF Operations

-----------------------------------------------------------------------------
(* Types *)
LEMMA TypedInit == Init => Typed
<1> SUFFICES ASSUME Init PROVE Typed
  OBVIOUS
<1>1. row \in Row /\ row.status \in {"reviewing", "queueing", "waited"}
  BY DEF Init, Row, Statuses
<1>2. run \in [Runnables -> RunStates] /\ op \in [Users -> OpStates]
  BY IdlePc DEF Init
<1>3. entry \in Entries /\ file \in BOOLEAN
  BY DEF Init, Entries
<1>4. ops \in 0..MaxOps /\ faults \in 0..MaxFaults /\ handed \in Nat
  BY LifeAssumption DEF Init
<1>5. job.pc = "scan"
  BY DEF Init
<1>q. QED
  BY <1>1, <1>2, <1>3, <1>4, <1>5 DEF Init, Typed

LEMMA NotedTyped ==
  ASSUME Typed, Noted
  PROVE  why' \subseteq {"unfiled", "split", "over", "stale", "doubt", "failed"}
<1>1. Disturbances' \subseteq {"unfiled", "split"}
  BY DEF Disturbances
<1>2. StepDisturbances \subseteq {"over", "stale", "doubt", "failed"}
  BY DEF StepDisturbances
<1>q. QED
  BY <1>1, <1>2 DEF Typed, Noted

(* A handler's steps *)
LEMMA ReadTyped ==
  ASSUME Typed, Noted, NEW u \in Users, NEW o \in Operations, opRead(u, o)
  PROVE  Typed'
<1> DEFINE p == IF o.ask # "none" THEN "ask" ELSE IF o.mark # "none" THEN "mark" ELSE "save"
           s == [pc |-> p, o |-> o, task |-> row]
<1>1. op' = [op EXCEPT ![u] = s] /\ ops' = ops + 1 /\ ops < MaxOps
  BY DEF opRead
<1>2. s \in OpStates
  BY DEF OpStates, OpRight, Typed, opRead
<1>3. op' \in [Users -> OpStates]
  <2> HIDE DEF s
  <2>q. QED
    BY <1>1, <1>2 DEF Typed
<1>4. ops' \in 0..MaxOps
  BY <1>1, LifeAssumption DEF Typed
<1>q. QED
  BY <1>3, <1>4, NotedTyped DEF Typed, opRead

LEMMA MarkTyped ==
  ASSUME Typed, Noted, NEW u \in Users, opMark(u)
  PROVE  Typed'
<1>1. op[u] \in OpStates /\ op[u].pc = "mark" /\ op[u] # NoOp
  BY IdlePc DEF Typed, opMark
<1>2. op' = [op EXCEPT ![u] = [op[u] EXCEPT !.pc = "save"]]
  BY DEF opMark
<1>3. op' \in [Users -> OpStates]
  BY <1>1, <1>2, OpFields DEF Typed
<1>4. op[u].o.mark \in {"waiting", "paused", "cancelled"}
  BY <1>1, OpFields, OperationFits DEF OpRight, Fits, Marks
<1>5. Put(op[u].o.mark, NewKey)
  BY DEF opMark
<1>6. entry' \in Entries
  BY <1>4, <1>5, KeysTyped, PutTyped DEF Typed
<1>q. QED
  BY <1>3, <1>6, NotedTyped DEF Typed, opMark

LEMMA SaveTyped ==
  ASSUME Typed, Noted, NEW u \in Users, opSave(u)
  PROVE  Typed'
<1>1. op[u] \in OpStates /\ op[u].pc = "save" /\ op[u] # NoOp
  BY IdlePc DEF Typed, opSave
<1>2. PICK code \in IF op[u].o.name = "add" THEN {"current", "schedule"} ELSE {op[u].task.code} :
        row' = [op[u].task EXCEPT !.status = IF op[u].o.to = "sent" THEN moderate(code)
                                             ELSE op[u].o.to,
                                  !.code = code]
  BY DEF opSave
<1>3. op[u].task \in Row /\ op[u].o.to \in Statuses \cup {"sent"}
  BY <1>1, OpFields, OperationFits DEF OpRight, Fits
<1>4. code \in {"current", "schedule"}
  BY <1>2, <1>3 DEF Row
<1>5. row' \in Row
  BY <1>2, <1>3, <1>4 DEF Row, moderate, Statuses
<1>6. clock' \in {"early", "locked", "due"}
  BY DEF opSave, Typed
<1>7. op' \in [Users -> OpStates]
  BY <1>1, OpFields, IdlePc DEF Typed, opSave
<1>q. QED
  BY <1>5, <1>6, <1>7, NotedTyped DEF Typed, opSave

LEMMA FileTyped ==
  ASSUME Typed, Noted, NEW u \in Users, opFile(u)
  PROVE  Typed'
<1>1. op' \in [Users -> OpStates]
  BY IdlePc DEF Typed, opFile
<1>2. file' \in BOOLEAN
  BY DEF opFile
<1>q. QED
  BY <1>1, <1>2, NotedTyped DEF Typed, opFile

LEMMA AskTyped ==
  ASSUME Typed, Noted, NEW u \in Users, opAsk(u)
  PROVE  Typed'
<1>1. op' \in [Users -> OpStates]
  BY IdlePc DEF Typed, opAsk
<1>2. op[u] \in OpStates /\ op[u].pc = "ask" /\ op[u] # NoOp
  BY IdlePc DEF Typed, opAsk
<1>3. op[u].o.ask \in Asks
  BY <1>2, OpFields, OperationFits DEF OpRight, Fits
<1>4. Obeyed(op[u].o.ask) \in {"running", "paused", "stopped"}
  BY <1>3 DEF Obeyed, Asks
<1>5. side' \in {"none", "running", "paused", "stopped", "done"}
  BY <1>4 DEF opAsk, Typed
<1>6. confirm' \in {"none", "pause", "restart", "stop"}
  BY <1>3 DEF opAsk, Typed, Asks
<1>q. QED
  BY <1>1, <1>5, <1>6, NotedTyped DEF Typed, opAsk

(* The job's steps *)
LEMMA JobTyped ==
  ASSUME Typed, Noted, jobScan \/ jobApply \/ jobPut \/ jobSkip
  PROVE  Typed'
<1>1. CASE jobScan
  <2>1. job'.pc = "apply"
    BY <1>1 DEF jobScan
  <2>q. QED
    BY <1>1, <2>1, NotedTyped DEF Typed, jobScan
<1>2. CASE jobApply
  <2>1. job'.pc \in {"put", "queue"} /\ file' \in BOOLEAN
    BY <1>2 DEF jobApply
  <2>q. QED
    BY <1>2, <2>1, NotedTyped DEF Typed, jobApply
<1>4. CASE jobPut
  <2>1. job'.pc = "queue"
    BY <1>4 DEF jobPut
  <2>2. entry' \in Entries
    BY <1>4, KeysTyped, PutTyped DEF Typed, jobPut
  <2>q. QED
    BY <1>4, <2>1, <2>2, NotedTyped DEF Typed, jobPut
<1>3. CASE jobSkip
  <2>1. job'.pc = "scan"
    BY <1>3 DEF jobSkip
  <2>2. entry' \in Entries
    BY <1>3 DEF Typed, jobSkip, Entries
  <2>q. QED
    BY <1>3, <2>1, <2>2, NotedTyped DEF Typed, jobSkip
<1>q. QED
  BY <1>1, <1>2, <1>3, <1>4

(* A runnable's steps: its own state, and what else changes. *)
LEMMA RunTo ==
  ASSUME Typed, NEW r \in Runnables, NEW s \in RunStates, run' = [run EXCEPT ![r] = s]
  PROVE  run' \in [Runnables -> RunStates]
BY DEF Typed

LEMMA RunAt ==
  ASSUME Typed, NEW r \in Runnables, run[r].pc # "none", run[r].pc # "queued"
  PROVE  /\ run[r].key \in Keys /\ run[r].task \in Row
         /\ \A p \in Working : [run[r] EXCEPT !.pc = p] \in RunStates
BY RunFields, KeysTyped

LEMMA SubmitTyped ==
  ASSUME Typed, Noted, NEW r \in Runnables, jobSubmit(r)
  PROVE  Typed'
<1>1. entry.key \in Keys
  BY EntryFields DEF Typed, jobSubmit
<1>2. [pc |-> "queued", key |-> entry.key] \in RunStates
  BY <1>1 DEF RunStates
<1>3. run' \in [Runnables -> RunStates]
  BY <1>2, RunTo DEF jobSubmit
<1>4. job'.pc = "scan"
  BY DEF jobSubmit
<1>q. QED
  BY <1>3, <1>4, NotedTyped DEF Typed, jobSubmit

LEMMA RowReadTyped ==
  ASSUME Typed, Noted, NEW r \in Runnables, runRead(r)
  PROVE  Typed'
<1>1. run[r] \in RunStates /\ run[r].pc = "queued" /\ row \in Row
  BY KeysTyped DEF runRead, Typed
<1>2. [pc |-> "checking", key |-> run[r].key, task |-> row] \in RunStates
  BY <1>1, RunFields
<1>3. run' = [run EXCEPT ![r] = [pc |-> "checking", key |-> run[r].key, task |-> row]]
  BY DEF runRead
<1>4. run' \in [Runnables -> RunStates]
  BY <1>2, <1>3, RunTo
<1>q. QED
  BY <1>4, NotedTyped DEF Typed, runRead

LEMMA CheckTyped ==
  ASSUME Typed, Noted, NEW r \in Runnables, runCheck(r)
  PROVE  Typed'
<1>1. [run[r] EXCEPT !.pc = "checked"] \in RunStates
  BY RunAt DEF runCheck, Working
<1>2. \/ run' = [run EXCEPT ![r] = NoRun]
      \/ run' = [run EXCEPT ![r] = [run[r] EXCEPT !.pc = "checked"]]
  BY DEF runCheck
<1>3. run' \in [Runnables -> RunStates]
  BY <1>1, <1>2, RunTo, IdlePc
<1>q. QED
  BY <1>3, NotedTyped DEF Typed, runCheck

LEMMA TakeTyped ==
  ASSUME Typed, Noted, NEW r \in Runnables, runTake(r)
  PROVE  Typed'
<1>1. run[r].key \in Keys /\ [run[r] EXCEPT !.pc = "writing"] \in RunStates
  BY RunAt DEF runTake, Working
<1>2. run' = [run EXCEPT ![r] = [run[r] EXCEPT !.pc = "writing"]] /\ Put("processing", run[r].key)
  BY DEF runTake
<1>3. run' \in [Runnables -> RunStates] /\ entry' \in Entries
  BY <1>1, <1>2, RunTo, PutTyped DEF Typed
<1>q. QED
  BY <1>3, NotedTyped DEF Typed, runTake

LEMMA FailTyped ==
  ASSUME Typed, Noted, NEW r \in Runnables, runFail(r)
  PROVE  Typed'
<1>1. PICK draft \in BOOLEAN :
        /\ row' = [run[r].task EXCEPT !.status = IF draft THEN "drafted"
                                                 ELSE moderate(run[r].task.code)]
        /\ run' = [run EXCEPT ![r].pc = IF draft THEN "dropping" ELSE "releasing"]
  BY DEF runFail
<1> DEFINE p == IF draft THEN "dropping" ELSE "releasing"
<1>2. run[r].task \in Row /\ [run[r] EXCEPT !.pc = p] \in RunStates
  BY RunAt DEF runFail, Working
<1>3. run' = [run EXCEPT ![r] = [run[r] EXCEPT !.pc = p]]
  BY <1>1
<1>4. run' \in [Runnables -> RunStates]
  <2> HIDE DEF p
  <2>q. QED
    BY <1>2, <1>3, RunTo
<1>5. row' \in Row
  BY <1>1, <1>2 DEF Row, moderate, Statuses
<1>6. faults' \in 0..MaxFaults
  BY LifeAssumption DEF Typed, runFail
<1>q. QED
  BY <1>4, <1>5, <1>6, NotedTyped DEF Typed, runFail

LEMMA LookTyped ==
  ASSUME Typed, Noted, NEW r \in Runnables, runScan(r)
  PROVE  Typed'
<1> DEFINE p == IF Scanned(row) THEN "scanned" ELSE "dropping"
<1>1. [run[r] EXCEPT !.pc = p] \in RunStates
  BY RunAt DEF runScan, Working
<1>2. run' = [run EXCEPT ![r] = [run[r] EXCEPT !.pc = p]]
  BY DEF runScan
<1>3. run' \in [Runnables -> RunStates]
  <2> HIDE DEF p
  <2>q. QED
    BY <1>1, <1>2, RunTo
<1>q. QED
  BY <1>3, NotedTyped DEF Typed, runScan

LEMMA EndTyped ==
  ASSUME Typed, Noted, NEW r \in Runnables, runDrop(r) \/ listener(r)
  PROVE  Typed'
<1>1. run' \in [Runnables -> RunStates]
  BY RunTo, IdlePc DEF runDrop, listener
<1>2. entry' \in Entries /\ file' \in BOOLEAN
  BY DEF runDrop, listener, Typed, Entries
<1>q. QED
  BY <1>1, <1>2, NotedTyped DEF Typed, runDrop, listener

LEMMA PostTyped ==
  ASSUME Typed, Noted, NEW r \in Runnables, runPost(r)
  PROVE  Typed'
<1>1. [run[r] EXCEPT !.pc = "saving"] \in RunStates
  BY RunAt DEF runPost, Posting, Working
<1>2. run' = [run EXCEPT ![r] = [run[r] EXCEPT !.pc = "saving"]]
  BY DEF runPost
<1>3. run' \in [Runnables -> RunStates]
  BY <1>1, <1>2, RunTo
<1>4. handed' \in Nat
  BY DEF runPost, Typed
<1>q. QED
  BY <1>3, <1>4, NotedTyped DEF Typed, runPost

LEMMA RefusedTyped ==
  ASSUME Typed, Noted, NEW r \in Runnables, runRefused(r)
  PROVE  Typed'
<1>1. run' \in [Runnables -> RunStates]
  BY RunTo, IdlePc DEF runRefused
<1>2. run[r].key \in Keys
  BY RunAt DEF runRefused, Posting
<1>3. entry' \in Entries
  BY <1>2, PutTyped DEF Typed, runRefused
<1>4. handed' \in Nat /\ side' \in {"none", "running", "paused", "stopped", "done"}
  BY DEF runRefused, Typed
<1>5. faults' \in 0..MaxFaults
  BY LifeAssumption DEF Typed, runRefused
<1>q. QED
  BY <1>1, <1>3, <1>4, <1>5, NotedTyped DEF Typed, runRefused

LEMMA StoredTyped ==
  ASSUME Typed, Noted, NEW r \in Runnables, runSave(r)
  PROVE  Typed'
<1>1. run' \in [Runnables -> RunStates]
  BY RunTo, IdlePc DEF runSave
<1>2. run[r].task \in Row
  BY RunAt DEF runSave
<1>3. row' \in Row
  BY <1>2 DEF runSave, Row, Statuses
<1>4. entry' \in Entries
  BY DEF runSave, Entries
<1>q. QED
  BY <1>1, <1>3, <1>4, NotedTyped DEF Typed, runSave

(* The dispatcher, the clock and a restart.  Whatever a confirmation sets,  *)
(* a task at the dispatcher is one still, and delivery_time stays.          *)
LEMMA CallbackRow ==
  ASSUME Typed, taskCallback
  PROVE  /\ row' \in Row /\ row'.delivered = row.delivered
         /\ row.status \in AtDispatcher => row'.status \in AtDispatcher
<1>1. PICK info \in {"0", "1"} :
         row' = [row EXCEPT !.status =
                   IF infoEquals(info, 0) THEN Confirmed(confirm, row.status)
                   ELSE IF infoEquals(info, 1) THEN "notfind" ELSE row.status]
  BY DEF taskCallback
<1>2. /\ Confirmed(confirm, row.status) \in Statuses
      /\ row.status \in AtDispatcher => Confirmed(confirm, row.status) \in AtDispatcher
  BY DEF Confirmed, Statuses, AtDispatcher, Typed, Row
<1>3. PICK s \in Statuses : /\ row' = [row EXCEPT !.status = s]
                            /\ row.status \in AtDispatcher => s \in AtDispatcher
  <2> DEFINE s == IF infoEquals(info, 0) THEN Confirmed(confirm, row.status)
                  ELSE IF infoEquals(info, 1) THEN "notfind" ELSE row.status
  <2>1. s \in Statuses /\ (row.status \in AtDispatcher => s \in AtDispatcher)
    BY <1>2 DEF Statuses, AtDispatcher, Typed, Row
  <2>q. QED
    BY <1>1, <2>1
<1>q. QED
  BY <1>3 DEF Typed, Row

LEMMA OutsideTyped ==
  ASSUME Typed, Noted, taskCallback \/ completed \/ tick \/ crash
  PROVE  Typed'
<1>1. CASE taskCallback
  BY <1>1, CallbackRow, NotedTyped DEF Typed, taskCallback
<1>2. CASE completed
  <2>1. row' \in Row
    BY <1>2 DEF completed, Typed, Row, Statuses
  <2>q. QED
    BY <1>2, <2>1, NotedTyped DEF Typed, completed
<1>3. CASE tick
  BY <1>3, NotedTyped DEF Typed, tick
<1>4. CASE crash
  <2>1. run' \in [Runnables -> RunStates] /\ op' \in [Users -> OpStates]
    BY <1>4, IdlePc DEF crash
  <2>2. job'.pc = "scan" /\ entry' \in Entries
    BY <1>4 DEF crash, Entries
  <2>3. faults' \in 0..MaxFaults
    BY <1>4, LifeAssumption DEF Typed, crash
  <2>q. QED
    BY <1>4, <2>1, <2>2, <2>3, NotedTyped DEF Typed, crash
<1>q. QED
  BY <1>1, <1>2, <1>3, <1>4

LEMMA TypedNext == Typed /\ [Next]_vars => Typed'
<1> SUFFICES ASSUME Typed, [Next]_vars PROVE Typed'
  OBVIOUS
<1>1. CASE UNCHANGED vars
  BY <1>1 DEF Typed, vars
<1>2. CASE Step /\ Noted
  <2>1. ASSUME NEW u \in Users, NEW o \in Operations, opRead(u, o) PROVE Typed'
    BY <1>2, <2>1, ReadTyped
  <2>2. ASSUME NEW u \in Users, opMark(u) \/ opSave(u) \/ opFile(u) \/ opAsk(u) PROVE Typed'
    BY <1>2, <2>2, MarkTyped, SaveTyped, FileTyped, AskTyped
  <2>3. ASSUME NEW r \in Runnables,
               jobSubmit(r) \/ runRead(r) \/ runCheck(r) \/ runTake(r) \/ runFail(r)
        PROVE  Typed'
    BY <1>2, <2>3, SubmitTyped, RowReadTyped, CheckTyped, TakeTyped, FailTyped
  <2>4. ASSUME NEW r \in Runnables, runScan(r) \/ runDrop(r) \/ listener(r) PROVE Typed'
    BY <1>2, <2>4, LookTyped, EndTyped
  <2>5. ASSUME NEW r \in Runnables, runPost(r) \/ runRefused(r) \/ runSave(r) PROVE Typed'
    BY <1>2, <2>5, PostTyped, RefusedTyped, StoredTyped
  <2>q. QED
    BY <1>2, <2>1, <2>2, <2>3, <2>4, <2>5, JobTyped, OutsideTyped DEF Step
<1>q. QED
  BY <1>1, <1>2 DEF Next

LEMMA TypedTypeOK == Typed => TypeOK
BY DEF Typed, TypeOK, Entries, RunStates, OpStates, Working

-----------------------------------------------------------------------------
(* As long as something is kept, nothing that would lose it has happened. *)
LEMMA KeptRow ==
  ASSUME Noted, RowKept'
  PROVE  /\ RowKept
         /\ \A u \in Users : ~(/\ handed > 0 /\ row' # row /\ op[u].pc = "save"
                               /\ op'[u] # op[u] /\ op[u].task # row)
         /\ \A r \in Runnables : ~(HandingOver(r) /\ handed' > 0 /\ run'[r] = NoRun /\ row' = row)
         /\ \A r \in Runnables : ~(/\ run[r].pc = "writing" /\ handed > 0 /\ faults' > faults
                                   /\ run'[r].pc \in {"dropping", "releasing"})
<1>1. /\ RowKept /\ "stale" \notin StepDisturbances /\ "doubt" \notin StepDisturbances
      /\ "failed" \notin StepDisturbances
  BY DEF Noted, RowKept
<1>q. QED
  BY <1>1 DEF StepDisturbances

LEMMA KeptMap ==
  ASSUME Noted, MapKept'
  PROVE  /\ MapKept
         /\ ~(entry.state = "processing" /\ run' = run /\ entry'.state # "processing")
         /\ \A q, r \in Runnables : Checking(q)' /\ Checking(r)' => run'[q].key = run'[r].key
<1>1. /\ MapKept /\ "over" \notin StepDisturbances /\ "split" \notin Disturbances'
  BY DEF Noted, MapKept
<1>q. QED
  BY <1>1 DEF StepDisturbances, Disturbances

(* A step of one runnable: where it stands then, and the others as before. *)
LEMMA RunMoves ==
  ASSUME Typed, NEW r \in Runnables, NEW s, run' = [run EXCEPT ![r] = s]
  PROVE  run'[r] = s /\ \A q \in Runnables : q # r => run'[q] = run[q]
BY DEF Typed

LEMMA RunSteps ==
  ASSUME Typed, NEW r \in Runnables, run[r].pc \in Working, NEW p \in Working,
         run' = [run EXCEPT ![r].pc = p]
  PROVE  /\ run'[r].pc = p /\ run'[r].key = run[r].key
         /\ \A q \in Runnables : q # r => run'[q] = run[q]
<1>1. run[r] \in [pc : Working, key : Keys, task : Row]
  BY KeysTyped DEF RunStates, Working, NoRun
<1>2. run' = [run EXCEPT ![r] = [run[r] EXCEPT !.pc = p]]
  OBVIOUS
<1>3. [run[r] EXCEPT !.pc = p].pc = p /\ [run[r] EXCEPT !.pc = p].key = run[r].key
  BY <1>1
<1>q. QED
  BY <1>2, <1>3, RunMoves

-----------------------------------------------------------------------------
(* The map *)
LEMMA MapStays ==
  ASSUME MapInv, run' = run,
         entry.state = "processing" <=> entry'.state = "processing"
  PROVE  MapInv'
BY DEF MapInv, Alone, Taken, Free, OneChecks, AtWork, Checking

(* A runnable that is at work goes on, or is done and the entry with it. *)
LEMMA MapOn ==
  ASSUME MapInv, NEW r \in Runnables, AtWork(r),
         run'[r].pc \notin {"checking", "checked"},
         \A q \in Runnables : q # r => run'[q] = run[q],
         entry'.state = entry.state \/ (~AtWork(r)' /\ entry'.state # "processing")
  PROVE  MapInv'
<1>1. \A q \in Runnables : q # r => ~AtWork(q)'
  BY DEF MapInv, Alone, AtWork
<1>2. Alone'
  BY <1>1 DEF Alone
<1>3. Taken'
  BY <1>1 DEF Taken, MapInv
<1>4. Free' /\ OneChecks'
  BY DEF MapInv, Free, OneChecks, Checking
<1>q. QED
  BY <1>2, <1>3, <1>4 DEF MapInv

LEMMA HandlerMap ==
  ASSUME Typed, MapInv, Noted, MapKept', NEW u \in Users,
         opMark(u) \/ opSave(u) \/ opFile(u) \/ opAsk(u)
  PROVE  MapInv'
<1>1. run' = run
  BY DEF opMark, opSave, opFile, opAsk
<1>2. CASE opMark(u)
  <2>1. op[u] \in OpStates /\ op[u].pc = "mark" /\ op[u] # NoOp
    BY <1>2, IdlePc DEF Typed, opMark
  <2>2. op[u].o.mark \in {"waiting", "paused", "cancelled"}
    BY <2>1, OpFields, OperationFits DEF OpRight, Fits, Marks
  <2>3. entry'.state # "processing"
    BY <1>2, <2>2 DEF opMark, Put
  <2>q. QED
    BY <1>1, <2>3, KeptMap, MapStays
<1>3. CASE opSave(u) \/ opFile(u) \/ opAsk(u)
  <2>1. entry' = entry
    BY <1>3 DEF opSave, opFile, opAsk
  <2>q. QED
    BY <1>1, <2>1, MapStays
<1>q. QED
  BY <1>2, <1>3

LEMMA JobMap ==
  ASSUME Typed, MapInv, Noted, MapKept', jobScan \/ jobApply \/ jobPut \/ jobSkip
  PROVE  MapInv'
<1>1. run' = run
  BY DEF jobScan, jobApply, jobPut, jobSkip
<1>2. CASE jobPut
  <2>1. entry'.state = "waiting"
    BY <1>2 DEF jobPut, Put
  <2>q. QED
    BY <1>1, <2>1, KeptMap, MapStays
<1>3. CASE jobSkip
  <2>1. entry' = entry \/ (entry.state # "processing" /\ entry'.state = "none")
    BY <1>3 DEF jobSkip, NoEntry
  <2>q. QED
    BY <1>1, <2>1, MapStays
<1>4. CASE jobScan \/ jobApply
  <2>1. entry' = entry
    BY <1>4 DEF jobScan, jobApply
  <2>q. QED
    BY <1>1, <2>1, MapStays
<1>q. QED
  BY <1>2, <1>3, <1>4

(* A runnable comes to the map: the lock keeps those of its entry apart, and *)
(* those of another entry have not been there at the same time.              *)
LEMMA SubmitMap ==
  ASSUME Typed, MapInv, NEW r \in Runnables, jobSubmit(r)
  PROVE  MapInv'
<1>1. run' = [run EXCEPT ![r] = [pc |-> "queued", key |-> entry.key]] /\ entry' = entry
  BY DEF jobSubmit
<1>2. /\ run'[r] = [pc |-> "queued", key |-> entry.key]
      /\ \A q \in Runnables : q # r => run'[q] = run[q]
  BY <1>1, RunMoves
<1>3. run'[r].pc = "queued" /\ (\A q \in Runnables : q # r => run'[q] = run[q]) /\ entry' = entry
  BY <1>1, <1>2
<1>q. QED
  BY <1>3 DEF MapInv, Alone, Taken, Free, OneChecks, AtWork, Checking

LEMMA ReadMap ==
  ASSUME Typed, MapInv, Noted, MapKept', NEW r \in Runnables, runRead(r)
  PROVE  MapInv'
<1>1. run' = [run EXCEPT ![r] = [pc |-> "checking", key |-> run[r].key, task |-> row]]
  BY DEF runRead
<1>2. /\ run'[r] = [pc |-> "checking", key |-> run[r].key, task |-> row]
      /\ \A q \in Runnables : q # r => run'[q] = run[q]
  BY <1>1, RunMoves
<1>3. /\ run'[r].pc = "checking" /\ run'[r].key = run[r].key /\ entry' = entry
      /\ \A q \in Runnables : q # r => run'[q] = run[q]
  BY <1>2 DEF runRead
<1>4. ASSUME NEW q \in Runnables, q # r PROVE ~Checking(q)'
  <2>1. ~(run[q].key = run[r].key /\ Checking(q))
    BY <1>4 DEF runRead, Locked, InBlock, Checking
  <2>2. Checking(r)' /\ run'[q] = run[q]
    BY <1>3, <1>4 DEF Checking
  <2>3. Checking(q)' => run'[q].key = run'[r].key
    BY <2>2, KeptMap
  <2>q. QED
    BY <1>3, <2>1, <2>2, <2>3 DEF Checking
<1>5. OneChecks'
  BY <1>4 DEF OneChecks
<1>6. Alone' /\ Taken' /\ Free'
  BY <1>3 DEF MapInv, Alone, Taken, Free, AtWork
<1>q. QED
  BY <1>5, <1>6 DEF MapInv

LEMMA CheckMap ==
  ASSUME Typed, MapInv, NEW r \in Runnables, runCheck(r)
  PROVE  MapInv'
<1>1. run[r].pc = "checking" /\ entry' = entry
  BY DEF runCheck
<1>2. CASE run' = [run EXCEPT ![r] = NoRun]
  <2>1. run'[r].pc = "none" /\ \A q \in Runnables : q # r => run'[q] = run[q]
    BY <1>2, RunMoves, IdlePc
  <2>q. QED
    BY <1>1, <2>1 DEF MapInv, Alone, Taken, Free, OneChecks, AtWork, Checking
<1>3. CASE run' = [run EXCEPT ![r].pc = "checked"] /\ entry.state # "processing"
  <2>1. run'[r].pc = "checked" /\ \A q \in Runnables : q # r => run'[q] = run[q]
    BY <1>1, <1>3, RunSteps DEF Working
  <2>q. QED
    BY <1>1, <1>3, <2>1 DEF MapInv, Alone, Taken, Free, OneChecks, AtWork, Checking
<1>q. QED
  BY <1>2, <1>3 DEF runCheck

LEMMA TakeMap ==
  ASSUME Typed, MapInv, NEW r \in Runnables, runTake(r)
  PROVE  MapInv'
<1>1. run[r].pc = "checked" /\ entry'.state = "processing"
  BY DEF runTake, Put
<1>2. run'[r].pc = "writing" /\ \A q \in Runnables : q # r => run'[q] = run[q]
  BY RunSteps DEF runTake, Working
<1>3. \A q \in Runnables : q # r => ~AtWork(q)' /\ ~Checking(q)'
  <2>1. \A q \in Runnables : ~AtWork(q)
    BY <1>1 DEF MapInv, Free, Taken
  <2>2. \A q \in Runnables : q # r => ~Checking(q)
    BY <1>1 DEF MapInv, OneChecks, Checking
  <2>q. QED
    BY <1>2, <2>1, <2>2 DEF AtWork, Checking
<1>4. Alone' /\ Taken'
  BY <1>1, <1>3 DEF Alone, Taken
<1>5. Free' /\ OneChecks'
  BY <1>2, <1>3 DEF Free, OneChecks, Checking
<1>q. QED
  BY <1>4, <1>5 DEF MapInv

LEMMA WorkMap ==
  ASSUME Typed, MapInv, NEW r \in Runnables,
         runFail(r) \/ runScan(r) \/ runPost(r)
  PROVE  MapInv'
<1>1. run[r].pc \in {"writing", "scanned"} /\ entry' = entry
  BY DEF runFail, runScan, runPost, Posting
<1>2. \E p \in {"dropping", "releasing", "scanned", "saving"} : run' = [run EXCEPT ![r].pc = p]
  BY DEF runFail, runScan, runPost
<1>3. /\ run'[r].pc \in {"dropping", "releasing", "scanned", "saving"}
      /\ \A q \in Runnables : q # r => run'[q] = run[q]
  BY <1>1, <1>2, RunSteps DEF Working
<1>4. AtWork(r)
  BY <1>1 DEF AtWork
<1>q. QED
  BY <1>1, <1>3, <1>4, MapOn

LEMMA DoneMap ==
  ASSUME Typed, MapInv, NEW r \in Runnables,
         runDrop(r) \/ listener(r) \/ runRefused(r) \/ runSave(r)
  PROVE  MapInv'
<1>1. AtWork(r)
  BY DEF runDrop, listener, runRefused, runSave, Posting, AtWork
<1>2. run'[r] = NoRun /\ \A q \in Runnables : q # r => run'[q] = run[q]
  BY RunMoves DEF runDrop, listener, runRefused, runSave
<1>3. ~AtWork(r)' /\ run'[r].pc = "none"
  BY <1>2, IdlePc DEF AtWork
<1>4. entry' = entry \/ entry'.state # "processing"
  BY DEF runDrop, listener, runRefused, runSave, NoEntry, Put
<1>q. QED
  BY <1>1, <1>2, <1>3, <1>4, MapOn

LEMMA MapNext ==
  ASSUME Typed, MapInv, Step, Noted, MapKept'
  PROVE  MapInv'
<1>1. ASSUME NEW u \in Users, NEW o \in Operations, opRead(u, o) PROVE MapInv'
  BY <1>1, MapStays DEF opRead
<1>2. ASSUME NEW r \in Runnables, jobSubmit(r) \/ runRead(r) \/ runCheck(r) \/ runTake(r)
      PROVE  MapInv'
  BY <1>2, SubmitMap, ReadMap, CheckMap, TakeMap
<1>3. ASSUME NEW r \in Runnables,
             \/ runFail(r) \/ runScan(r) \/ runPost(r)
             \/ runDrop(r) \/ listener(r) \/ runRefused(r) \/ runSave(r)
      PROVE  MapInv'
  BY <1>3, WorkMap, DoneMap
<1>4. CASE taskCallback \/ completed \/ tick
  <2>1. run' = run /\ entry' = entry
    BY <1>4 DEF taskCallback, completed, tick
  <2>q. QED
    BY <2>1, MapStays
<1>5. CASE crash
  <2>1. \A r \in Runnables : run'[r].pc = "none"
    BY <1>5, IdlePc DEF crash
  <2>q. QED
    BY <2>1 DEF MapInv, Alone, Taken, Free, OneChecks, AtWork, Checking
<1>q. QED
  BY <1>1, <1>2, <1>3, <1>4, <1>5, HandlerMap, JobMap DEF Step

-----------------------------------------------------------------------------
(* The row *)
LEMMA ShownStays ==
  ASSUME Shown, row' = row, handed' = handed,
         \A r \in Runnables : run[r].pc = "saving" => run'[r].pc = "saving"
  PROVE  Shown'
BY DEF Shown, Saving

(* A handler that finds the row as it read it is allowed on it, and so does *)
(* not save it when it is at the dispatcher.                                *)
LEMMA SaveShown ==
  ASSUME Typed, Shown, Noted, RowKept', NEW u \in Users, opSave(u)
  PROVE  Shown'
<1>1. op[u] \in OpStates /\ op[u].pc = "save" /\ op[u] # NoOp /\ run' = run /\ handed' = handed
  BY IdlePc DEF Typed, opSave
<1>2. OpRight(op[u]) /\ Fits(op[u].o)
  BY <1>1, OpFields, OperationFits
<1>3. CASE row' = row
  BY <1>1, <1>3, ShownStays
<1>4. CASE op[u].task = row
  <2>1. ~(row.delivered /\ row.status \in AtDispatcher)
    BY <1>1, <1>2, <1>4 DEF OpRight, Fits
  <2>q. QED
    BY <1>1, <2>1 DEF Shown, Saving
<1>5. CASE handed = 0
  BY <1>1, <1>5 DEF Shown
<1>6. op'[u] # op[u]
  <2>1. op' = [op EXCEPT ![u] = IF op[u].o.file = "keep" THEN NoOp ELSE [op[u] EXCEPT !.pc = "file"]]
    BY DEF opSave
  <2>2. [op[u] EXCEPT !.pc = "file"].pc = "file"
    BY <1>1 DEF OpStates
  <2>q. QED
    BY <1>1, <2>1, <2>2 DEF Typed
<1>7. row' = row \/ op[u].task = row \/ handed = 0
  BY <1>1, <1>6, KeptRow DEF Typed
<1>q. QED
  BY <1>3, <1>4, <1>5, <1>7

LEMMA HandlerShown ==
  ASSUME Shown, NEW u \in Users, opMark(u) \/ opFile(u) \/ opAsk(u)
  PROVE  Shown'
<1>1. UNCHANGED <<row, handed, run>>
  BY DEF opMark, opFile, opAsk
<1>q. QED
  BY <1>1, ShownStays

LEMMA JobShown ==
  ASSUME Shown, jobScan \/ jobApply \/ jobPut \/ jobSkip
  PROVE  Shown'
<1>1. UNCHANGED <<row, handed, run>>
  BY DEF jobScan, jobApply, jobPut, jobSkip
<1>q. QED
  BY <1>1, ShownStays

LEMMA RunShown ==
  ASSUME Typed, Shown, NEW r \in Runnables,
         \/ jobSubmit(r) \/ runRead(r) \/ runCheck(r) \/ runTake(r)
         \/ runScan(r) \/ runDrop(r) \/ listener(r)
  PROVE  Shown'
<1>1. row' = row /\ handed' = handed
  BY DEF jobSubmit, runRead, runCheck, runTake, runScan, runDrop, listener
<1>2. run[r].pc # "saving"
  BY IdlePc DEF jobSubmit, runRead, runCheck, runTake, runScan, runDrop, listener
<1>3. \E s : run' = [run EXCEPT ![r] = s]
  BY DEF jobSubmit, runRead, runCheck, runTake, runScan, runDrop, listener
<1>4. \A q \in Runnables : q # r => run'[q] = run[q]
  BY <1>3, RunMoves
<1>q. QED
  BY <1>1, <1>2, <1>4, ShownStays

LEMMA FailShown ==
  ASSUME Typed, Shown, Noted, RowKept', NEW r \in Runnables, runFail(r)
  PROVE  Shown'
<1>1. run[r].pc = "writing" /\ handed' = handed /\ faults' = faults + 1
  BY DEF runFail
<1>2. run'[r].pc \in {"dropping", "releasing"}
  BY <1>1, RunSteps DEF runFail, Working
<1>3. faults' > faults
  BY <1>1, LifeAssumption DEF Typed
<1>4. ~(handed > 0)
  BY <1>1, <1>2, <1>3, KeptRow
<1>q. QED
  BY <1>1, <1>4 DEF Shown

LEMMA PostShown ==
  ASSUME Typed, Shown, Noted, RowKept', NEW r \in Runnables,
         runPost(r) \/ runRefused(r) \/ runSave(r)
  PROVE  Shown'
<1>1. CASE runPost(r)
  <2>1. run'[r].pc = "saving"
    BY <1>1, RunSteps DEF runPost, Posting, Working
  <2>q. QED
    BY <2>1 DEF Shown, Saving
<1>2. CASE runRefused(r)
  <2>1. HandingOver(r) /\ run'[r] = NoRun /\ row' = row
    BY <1>2, RunMoves DEF runRefused, Posting, HandingOver
  <2>2. ~(handed' > 0)
    BY <2>1, KeptRow
  <2>q. QED
    BY <2>2 DEF Shown
<1>3. CASE runSave(r)
  <2>1. run[r].task \in Row
    BY <1>3, RunAt DEF runSave
  <2>2. row'.delivered /\ row'.status = "processing"
    BY <1>3, <2>1 DEF runSave, Row
  <2>q. QED
    BY <2>2 DEF Shown, AtDispatcher
<1>q. QED
  BY <1>1, <1>2, <1>3

LEMMA OutsideShown ==
  ASSUME Typed, Shown, Noted, RowKept', taskCallback \/ completed \/ tick \/ crash
  PROVE  Shown'
<1>1. CASE taskCallback
  <2>1. handed' = handed /\ run' = run
    BY <1>1 DEF taskCallback
  <2>q. QED
    BY <1>1, <2>1, CallbackRow DEF Shown, Saving
<1>2. CASE completed
  <2>1. handed' = handed /\ run' = run /\ row'.delivered = row.delivered /\ row'.status = "completed"
    BY <1>2 DEF completed, Typed, Row
  <2>q. QED
    BY <2>1 DEF Shown, Saving, AtDispatcher
<1>3. CASE tick
  BY <1>3, ShownStays DEF tick
<1>4. CASE crash
  <2>1. row' = row /\ handed' = handed /\ \A r \in Runnables : run'[r] = NoRun
    BY <1>4 DEF crash
  <2>2. handed > 0 => ~Saving
    BY <2>1, KeptRow DEF Saving, HandingOver
  <2>q. QED
    BY <2>1, <2>2 DEF Shown
<1>q. QED
  BY <1>1, <1>2, <1>3, <1>4

LEMMA ShownNext ==
  ASSUME Typed, Shown, Step, Noted, RowKept'
  PROVE  Shown'
<1>1. ASSUME NEW u \in Users, NEW o \in Operations, opRead(u, o) PROVE Shown'
  BY <1>1, ShownStays DEF opRead
<1>2. ASSUME NEW u \in Users, opMark(u) \/ opSave(u) \/ opFile(u) \/ opAsk(u) PROVE Shown'
  BY <1>2, SaveShown, HandlerShown
<1>3. ASSUME NEW r \in Runnables,
             \/ jobSubmit(r) \/ runRead(r) \/ runCheck(r) \/ runTake(r)
             \/ runScan(r) \/ runDrop(r) \/ listener(r)
      PROVE  Shown'
  BY <1>3, RunShown
<1>4. ASSUME NEW r \in Runnables, runFail(r) \/ runPost(r) \/ runRefused(r) \/ runSave(r)
      PROVE  Shown'
  BY <1>4, FailShown, PostShown
<1>q. QED
  BY <1>1, <1>2, <1>3, <1>4, JobShown, OutsideShown DEF Step

-----------------------------------------------------------------------------
(* Both *)
LEMMA OnceStays ==
  ASSUME Once, handed' = handed,
         \A r \in Runnables : run'[r].pc = "scanned" => run[r].pc = "scanned"
  PROVE  Once'
BY DEF Once

(* A task that was handed over is not found by Task.scan: its row is shown,  *)
(* and the runnable that would show it is the only one at work.              *)
LEMMA LookOnce ==
  ASSUME Typed, MapInv, Shown, Once, NEW r \in Runnables, runScan(r)
  PROVE  Once'
<1>1. run[r].pc = "writing" /\ handed' = handed /\ handed \in Nat
  BY DEF runScan, Typed
<1>2. \A q \in Runnables : q # r => run'[q] = run[q]
  BY <1>1, RunSteps DEF runScan, Working
<1>3. CASE Scanned(row)
  <2>1. ~(row.delivered /\ row.status \in AtDispatcher)
    BY <1>3 DEF Scanned, AtDispatcher
  <2>2. ~Saving
    BY <1>1 DEF Saving, MapInv, Alone, AtWork
  <2>3. handed = 0
    BY <1>1, <2>1, <2>2 DEF Shown
  <2>q. QED
    BY <1>1, <2>3 DEF Once
<1>4. CASE ~Scanned(row)
  <2>1. run'[r].pc = "dropping"
    BY <1>1, <1>4, RunSteps DEF runScan, Working
  <2>q. QED
    BY <1>1, <1>2, <2>1, OnceStays
<1>q. QED
  BY <1>3, <1>4

LEMMA PostOnce ==
  ASSUME Typed, MapInv, Once, NEW r \in Runnables, runPost(r) \/ runRefused(r)
  PROVE  Once'
<1>1. run[r].pc = "scanned" /\ handed = 0
  BY DEF runPost, runRefused, Posting, Once
<1>2. handed' \in {0, 1}
  BY <1>1 DEF runPost, runRefused
<1>3. run'[r].pc # "scanned" /\ \A q \in Runnables : q # r => run'[q] = run[q]
  <2>1. CASE runPost(r)
    BY <1>1, <2>1, RunSteps DEF runPost, Working
  <2>2. CASE runRefused(r)
    BY <2>2, RunMoves, IdlePc DEF runRefused
  <2>q. QED
    BY <2>1, <2>2
<1>4. \A q \in Runnables : run'[q].pc # "scanned"
  BY <1>1, <1>3 DEF MapInv, Alone, AtWork
<1>q. QED
  BY <1>2, <1>4 DEF Once

LEMMA OnceNext ==
  ASSUME Typed, MapInv, Shown, Once, Step
  PROVE  Once'
<1>1. ASSUME NEW u \in Users, opMark(u) \/ opSave(u) \/ opFile(u) \/ opAsk(u) PROVE Once'
  <2>1. handed' = handed /\ run' = run
    BY <1>1 DEF opMark, opSave, opFile, opAsk
  <2>q. QED
    BY <2>1, OnceStays
<1>2. ASSUME NEW u \in Users, NEW o \in Operations, opRead(u, o) PROVE Once'
  BY <1>2, OnceStays DEF opRead
<1>3. ASSUME NEW r \in Runnables,
             \/ jobSubmit(r) \/ runRead(r) \/ runCheck(r) \/ runTake(r) \/ runFail(r)
      PROVE  Once'
  <2>1. handed' = handed
    BY <1>3 DEF jobSubmit, runRead, runCheck, runTake, runFail
  <2>2. \E s : run' = [run EXCEPT ![r] = s]
    BY <1>3 DEF jobSubmit, runRead, runCheck, runTake, runFail
  <2>3. run'[r].pc # "scanned"
    <3>1. CASE jobSubmit(r) \/ runRead(r)
      BY <3>1, RunMoves DEF jobSubmit, runRead
    <3>2. CASE runCheck(r)
      <4>1. run' = [run EXCEPT ![r] = NoRun] \/ run' = [run EXCEPT ![r].pc = "checked"]
        BY <3>2 DEF runCheck
      <4>2. run[r].pc = "checking"
        BY <3>2 DEF runCheck
      <4>q. QED
        BY <4>1, <4>2, RunMoves, RunSteps, IdlePc DEF Working
    <3>3. CASE runTake(r)
      BY <3>3, RunSteps DEF runTake, Working
    <3>4. CASE runFail(r)
      BY <3>4, RunSteps DEF runFail, Working
    <3>q. QED
      BY <1>3, <3>1, <3>2, <3>3, <3>4
  <2>q. QED
    BY <2>1, <2>2, <2>3, RunMoves, OnceStays
<1>4. ASSUME NEW r \in Runnables, runDrop(r) \/ listener(r) \/ runSave(r)
      PROVE  Once'
  <2>1. handed' = handed /\ run' = [run EXCEPT ![r] = NoRun]
    BY <1>4 DEF runDrop, listener, runSave
  <2>q. QED
    BY <2>1, RunMoves, IdlePc, OnceStays
<1>5. CASE jobScan \/ jobApply \/ jobPut \/ jobSkip
  <2>1. handed' = handed /\ run' = run
    BY <1>5 DEF jobScan, jobApply, jobPut, jobSkip
  <2>q. QED
    BY <2>1, OnceStays
<1>6. CASE taskCallback \/ completed \/ tick
  <2>1. handed' = handed /\ run' = run
    BY <1>6 DEF taskCallback, completed, tick
  <2>q. QED
    BY <2>1, OnceStays
<1>7. CASE crash
  <2>1. handed' = handed /\ \A r \in Runnables : run'[r].pc = "none"
    BY <1>7, IdlePc DEF crash
  <2>q. QED
    BY <2>1, OnceStays
<1>q. QED
  BY <1>1, <1>2, <1>3, <1>4, <1>5, <1>6, <1>7, LookOnce, PostOnce DEF Step

-----------------------------------------------------------------------------
LEMMA LifeInit == Init => LifeInv
<1> SUFFICES ASSUME Init PROVE LifeInv
  OBVIOUS
<1>1. \A r \in Runnables : run[r].pc = "none"
  BY IdlePc DEF Init
<1>2. MapInv
  BY <1>1 DEF MapInv, Alone, Taken, Free, OneChecks, AtWork, Checking
<1>3. Shown /\ Once
  BY <1>1 DEF Init, Shown, Once
<1>q. QED
  BY <1>2, <1>3, TypedInit DEF LifeInv

LEMMA LifeNext == LifeInv /\ [Next]_vars => LifeInv'
<1> SUFFICES ASSUME LifeInv, [Next]_vars PROVE LifeInv'
  OBVIOUS
<1>1. Typed /\ Typed'
  BY TypedNext DEF LifeInv
<1>2. CASE UNCHANGED vars
  <2>1. (MapKept' <=> MapKept) /\ (RowKept' <=> RowKept)
    BY <1>2 DEF vars, MapKept, RowKept
  <2>2. MapInv => MapInv'
    BY <1>2 DEF vars, MapInv, Alone, Taken, Free, OneChecks, AtWork, Checking
  <2>3. (Shown => Shown') /\ (Once => Once')
    BY <1>2 DEF vars, Shown, Saving, Once
  <2>q. QED
    BY <1>1, <2>1, <2>2, <2>3 DEF LifeInv
<1>3. CASE Step /\ Noted
  <2>1. MapKept' => MapKept /\ MapInv'
    BY <1>1, <1>3, KeptMap, MapNext DEF LifeInv
  <2>2. RowKept' => RowKept /\ Shown'
    BY <1>1, <1>3, KeptRow, ShownNext DEF LifeInv
  <2>3. RowKept' /\ MapKept' => Once'
    BY <1>1, <1>3, <2>1, <2>2, OnceNext DEF LifeInv
  <2>q. QED
    BY <1>1, <2>1, <2>2, <2>3 DEF LifeInv
<1>q. QED
  BY <1>2, <1>3 DEF Next

(* LifeInv holds throughout: no step of a handler, the job, a runnable, the *)
(* dispatcher or a restart breaks it.                                       *)
THEOREM LifeInvariant == Spec => []LifeInv
<1>q. QED
  BY LifeInit, LifeNext, PTL DEF Spec

(* Every row, entry, runnable and handler of the task is of its type, and   *)
(* there is always an Integer object that no runnable in the executor has.  *)
THEOREM TypesAreRight == Spec => []TypeOK
<1>1. LifeInv => TypeOK
  BY TypedTypeOK DEF LifeInv
<1>q. QED
  BY <1>1, LifeInvariant, PTL

(* However many runnables the job has submitted and whenever each of them   *)
(* comes to run, one prepares the task at a time, unless the entry of a     *)
(* runnable at work was replaced or runnables of two entries looked at the  *)
(* map together.                                                            *)
THEOREM OneRunnablePrepares == Spec => []OnePrepares
<1>1. LifeInv => OnePrepares
  BY DEF LifeInv, OnePrepares, MapInv, Alone, AtWork, Preparing
<1>q. QED
  BY <1>1, LifeInvariant, PTL

(* The dispatcher gets the task once, however many runnables the job has    *)
(* submitted for its entry and whenever each of them comes to run, unless   *)
(* row or map were lost in one of the named ways.                           *)
THEOREM TaskIsHandedOnce == Spec => []HandedOnce
<1>1. LifeInv => HandedOnce
  BY DEF LifeInv, Once, HandedOnce
<1>q. QED
  BY <1>1, LifeInvariant, PTL

(* What the dispatcher has been given is shown as delivered, or is about to *)
(* be, also while handlers overlap the hand-over, two runnables prepare the *)
(* task and confirmations change its status; what loses it is a stale copy  *)
(* a handler saves, an answer or a save that is lost, or a later failure.   *)
THEOREM HandedTaskIsShown == Spec => []HandedIsShown
<1>1. LifeInv => HandedIsShown
  BY DEF LifeInv, Shown, Saving, HandedIsShown
<1>q. QED
  BY <1>1, LifeInvariant, PTL
=============================================================================
