----------------------------- MODULE StopNotify -----------------------------
(***************************************************************************)
(* How the dispatcher (service/maillist) tells the delivery engines that a *)
(* task was stopped.  The session that handles a "STOP" request marks the  *)
(* task finished, answers, and enters the task in the ring g_stop_tasks.   *)
(* Every session of an engine, whatever its command, first calls           *)
(* make_stop_delivery_notify and sends what that finds pending.            *)
(*                                                                         *)
(* g_delivery_lock covers the entry and the collection; the answer to the  *)
(* STOP request and the sending of the notification are outside it.        *)
(***************************************************************************)
EXTENDS Integers, FiniteSets

CONSTANTS
  Tasks,      \* the tasks in the queue
  Engines,    \* the delivery engines that open sessions
  MaxStop,    \* MAX_STOPTASK_NUM: the length of g_stop_tasks
  Keep,       \* MAX_TASK_KEEP_TIME
  Room,       \* task ids that fit into one notification (MAX_MSG_LEN)
  MaxTicks,   \* bound: ticks of the clock
  MaxFails    \* bound: notifications whose sending fails

NoTask == "none"

ASSUME StopAssumption ==
  /\ NoTask \notin Tasks
  /\ MaxStop \in Nat \ {0} /\ Keep \in Nat /\ Room \in Nat \ {0}
  /\ MaxTicks \in Nat /\ MaxFails \in Nat

Slots == 0 .. MaxStop - 1

(* time() is far from 0, the _stop_time of a slot that was never used. *)
Start == Keep + 1

Entry == [time : Nat, sid : Tasks \cup {NoTask}, pending : BOOLEAN]

VARIABLES
  stage,     \* per task: runs, tFinishTime set, answered, entered
  table,     \* g_stop_tasks
  size,      \* g_stoptask_size
  now,       \* time(NULL)
  msg,       \* per engine: the notification its session is about to send
  told,      \* <<e, t>>: engine e was told that t is stopped
  fails      \* notifications lost

vars == <<stage, table, size, now, msg, told, fails>>

Init ==
  /\ stage = [t \in Tasks |-> "runs"]
  /\ table = [i \in Slots |-> [time |-> 0, sid |-> NoTask, pending |-> FALSE]]
  /\ size = 0
  /\ now = Start
  /\ msg = [e \in Engines |-> {}]
  /\ told = {}
  /\ fails = 0

Fresh(i) == now - Keep < table[i].time

Expired(i) == now - table[i].time > Keep

-----------------------------------------------------------------------------
(* The session of a STOP request *)

(* tFinishTime is set under the task's lock; a second STOP is answered 500. *)
StopTask(t) ==
  /\ stage[t] = "runs"
  /\ stage' = [stage EXCEPT ![t] = "finished"]
  /\ UNCHANGED <<table, size, now, msg, told, fails>>

(* Fault: the task goes on if the answer cannot be sent. *)
AnswerStopUndone(t) ==
  /\ stage[t] = "finished"
  /\ stage' \in {[stage EXCEPT ![t] = "answered"], [stage EXCEPT ![t] = "runs"]}
  /\ UNCHANGED <<table, size, now, msg, told, fails>>

(* "200 stop task [..] successfully": answered before the entry is made. *)
AnswerStop(t) ==
  /\ stage[t] = "finished"
  /\ stage' = [stage EXCEPT ![t] = "answered"]
  /\ UNCHANGED <<table, size, now, msg, told, fails>>

(* The first of the entries with the smallest _stop_time. *)
Oldest(i) ==
  /\ \A j \in Slots : table[i].time <= table[j].time
  /\ \A j \in 0 .. i - 1 : table[i].time < table[j].time

(* Fault: the first slot is taken without looking at its age. *)
SlotFirst(i) ==
  IF size < MaxStop - 1 THEN i = size ELSE i = 0

(* Where the stop is entered: in the next slot; once all but the last are   *)
(* in use, in the first expired one, or else in the oldest.                 *)
SlotFor(i) ==
  IF size < MaxStop - 1
  THEN i = size
  ELSE IF \E j \in Slots : Expired(j)
       THEN Expired(i) /\ \A j \in 0 .. i - 1 : ~Expired(j)
       ELSE Oldest(i)

(* Fault: size is counted up although the slot was in use. *)
EnterStopGrow(t, i) ==
  /\ stage[t] = "answered"
  /\ SlotFor(i)
  /\ table' = [table EXCEPT ![i] = [time |-> now, sid |-> t, pending |-> TRUE]]
  /\ size' = size + 1
  /\ stage' = [stage EXCEPT ![t] = "entered"]
  /\ UNCHANGED <<now, msg, told, fails>>

EnterStop(t, i) ==
  /\ stage[t] = "answered"
  /\ SlotFor(i)
  /\ table' = [table EXCEPT ![i] = [time |-> now, sid |-> t, pending |-> TRUE]]
  /\ size' = IF size < MaxStop - 1 THEN size + 1 ELSE size
  /\ stage' = [stage EXCEPT ![t] = "entered"]
  /\ UNCHANGED <<now, msg, told, fails>>

-----------------------------------------------------------------------------
(* The session of an engine *)

(* Fault: the loop ends one entry too early. *)
PendingShort == {i \in Slots : i < size - 1 /\ table[i].pending /\ Fresh(i)}

(* The entries the loop of make_stop_delivery_notify takes. *)
Pending == {i \in Slots : i < size /\ table[i].pending /\ Fresh(i)}

(* Fault: the entries are not marked. *)
CollectNoMark(e) ==
  /\ msg[e] = {}
  /\ Pending # {}
  /\ msg' = [msg EXCEPT ![e] = {table[i].sid : i \in Pending}]
  /\ UNCHANGED <<stage, table, size, now, told, fails>>

(* make_stop_delivery_notify: the first Room pending entries go into the    *)
(* message and are marked as dealt with, before anything is sent.           *)
Collect(e) ==
  LET took == {i \in Pending : Cardinality({j \in Pending : j < i}) < Room} IN
  /\ msg[e] = {}
  /\ Pending # {}
  /\ msg' = [msg EXCEPT ![e] = {table[i].sid : i \in took}]
  /\ table' = [i \in Slots |->
       IF i \in took THEN [table[i] EXCEPT !.pending = FALSE] ELSE table[i]]
  /\ UNCHANGED <<stage, size, now, told, fails>>

Notify(e) ==
  /\ msg[e] # {}
  /\ told' = told \cup ({e} \X msg[e])
  /\ msg' = [msg EXCEPT ![e] = {}]
  /\ UNCHANGED <<stage, table, size, now, fails>>

(* SendPackage failed: the connection is closed, the message is gone. *)
NotifyFail(e) ==
  /\ msg[e] # {}
  /\ fails < MaxFails
  /\ fails' = fails + 1
  /\ msg' = [msg EXCEPT ![e] = {}]
  /\ UNCHANGED <<stage, table, size, now, told>>

Tick ==
  /\ now < Start + MaxTicks
  /\ now' = now + 1
  /\ UNCHANGED <<stage, table, size, msg, told, fails>>

-----------------------------------------------------------------------------
EnterAny(t) == \E i \in Slots : EnterStop(t, i)

StopSession(t) == AnswerStop(t) \/ EnterAny(t)

Session(e) == Collect(e) \/ Notify(e) \/ NotifyFail(e)

Next ==
  \/ \E t \in Tasks : StopTask(t) \/ StopSession(t)
  \/ \E e \in Engines : Session(e)
  \/ Tick

Spec == Init /\ [][Next]_vars

(* Session threads are scheduled; every engine goes on opening sessions (it *)
(* asks for mails in an endless loop), and each of its sessions collects.   *)
FairSpec ==
  /\ Spec
  /\ \A t \in Tasks : WF_vars(StopSession(t))
  /\ \A e \in Engines : WF_vars(Collect(e)) /\ WF_vars(Notify(e))

-----------------------------------------------------------------------------
(* Properties *)

(* Every variable has its type: in particular size never passes the last    *)
(* but one slot, and notifications and told name real tasks only.           *)
TypeOK ==
  /\ stage \in [Tasks -> {"runs", "finished", "answered", "entered"}]
  /\ table \in [Slots -> Entry]
  /\ size \in 0 .. MaxStop - 1
  /\ now \in Start .. Start + MaxTicks
  /\ msg \in [Engines -> SUBSET Tasks]
  /\ told \subseteq Engines \X Tasks
  /\ fails \in 0 .. MaxFails

Waiting(t) == {i \in Slots : table[i].pending /\ table[i].sid = t}
Sending(t) == {e \in Engines : t \in msg[e]}
Knowing(t) == {e \in Engines : <<e, t>> \in told}

(* A stop is announced in at most one message of one session: it is pending *)
(* in one slot, or in one message, or one engine has it.  DeliverEngine     *)
(* builds on this (a task is in at most one of its notifications).          *)
AnnouncedOnce ==
  \A t \in Tasks :
    /\ \A i, j \in Waiting(t) : i = j
    /\ \A d, e \in Sending(t) \cup Knowing(t) : d = e
    /\ Waiting(t) = {} \/ Sending(t) \cup Knowing(t) = {}
    /\ Sending(t) = {} \/ Knowing(t) = {}

(* No engine is told to drop a task's mails while the dispatcher could      *)
(* still hand out more of them: tFinishTime is set first.                   *)
ToldIsFinished == \A e \in Engines, t \in Tasks :
  <<e, t>> \in told \/ t \in msg[e] => stage[t] = "entered"

(* A stop that waits to be announced, and is not older than Keep, leaves    *)
(* its slot only into a message, or, when nothing has expired, to a newer   *)
(* stop that found it to be the oldest of all.                              *)
FreshKept ==
  [][\A i \in Slots :
       table[i].pending /\ Fresh(i) =>
         \/ table'[i] = table[i]
         \/ \E e \in Engines : table[i].sid \in msg'[e]
         \/ \A j \in Slots : ~Expired(j) /\ table[i].time <= table[j].time]_vars

(* Why no engine may hear of a stop: a newer one took its slot, it became   *)
(* too old, the message with it was lost, or it is in the last slot, which  *)
(* SlotFor chooses and make_stop_delivery_notify never reads.               *)
Dropped(t) ==
  \/ \A i \in Slots : table[i].sid # t
  \/ \E i \in Slots : table[i].sid = t /\ (~Fresh(i) \/ i = MaxStop - 1)
  \/ fails > 0

(* A stop that was answered 200 reaches some engine in the end, unless it   *)
(* is dropped in one of these ways: what does not fit into one message is   *)
(* left for the next session, and no session takes entries it never sends.  *)
EventuallyAnnounced ==
  \A t \in Tasks : stage[t] = "entered" ~> Knowing(t) # {} \/ Dropped(t)

(* tFinishTime is the end of a task, a notification sent is one heard. *)
Once == INSTANCE StopOnce WITH ended <- {t \in Tasks : stage[t] # "runs"},
                               heard <- told

(* The table, its lock and the messages together do what StopOnce says: a   *)
(* notification names ended tasks only, and none that an engine, this or    *)
(* another, has heard of before.                                            *)
ImplementsOnce == Once!Spec
=============================================================================
