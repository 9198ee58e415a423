------------------------------ MODULE MailList ------------------------------
(***************************************************************************)
(* The dispatcher (service/maillist): the queue of tasks, and for every    *)
(* task and domain a list of mailboxes that is handed out to the engines   *)
(* in rounds.                                                              *)
(*                                                                         *)
(* A session that answers a request for mailboxes holds the read lock of   *)
(* the queue throughout, chooses a task under pLockTask, and then takes    *)
(* the lock of one list after the other.  Reports take the lock of a list, *)
(* too.  The session of a STOP request holds the read lock and the task's  *)
(* lock, but not those of the lists.  Adding tasks, and the main thread's  *)
(* search for finished ones, hold the write lock.                          *)
(*                                                                         *)
(* Mailboxes are numbered in the order of their list.  What a report says  *)
(* in its letter and text is reduced to the status it leads to.            *)
(***************************************************************************)
EXTENDS Integers, Sequences, FiniteSets, MailStatus

CONSTANTS
  Tasks,      \* task ids
  Domains,    \* the domains of the alias file, and "other"
  Size,       \* Size[l]: number of mailboxes in list l
  Normal,     \* tasks whose first id is at least 100: delayed in water mode
  Preferred,  \* tasks in the file of preferred tasks (yxlist)
  Level,      \* CONFIGURE.yxlevel
  RoundNum,   \* CONFIGURE.nRoundNum
  Sessions,   \* the sessions that can run at once
  MaxAsk,     \* bound: mailboxes asked for at a time
  Kinds,      \* bound: what engines report: <<letter, text>>
  MaxAgain,   \* bound: reports that are repeated
  MayPause,   \* bound: tasks the user pauses and restarts
  MayStop,    \* bound: tasks the user stops
  MaxWater    \* bound: changes of the water mode

NoTask == "none"

Lists == Tasks \X Domains

ASSUME ListAssumption ==
  /\ Size \in [Lists -> Nat]
  /\ Normal \subseteq Tasks /\ Preferred \subseteq Tasks
  /\ NoTask \notin Tasks
  /\ MayPause \subseteq Tasks /\ MayStop \subseteq Tasks /\ MaxWater \in Nat
  /\ Level \in Nat /\ MaxAsk \in Nat /\ MaxAgain \in Nat
  /\ RoundNum \in 1 .. 999
  /\ IsFiniteSet(Sessions)
  /\ Kinds \subseteq Letters \X Texts

Boxes(l) == 1 .. Size[l]

(* nRound after a STOP request *)
Ended == 1000

VARIABLES
  added,      \* tasks that have been in the queue
  queue,      \* pBegin ... pEnd
  offset,     \* nTaskOffset
  served,     \* reseverd of the preferred tasks
  finish,     \* why tFinishTime is set, if it is
  pause,      \* tPauseTime: 0, 10, or a time
  water,      \* changes of nDayWaterMode, which is on after an odd number
  marking,    \* domains whose list the STOP session has yet to mark
  round,      \* nRound
  pos,        \* nNowPos
  rest,       \* nTime is set, nRoundPeriod not yet over, and a round left
  stat,       \* the status bytes
  count,      \* nCount, nSuccess, nFail, nDelay, nFailNotFound, nFailDns, nFailSpam
  ses,        \* the sessions that answer requests for mailboxes
  given,      \* history: how often a mailbox was handed out
  told,       \* history: how many of these were reported
  again,      \* reports an engine will repeat, having missed the answer
  repeats,    \* history: reports repeated
  late,       \* history: mailboxes handed out after STOP was answered
  undone      \* history: lists whose mark of a STOP was written over

taskVars  == <<added, queue, finish, pause, marking>>
pickVars  == <<offset, served>>
listVars  == <<round, pos, rest>>
statVars  == <<stat, count>>
engVars   == <<told, again, repeats>>
stopVars  == <<late, undone>>
vars == <<taskVars, pickVars, water, listVars, statVars, ses, given, engVars, stopVars>>

Idle == [pc |-> "idle", task |-> NoTask, dom |-> NoTask, left |-> 0, next |-> 0]

ListOf(s) == <<ses[s].task, ses[s].dom>>

Locked(l) == \E s \in Sessions : ses[s].pc \in {"loop", "give", "wrap"} /\ ListOf(s) = l

(* pLockRWTask can be taken for writing. *)
NoReader ==
  /\ \A s \in Sessions : ses[s].pc = "idle"
  /\ \A t \in Tasks : marking[t] = {}

WaterMode == water % 2 = 1

InQueue(t) == \E i \in 1 .. Len(queue) : queue[i] = t

Init ==
  /\ added = {}
  /\ queue = <<>>
  /\ offset = 0
  /\ served = [t \in Tasks |-> 0]
  /\ finish = [t \in Tasks |-> "no"]
  /\ pause = [t \in Tasks |-> "no"]
  /\ water = 0
  /\ marking = [t \in Tasks |-> {}]
  /\ round = [l \in Lists |-> 0]
  /\ pos = [l \in Lists |-> 0]
  /\ rest = [l \in Lists |-> FALSE]
  /\ stat = [l \in Lists |-> [i \in Boxes(l) |-> "new"]]
  /\ count = [l \in Lists |-> [remain |-> Size[l], success |-> 0, fail |-> 0,
                               delay |-> 0, notfound |-> 0, dns |-> 0, spam |-> 0]]
  /\ ses = [s \in Sessions |-> Idle]
  /\ given = [l \in Lists |-> [i \in Boxes(l) |-> 0]]
  /\ told = [l \in Lists |-> [i \in Boxes(l) |-> 0]]
  /\ again = {}
  /\ repeats = 0
  /\ late = [t \in Tasks |-> 0]
  /\ undone = {}

-----------------------------------------------------------------------------
(* Tasks *)

(* AddTaskQueue; a task whose file is known is not accepted again. *)
AddTask(t) ==
  /\ t \notin added
  /\ NoReader
  /\ added' = added \cup {t}
  /\ queue' = Append(queue, t)
  /\ pause' = [pause EXCEPT ![t] = IF WaterMode /\ t \in Normal THEN "water" ELSE "no"]
  /\ UNCHANGED <<pickVars, finish, water, marking, listVars, statVars, ses, given,
                 engVars, stopVars>>

(* The session of a PAUSE request *)
PauseTask(t) ==
  /\ t \in MayPause
  /\ InQueue(t)
  /\ finish[t] = "no"
  /\ pause[t] = "no"
  /\ pause' = [pause EXCEPT ![t] = "user"]
  /\ UNCHANGED <<added, queue, finish, marking, pickVars, water, listVars, statVars,
                 ses, given, engVars, stopVars>>

(* ... and of a RESTART request *)
RestartTask(t) ==
  /\ t \in MayPause
  /\ InQueue(t)
  /\ finish[t] = "no"
  /\ pause[t] # "no"
  /\ pause' = [pause EXCEPT ![t] = "no"]
  /\ UNCHANGED <<added, queue, finish, marking, pickVars, water, listVars, statVars,
                 ses, given, engVars, stopVars>>

(* Fault: the lists are not marked. *)
StopTaskOnly(t) ==
  /\ t \in MayStop
  /\ InQueue(t)
  /\ finish[t] = "no"
  /\ finish' = [finish EXCEPT ![t] = "stop"]
  /\ UNCHANGED <<added, queue, pause, marking, pickVars, water, listVars, statVars,
                 ses, given, engVars, stopVars>>

(* The session of a STOP request: tFinishTime is set first, ... *)
StopTask(t) ==
  /\ t \in MayStop
  /\ InQueue(t)
  /\ finish[t] = "no"
  /\ finish' = [finish EXCEPT ![t] = "stop"]
  /\ marking' = [marking EXCEPT ![t] = Domains]
  /\ UNCHANGED <<added, queue, pause, pickVars, water, listVars, statVars, ses,
                 given, engVars, stopVars>>

(* ... then nRound of one list after the other. *)
StopList(t, d) ==
  /\ d \in marking[t]
  /\ marking' = [marking EXCEPT ![t] = @ \ {d}]
  /\ round' = [round EXCEPT ![<<t, d>>] = Ended]
  /\ UNCHANGED <<added, queue, finish, pause, pickVars, water, pos, rest, statVars,
                 ses, given, engVars, stopVars>>

Stopped(t) == finish[t] = "stop" /\ marking[t] = {}

-----------------------------------------------------------------------------
(* The main thread *)

(* Fault: one finished list is enough. *)
DoneSome(t) ==
  \E d \in Domains : round[<<t, d>>] >= RoundNum \/ count[<<t, d>>].remain = 0

(* Nothing is left to hand out. *)
Done(t) ==
  \A d \in Domains : round[<<t, d>>] >= RoundNum \/ count[<<t, d>>].remain = 0

(* A pass over the queue: tasks delayed by water mode go on, finished tasks *)
(* are marked, and tasks R that have been finished for long are removed.    *)
MainPass(R) ==
  /\ NoReader
  /\ R \subseteq {t \in Tasks : InQueue(t) /\ finish[t] # "no"}
  /\ queue' = SelectSeq(queue, LAMBDA t : t \notin R)
  /\ finish' = [t \in Tasks |->
       IF InQueue(t) /\ finish[t] = "no" /\ Done(t) THEN "self" ELSE finish[t]]
  /\ pause' = [t \in Tasks |->
       IF InQueue(t) /\ pause[t] = "water" /\ ~WaterMode THEN "no" ELSE pause[t]]
  /\ UNCHANGED <<added, marking, pickVars, water, listVars, statVars, ses, given,
                 engVars, stopVars>>

ChangeWaterMode ==
  /\ water < MaxWater
  /\ water' = water + 1
  /\ UNCHANGED <<taskVars, pickVars, listVars, statVars, ses, given, engVars, stopVars>>

RoundPeriod(l) ==
  /\ rest[l]
  /\ rest' = [rest EXCEPT ![l] = FALSE]
  /\ UNCHANGED <<taskVars, pickVars, water, round, pos, statVars, ses, given, engVars,
                 stopVars>>

-----------------------------------------------------------------------------
(* AnswerMailboxRequestWithLevel: the choice of the task *)

(* yx_test: reseverd of t goes up to the configured level and back to 0. *)
YxTest(t, v) ==
  IF t \notin Preferred THEN v
  ELSE [v EXCEPT ![t] = IF v[t] < Level THEN v[t] + 1 ELSE 0]

(* Fault: the offset waits for a finished or paused task. *)
MoveOnRunnable(t, v, o) ==
  IF (t \in Preferred /\ v[t] >= 1) \/ finish[t] # "no" \/ pause[t] # "no" THEN o
  ELSE (o + 1) % Len(queue)

(* The offset moves on, unless t is preferred and its turns are not over. *)
MoveOn(t, v, o) ==
  IF t \in Preferred /\ v[t] >= 1 THEN o ELSE (o + 1) % Len(queue)

Runnable(t) == finish[t] = "no" /\ pause[t] = "no"

(* The task at the offset, or the one after it if that is finished or       *)
(* paused; which is not looked at any more.                                 *)
Choose(s) ==
  LET n == Len(queue)
      o == IF offset >= n THEN 0 ELSE offset
      first == queue[o + 1]
      sv1 == YxTest(first, served)
      o1 == MoveOn(first, sv1, o)
      second == IF o + 2 <= n THEN queue[o + 2] ELSE queue[1]
      sv2 == YxTest(second, sv1)
      o2 == MoveOn(second, sv2, o1)
  IN
  /\ ses[s].pc = "idle"
  /\ n > 0
  /\ IF Runnable(first)
     THEN /\ ses' = [ses EXCEPT ![s] = [Idle EXCEPT !.pc = "chosen", !.task = first]]
          /\ served' = sv1 /\ offset' = o1
     ELSE /\ ses' = [ses EXCEPT ![s] = [Idle EXCEPT !.pc = "chosen", !.task = second]]
          /\ served' = sv2 /\ offset' = o2
  /\ UNCHANGED <<taskVars, water, listVars, statVars, given, engVars, stopVars>>

-----------------------------------------------------------------------------
(* ... and the mailboxes of one domain after the other *)

Ask(s, d, n) ==
  /\ ses[s].pc = "chosen"
  /\ Runnable(ses[s].task)
  /\ ses' = [ses EXCEPT ![s].pc = "lock", ![s].dom = d, ![s].left = n]
  /\ UNCHANGED <<taskVars, pickVars, water, listVars, statVars, given, engVars, stopVars>>

Lock(s) ==
  /\ ses[s].pc = "lock"
  /\ ~Locked(ListOf(s))
  /\ ses' = [ses EXCEPT ![s].pc = "loop"]
  /\ UNCHANGED <<taskVars, pickVars, water, listVars, statVars, given, engVars, stopVars>>

(* Fault: the search starts at the top of the list. *)
CandidateTop(l, i) == stat[l][i] # "success"

(* i is a mailbox the search from nNowPos can come to. *)
Candidate(l, i) == i > pos[l] /\ stat[l][i] # "success"

(* One turn of the loop: the tests before a mailbox, or the end, is found. *)
Loop(s) ==
  LET l == ListOf(s)
      C == {i \in Boxes(l) : Candidate(l, i)}
      stop == \/ ses[s].left = 0
              \/ count[l].remain = 0
              \/ round[l] >= RoundNum
              \/ rest[l]
  IN
  /\ ses[s].pc = "loop"
  /\ \/ /\ stop
        /\ ses' = [ses EXCEPT ![s].pc = "chosen"]
     \/ /\ ~stop /\ C # {}
        /\ \E i \in C :
             /\ \A j \in C : i <= j
             /\ ses' = [ses EXCEPT ![s].pc = "give", ![s].next = i]
     \/ /\ ~stop /\ C = {}
        /\ ses' = [ses EXCEPT ![s].pc = "wrap", ![s].next = round[l]]
  /\ UNCHANGED <<taskVars, pickVars, water, listVars, statVars, given, engVars, stopVars>>

(* The mailbox goes into the answer. *)
Give(s) ==
  LET l == ListOf(s)
      i == ses[s].next
      t == ses[s].task
  IN
  /\ ses[s].pc = "give"
  /\ pos' = [pos EXCEPT ![l] = i]
  /\ given' = [given EXCEPT ![l][i] = @ + 1]
  /\ late' = IF Stopped(t) THEN [late EXCEPT ![t] = @ + 1] ELSE late
  /\ ses' = [ses EXCEPT ![s].pc = "loop", ![s].left = @ - 1]
  /\ UNCHANGED <<taskVars, pickVars, water, round, rest, statVars, engVars, undone>>

(* The end of the list: nRound is counted up.  A STOP request may have      *)
(* written it between the two accesses, which is then lost.  nTime is set,  *)
(* which is read only if a round is left.                                   *)
Wrap(s) ==
  LET l == ListOf(s) IN
  /\ ses[s].pc = "wrap"
  /\ pos' = [pos EXCEPT ![l] = 0]
  /\ round' = [round EXCEPT ![l] = ses[s].next + 1]
  /\ rest' = [rest EXCEPT ![l] = ses[s].next + 1 < RoundNum]
  /\ undone' = IF round[l] = Ended THEN undone \cup {l} ELSE undone
  /\ ses' = [ses EXCEPT ![s].pc = "chosen"]
  /\ UNCHANGED <<taskVars, pickVars, water, statVars, given, engVars, late>>

(* The answer is sent. *)
EndSession(s) ==
  /\ ses[s].pc = "chosen"
  /\ ses' = [ses EXCEPT ![s] = Idle]
  /\ UNCHANGED <<taskVars, pickVars, water, listVars, statVars, given, engVars, stopVars>>

-----------------------------------------------------------------------------
(* Reports *)

(* ChangeMailboxStatWithLevel; a task that is gone is not found. *)
ChangeStat(l, i, new) ==
  IF InQueue(l[1])
  THEN /\ stat' = [stat EXCEPT ![l][i] = new]
       /\ count' = [count EXCEPT ![l] = Counted(@, stat[l][i], new)]
  ELSE UNCHANGED statVars

(* A report about a mailbox that was handed out.  The engine repeats it if  *)
(* it does not get the answer.                                              *)
Report(l, i, k) ==
  /\ told[l][i] < given[l][i]
  /\ ~Locked(l)
  /\ told' = [told EXCEPT ![l][i] = @ + 1]
  /\ ChangeStat(l, i, StatusOf(k))
  /\ \/ UNCHANGED <<again, repeats>>
     \/ /\ repeats < MaxAgain
        /\ repeats' = repeats + 1
        /\ again' = again \cup {<<l, i, k>>}
  /\ UNCHANGED <<taskVars, pickVars, water, listVars, ses, given, stopVars>>

RepeatReport(r) ==
  /\ r \in again
  /\ ~Locked(r[1])
  /\ again' = again \ {r}
  /\ ChangeStat(r[1], r[2], StatusOf(r[3]))
  /\ UNCHANGED <<taskVars, pickVars, water, listVars, ses, given, told, repeats, stopVars>>

-----------------------------------------------------------------------------
Handling(s) ==
  \/ Choose(s) \/ Lock(s) \/ Loop(s) \/ Give(s) \/ Wrap(s) \/ EndSession(s)
  \/ \E d \in Domains, n \in 1 .. MaxAsk : Ask(s, d, n)

StopSession(t) == \E d \in Domains : StopList(t, d)

MainThread == \E R \in SUBSET Tasks : MainPass(R)

Next ==
  \/ \E t \in Tasks : \/ AddTask(t) \/ PauseTask(t) \/ RestartTask(t) \/ StopTask(t)
                      \/ StopSession(t)
  \/ MainThread
  \/ ChangeWaterMode
  \/ \E l \in Lists : RoundPeriod(l)
  \/ \E s \in Sessions : Handling(s)
  \/ \E l \in Lists : \E i \in Boxes(l), k \in Kinds : Report(l, i, k)
  \/ \E r \in again : RepeatReport(r)

Spec == Init /\ [][Next]_vars

(* Some session hands out mailboxes of domain d of task t. *)
Asked(t, d) ==
  \E s \in Sessions, n \in 1 .. MaxAsk : ses[s].task = t /\ Ask(s, d, n)

(* Threads are scheduled; engines go on asking, each request for every      *)
(* domain and for finitely many; pLockRWTask prefers writers, so the main   *)
(* thread gets it although sessions come and go.                            *)
FairSpec ==
  /\ Spec
  /\ \A s \in Sessions :
       /\ WF_vars(Choose(s))
       /\ SF_vars(Lock(s))
       /\ WF_vars(Loop(s) \/ Give(s) \/ Wrap(s))
       /\ SF_vars(EndSession(s))
  /\ \A t \in Tasks, d \in Domains : SF_vars(Asked(t, d))
  /\ WF_vars(\E t \in Tasks : StopSession(t))
  /\ WF_vars(\E l \in Lists : RoundPeriod(l))
  /\ SF_vars(MainThread)

-----------------------------------------------------------------------------
(* Properties *)

CountType ==
  [remain : Int, success : Int, fail : Int, delay : Int, notfound : Int,
   dns : Int, spam : Int]

(* Every variable has its type: in particular the offset is one of the      *)
(* queue or stale, and a list's cursor stays within the list.               *)
TypeOK ==
  /\ added \subseteq Tasks
  /\ \A i \in 1 .. Len(queue) : queue[i] \in added
  /\ offset \in Nat
  /\ served \in [Tasks -> 0 .. Level]
  /\ finish \in [Tasks -> {"no", "self", "stop"}]
  /\ pause \in [Tasks -> {"no", "user", "water"}]
  /\ water \in 0 .. MaxWater
  /\ marking \in [Tasks -> SUBSET Domains]
  /\ round \in [Lists -> Nat]
  /\ \A l \in Lists : pos[l] \in 0 .. Size[l]
  /\ rest \in [Lists -> BOOLEAN]
  /\ \A l \in Lists : stat[l] \in [Boxes(l) -> Status]
  /\ count \in [Lists -> CountType]
  /\ \A s \in Sessions :
       /\ ses[s].pc \in {"idle", "chosen", "lock", "loop", "give", "wrap"}
       /\ ses[s].task \in Tasks \cup {NoTask}
       /\ ses[s].left \in 0 .. MaxAsk

(* Whatever sessions, reports and stops do at the same time, a mailbox is   *)
(* handed out at most once per round, and the first round passes over none. *)
RoundCover ==
  \A l \in Lists : \A i \in Boxes(l) :
    /\ given[l][i] <= RoundNum
    /\ finish[l[1]] # "stop" =>
         /\ given[l][i] <= round[l] + One(i <= pos[l])
         /\ round[l] > 0 \/ i <= pos[l] => given[l][i] > 0

Having(l, K) == Cardinality({i \in Boxes(l) : stat[l][i] \in K})

(* The failures shown to the user are those of the mailboxes' last results, *)
(* after any sequence of repeated and contradicting reports.                *)
FailuresCounted ==
  \A l \in Lists :
    /\ count[l].fail = Having(l, FailLike)
    /\ count[l].delay = Having(l, DelayLike)
    /\ count[l].notfound = Having(l, {"notfound"})
    /\ count[l].dns = Having(l, {"dns"})
    /\ count[l].spam = Having(l, {"spam"})

(* nCount, which decides whether a task is finished, never exceeds the      *)
(* mailboxes without success, nSuccess is never less than those with it.    *)
RemainBound ==
  \A l \in Lists :
    /\ count[l].remain <= Size[l] - Having(l, {"success"})
    /\ count[l].success >= Having(l, {"success"})

(* "task <..> has finished": the main thread finishes a task only when      *)
(* every mailbox of it was handed out, as long as no report is repeated: a  *)
(* repeated success takes nCount down once more.                            *)
FinishedTried ==
  repeats = 0 =>
    \A l \in Lists :
      finish[l[1]] = "self" => \A i \in Boxes(l) : given[l][i] > 0

(* Once STOP is answered, each session hands out at most the mailbox it was *)
(* about to, although it takes no lock the STOP session holds; unless a     *)
(* session at the end of a list wrote nRound over the mark: one that waits  *)
(* for the list's lock then may go on.                                      *)
StopIsPrompt ==
  \A t \in Tasks :
    (\A d \in Domains : <<t, d>> \notin undone) => late[t] <= Cardinality(Sessions)

(* Every task in the queue is finished in the end, reports or not, unless   *)
(* it is paused: the round robin of preferred and other, finished and       *)
(* paused tasks leaves none out for ever.                                   *)
EventuallyFinished ==
  \A t \in Tasks : t \in added ~> finish[t] # "no" \/ pause[t] # "no"
=============================================================================
