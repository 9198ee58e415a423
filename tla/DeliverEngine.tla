--------------------------- MODULE DeliverEngine ---------------------------
(***************************************************************************)
(* The delivery engine (service/deliver_engine): one main thread that asks *)
(* the dispatcher (service/maillist) for mails, starts one detached        *)
(* delivery thread per attempt, collects the results the threads leave in  *)
(* m_map_mail_tmp, and reports final results back.                         *)
(*                                                                         *)
(* The main thread talks to the dispatcher over one TCP connection.  Every *)
(* request is followed by one call of RequestMail::ParseRsp, which takes   *)
(* whatever answer comes next: requests and answers are not numbered.      *)
(*                                                                         *)
(* Time is abstracted: a node's "ripe" says that the 120 s pause after a   *)
(* soft failure is over, "reportDue" that ReportIterval has passed.        *)
(***************************************************************************)
EXTENDS Integers, Sequences, FiniteSets

CONSTANTS
  Tasks,       \* task ids (struct Task_Id)
  Mails,       \* hand-outs: one mailbox in one round of its task
  TaskOf,      \* TaskOf[m]: the task mailbox m belongs to
  OverLimit,   \* tasks whose id exceeds 3000000: MakeMailList skips them
  BadTasks,    \* tasks whose template Protemplate cannot parse
  BadText,     \* mailboxes whose text emlbase64 cannot encode
  SeqLimit,    \* the value at which seq_no starts again (10000000)
  SoftLimit,   \* the soft failure a mail is reported after (3)
  Workers,     \* the delivery threads the system can run at once
  Batch,       \* bound: mails in one answer of the dispatcher
  MaxLag,      \* bound: requests unanswered while select() times out
  MaxBreaks    \* bound: connections that break

NoTask == "none"   \* the empty template string
NoMail == "none"   \* the mailbox of an absent node
NoSeq  == -1       \* the key of a thread that does not run

ASSUME EngineAssumption ==
  /\ TaskOf \in [Mails -> Tasks]
  /\ OverLimit \subseteq Tasks /\ BadTasks \subseteq Tasks
  /\ BadText \subseteq Mails
  /\ NoTask \notin Tasks /\ NoMail \notin Mails
  /\ SeqLimit \in Nat \ {0} /\ SoftLimit \in Nat \ {0} /\ Batch \in Nat
  /\ MaxLag \in Nat /\ MaxBreaks \in Nat

Keys == 0 .. SeqLimit

(* mail_node.status *)
Unsent   == 0
Sent     == 1
Sending  == 2
SoftFail == 4
HardFail == 5
Stopped  == 6
Absent   == 9      \* no entry under this key

Status == {Unsent, Sent, Sending, SoftFail, HardFail, Stopped, Absent}

(* struct mail_node; an absent key is mapped to NoNode. *)
Node == [mail : Mails \cup {NoMail}, status : Status,
         failtimes : Nat, ripe : BOOLEAN]

NoNode == [mail |-> NoMail, status |-> Absent, failtimes |-> 0, ripe |-> FALSE]

NewNode(m) == [mail |-> m, status |-> Unsent, failtimes |-> 0, ripe |-> FALSE]

(* struct thread_param, as far as the outcome depends on it. *)
Param == [seqno : Keys \cup {NoSeq}, mail : Mails \cup {NoMail},
          tmpl : Tasks \cup {NoTask}]

NoParam == [seqno |-> NoSeq, mail |-> NoMail, tmpl |-> NoTask]

(* The result letters of a report, each with the mailbox it is about. *)
Result == Mails \X {"s", "f", "x", "d"}

(* The requests of InstallHead's three commands. *)
Request == [type : {"ability", "check", "result"},
            task : Tasks \cup {NoTask}, results : SUBSET Result]

(* The answers ParseRsp tells apart by rsp_code 1 to 4. *)
Answer == [type : {"mails", "template", "ack", "stop"}, mails : SUBSET Mails,
           task : Tasks \cup {NoTask}, tasks : SUBSET Tasks]

AbilityReq   == [type |-> "ability", task |-> NoTask, results |-> {}]
CheckReq(t)  == [type |-> "check", task |-> t, results |-> {}]
ResultReq(R) == [type |-> "result", task |-> NoTask, results |-> R]

MailsRsp(S)    == [type |-> "mails", mails |-> S, task |-> NoTask, tasks |-> {}]
TemplateRsp(t) == [type |-> "template", mails |-> {}, task |-> t, tasks |-> {}]
AckRsp         == [type |-> "ack", mails |-> {}, task |-> NoTask, tasks |-> {}]
StopRsp(N)     == [type |-> "stop", mails |-> {}, task |-> NoTask, tasks |-> N]

VARIABLES
  pc,          \* where the main thread is
  map_mail,    \* m_map_mail
  map_tmp,     \* m_map_mail_tmp: 0, or the flag a thread has left
  map_template,\* m_map_template: whose template is cached for a task
  seq_no,      \* the static seq_no of MakeMailList
  cur,         \* ScanList's iterator: the key it has reached
  td,          \* ScanList's td: the task CheckTemplate asks about
  tries,       \* the counter i of CheckTemplate
  vec,         \* SendReport's list of reported keys
  reportDue,   \* ReportIterval has passed since m_iterval
  worker,      \* the running delivery threads
  up,          \* the connection m_dispfd works
  toDisp,      \* requests on their way
  toEng,       \* answers on their way
  fresh,       \* mails the dispatcher has not handed out
  stopped,     \* tasks this engine was told to stop
  breaks,      \* connections broken so far
  received,    \* history: mails MakeMailList has seen
  delivered,   \* history: mails a thread has delivered
  heard,       \* history: results the dispatcher has taken
  leaked,      \* history: mails MakeMailList skipped or overwrote
  clash,       \* history: a key came round that was still in use
  gaveUp,      \* history: CheckTemplate gave up on a live connection
  late         \* history: some answer took longer than 60 s

scanVars == <<cur, td, tries, map_template>>
linkVars == <<up, toDisp, toEng>>
dispVars == <<fresh, stopped, breaks, heard>>
histVars == <<received, leaked, clash, gaveUp, late>>
attemptVars == <<map_tmp, worker, delivered>>
vars == <<pc, map_mail, scanVars, seq_no, vec, reportDue, linkVars, dispVars,
          histVars, attemptVars>>

-----------------------------------------------------------------------------
Live == {k \in Keys : map_mail[k].status # Absent}

InFlight(k) == \E w \in Workers : worker[w].seqno = k

(* No thread and no result refers to key k. *)
Quiescent(k) == ~InFlight(k) /\ map_tmp[k] = 0

Init ==
  /\ pc = "request"
  /\ map_mail = [k \in Keys |-> NoNode]
  /\ map_tmp = [k \in Keys |-> 0]
  /\ map_template = [t \in Tasks |-> NoTask]
  /\ seq_no = 0
  /\ cur = NoSeq
  /\ td = NoTask
  /\ tries = 0
  /\ vec = {}
  /\ reportDue = FALSE
  /\ worker = [w \in Workers |-> NoParam]
  /\ up = TRUE
  /\ toDisp = <<>>
  /\ toEng = <<>>
  /\ fresh = Mails
  /\ stopped = {}
  /\ breaks = 0
  /\ received = {}
  /\ delivered = {}
  /\ heard = {}
  /\ leaked = {}
  /\ clash = FALSE
  /\ gaveUp = FALSE
  /\ late = FALSE

-----------------------------------------------------------------------------
(* The connection. *)

(* send(): what is written to a broken connection is lost. *)
Send(r) == toDisp' = IF up THEN Append(toDisp, r) ELSE toDisp

(* close(m_dispfd), then CreateClient, which retries until it is connected. *)
Reconnect ==
  /\ up' = TRUE
  /\ toDisp' = <<>>
  /\ toEng' = <<>>

(* select() in ParseRsp ran into its 60 s.  The bound MaxLag keeps the      *)
(* dispatcher from falling behind for ever.                                 *)
TimedOut == up /\ toEng = <<>> /\ Len(toDisp) < MaxLag

(* The next answer is one ParseRsp returns after: it calls itself again     *)
(* after a stop notification, and returns once the last mail is taken.      *)
Answered ==
  /\ toEng # <<>>
  /\ Head(toEng).type # "stop"
  /\ Head(toEng).mails = {}

(* ParseRsp returns 0: an answer, of whatever type, or a timeout. *)
ParseRspOk ==
  \/ /\ Answered
     /\ toEng' = Tail(toEng)
     /\ UNCHANGED <<up, toDisp, late>>
  \/ /\ TimedOut
     /\ late' = TRUE
     /\ UNCHANGED linkVars

(* ParseRsp returns -1, and its caller reconnects. *)
ParseRspFail ==
  /\ ~up
  /\ Reconnect
  /\ UNCHANGED late

-----------------------------------------------------------------------------
(* ParseRsp's effects on m_map_mail, the same for its three callers. *)

Waiting == {"await", "checkwait", "reportwait"}

(* handle_notify_msg: everything of the stopped tasks that is not yet sent  *)
(* is marked, whatever else its status says.                                *)
HandleNotify ==
  /\ pc \in Waiting
  /\ toEng # <<>>
  /\ Head(toEng).type = "stop"
  /\ map_mail' = [k \in Keys |->
       IF /\ map_mail[k].status \notin {Absent, Sent}
          /\ TaskOf[map_mail[k].mail] \in Head(toEng).tasks
       THEN [map_mail[k] EXCEPT !.status = Stopped, !.ripe = FALSE]
       ELSE map_mail[k]]
  /\ toEng' = Tail(toEng)
  /\ UNCHANGED <<pc, scanVars, seq_no, vec, reportDue, up, toDisp, dispVars,
                 histVars, attemptVars>>

NextKey == IF seq_no = SeqLimit THEN 0 ELSE seq_no + 1

(* One turn of the loop of MakeMailList.  A key that is in use is           *)
(* overwritten: the old node is neither sent nor reported.                  *)
MakeMailList(m) ==
  /\ pc \in Waiting
  /\ toEng # <<>>
  /\ m \in Head(toEng).mails
  /\ seq_no' = NextKey
  /\ toEng' = <<[Head(toEng) EXCEPT !.mails = @ \ {m}]>> \o Tail(toEng)
  /\ received' = received \cup {m}
  /\ IF TaskOf[m] \in OverLimit
     THEN /\ leaked' = leaked \cup {m}
          /\ UNCHANGED <<map_mail, clash>>
     ELSE /\ clash' = (clash \/ NextKey \in Live \/ ~Quiescent(NextKey))
          /\ leaked' = leaked \cup ({map_mail[NextKey].mail} \ {NoMail})
          /\ map_mail' = [map_mail EXCEPT ![NextKey] = NewNode(m)]
  /\ UNCHANGED <<pc, scanVars, vec, reportDue, up, toDisp, dispVars,
                 gaveUp, late, attemptVars>>

-----------------------------------------------------------------------------
(* onRun: ask for mails. *)

(* MailListReq moves the failures of finished mails into the counters of    *)
(* their domain (not modelled) and sends the request.                       *)
MailListRequest ==
  /\ pc = "request"
  /\ pc' = "await"
  /\ map_mail' = [k \in Keys |->
       IF map_mail[k].status \in {Sent, HardFail}
       THEN [map_mail[k] EXCEPT !.failtimes = 0]
       ELSE map_mail[k]]
  /\ Send(AbilityReq)
  /\ UNCHANGED <<scanVars, seq_no, vec, reportDue, up, toEng, dispVars,
                 histVars, attemptVars>>

(* The return of onRun's ParseRsp: which answer came is not looked at. *)
Response ==
  /\ pc = "await"
  /\ ParseRspOk \/ ParseRspFail
  /\ pc' = IF Live = {} THEN "request" ELSE "scan"
  /\ cur' = NoSeq
  /\ UNCHANGED <<map_mail, td, tries, map_template, seq_no, vec, reportDue,
                 dispVars, received, leaked, clash, gaveUp,
                 attemptVars>>

-----------------------------------------------------------------------------
(* ScanList *)

(* k is the entry the iterator reaches after cur. *)
IsNext(k) ==
  /\ k \in Live
  /\ cur < k
  /\ \A j \in Live : cur < j => k <= j

(* Fault: status 6 is not passed over. *)
SendableStopped(k) ==
  \/ map_mail[k].status \in {Unsent, Stopped}
  \/ map_mail[k].status = SoftFail /\ map_mail[k].ripe

(* An entry ScanList tries to send. *)
Sendable(k) ==
  \/ map_mail[k].status = Unsent
  \/ map_mail[k].status = SoftFail /\ map_mail[k].ripe

ScanSkip(k) ==
  /\ pc = "scan"
  /\ IsNext(k)
  /\ ~Sendable(k)
  /\ cur' = k
  /\ UNCHANGED <<pc, map_mail, td, tries, map_template, seq_no, vec, reportDue,
                 linkVars, dispVars, histVars, attemptVars>>

ScanEnd ==
  /\ pc = "scan"
  /\ \A j \in Live : ~(cur < j)
  /\ pc' = "update"
  /\ cur' = NoSeq
  /\ UNCHANGED <<map_mail, td, tries, map_template, seq_no, vec, reportDue,
                 linkVars, dispVars, histVars, attemptVars>>

(* failtimes++.  The only test of the count is for SoftLimit, so the counts  *)
(* above it are one value.                                                  *)
Counted(n) == IF n > SoftLimit THEN n ELSE n + 1

FailHard(k) ==
  map_mail' = [map_mail EXCEPT ![k].status = HardFail, ![k].ripe = FALSE,
                               ![k].failtimes = Counted(@)]

StartThread(w, k, t) ==
  /\ worker[w] = NoParam
  /\ worker' = [worker EXCEPT ![w] =
       [seqno |-> k, mail |-> map_mail[k].mail, tmpl |-> t]]
  /\ map_mail' = [map_mail EXCEPT ![k].status = Sending, ![k].ripe = FALSE]

(* The rest of ScanList's loop once template t is at hand: the text may not *)
(* be encodable, the domain may have no MX record, pthread_create may fail. *)
Launch(k, t) ==
  \/ /\ map_mail[k].mail \in BadText
     /\ pc' = "scan" /\ cur' = k
     /\ UNCHANGED <<map_mail, worker>>
  \/ /\ map_mail[k].mail \notin BadText
     /\ pc' = "scan" /\ cur' = k
     /\ FailHard(k)
     /\ UNCHANGED worker
  \/ /\ map_mail[k].mail \notin BadText
     /\ \A w \in Workers : worker[w] # NoParam
     /\ pc' = "update" /\ cur' = NoSeq
     /\ UNCHANGED <<map_mail, worker>>
  \/ /\ map_mail[k].mail \notin BadText
     /\ pc' = "scan" /\ cur' = k
     /\ \E w \in Workers : StartThread(w, k, t)

ScanCached(k) ==
  /\ pc = "scan"
  /\ IsNext(k)
  /\ Sendable(k)
  /\ map_template[TaskOf[map_mail[k].mail]] # NoTask
  /\ Launch(k, map_template[TaskOf[map_mail[k].mail]])
  /\ UNCHANGED <<td, tries, map_template, seq_no, vec, reportDue, map_tmp,
                 delivered, linkVars, dispVars, histVars>>

(* CheckTemplate: the first TemplateSession sends its request. *)
ScanCheck(k) ==
  /\ pc = "scan"
  /\ IsNext(k)
  /\ Sendable(k)
  /\ map_template[TaskOf[map_mail[k].mail]] = NoTask
  /\ pc' = "checkwait"
  /\ cur' = k
  /\ td' = TaskOf[map_mail[k].mail]
  /\ Send(CheckReq(TaskOf[map_mail[k].mail]))
  /\ UNCHANGED <<map_mail, tries, map_template, seq_no, vec, reportDue, up,
                 toEng, dispVars, histVars, attemptVars>>

(* TemplateSession got a template.  Nothing compares the task it is for,    *)
(* and the mail's status is not looked at again.                            *)
CheckOk ==
  /\ pc = "checkwait"
  /\ Answered
  /\ Head(toEng).task # NoTask
  /\ toEng' = Tail(toEng)
  /\ \/ /\ Head(toEng).task \in BadTasks            \* Protemplate failed
        /\ pc' = "scan"
        /\ UNCHANGED <<cur, map_mail, worker, map_template>>
     \/ /\ Head(toEng).task \notin BadTasks
        /\ map_template' = [map_template EXCEPT ![td] = Head(toEng).task]
        /\ Launch(cur, Head(toEng).task)
  /\ td' = NoTask
  /\ tries' = 0
  /\ UNCHANGED <<seq_no, vec, reportDue, map_tmp, delivered, up, toDisp,
                 dispVars, histVars>>

(* TemplateSession failed: no answer, an empty template, or an answer to    *)
(* another request.                                                         *)
SessionFailed ==
  \/ Answered /\ Head(toEng).task = NoTask
  \/ TimedOut
  \/ ~up

(* Fault: one reconnect too many. *)
CheckRetryOnceMore ==
  /\ pc = "checkwait"
  /\ tries <= 3
  /\ SessionFailed
  /\ tries' = tries + 1
  /\ up' = TRUE
  /\ toEng' = <<>>
  /\ toDisp' = <<CheckReq(td)>>
  /\ late' = (late \/ TimedOut)
  /\ UNCHANGED <<pc, map_mail, map_template, seq_no, cur, td, vec, reportDue,
                 dispVars, received, leaked, clash, gaveUp, attemptVars>>

(* Fault: asks again on the same connection. *)
CheckRetrySameLink ==
  /\ pc = "checkwait"
  /\ tries < 3
  /\ SessionFailed
  /\ tries' = tries + 1
  /\ toEng' = IF toEng = <<>> THEN <<>> ELSE Tail(toEng)
  /\ Send(CheckReq(td))
  /\ late' = (late \/ TimedOut)
  /\ UNCHANGED <<pc, map_mail, map_template, seq_no, cur, td, vec, reportDue,
                 up, dispVars, received, leaked, clash, gaveUp, attemptVars>>

(* ... with tries left: reconnect and ask again. *)
CheckRetry ==
  /\ pc = "checkwait"
  /\ tries < 3
  /\ SessionFailed
  /\ tries' = tries + 1
  /\ up' = TRUE
  /\ toEng' = <<>>
  /\ toDisp' = <<CheckReq(td)>>
  /\ late' = (late \/ TimedOut)
  /\ UNCHANGED <<pc, map_mail, map_template, seq_no, cur, td, vec, reportDue,
                 dispVars, received, leaked, clash, gaveUp,
                 attemptVars>>

(* ... for the fourth time: the mail fails for good, and the connection is  *)
(* kept although the answer may still come.                                 *)
CheckFail ==
  /\ pc = "checkwait"
  /\ tries = 3
  /\ SessionFailed
  /\ toEng' = IF toEng = <<>> THEN <<>> ELSE Tail(toEng)
  /\ late' = (late \/ TimedOut)
  /\ gaveUp' = (gaveUp \/ TimedOut)
  /\ FailHard(cur)
  /\ pc' = "scan"
  /\ td' = NoTask
  /\ tries' = 0
  /\ UNCHANGED <<cur, map_template, seq_no, vec, reportDue, up, toDisp, dispVars,
                 received, leaked, clash, attemptVars>>

-----------------------------------------------------------------------------
(* The delivery threads. *)

(* delivery(): Send2Domain's flag is left under the mutex. *)
Deliver(w, flag) ==
  LET k == worker[w].seqno IN
  /\ k \in Keys
  /\ map_tmp' = [map_tmp EXCEPT ![k] = flag]
  /\ worker' = [worker EXCEPT ![w] = NoParam]
  /\ delivered' = IF flag = Sent THEN delivered \cup {worker[w].mail}
                  ELSE delivered
  /\ UNCHANGED <<pc, map_mail, scanVars, seq_no, vec, reportDue, linkVars,
                 dispVars, histVars>>

-----------------------------------------------------------------------------
(* UpdateList, SendReport, UpdateTotle *)

(* Fault: a failure is counted but the status is left alone. *)
UpdatedCountOnly(k, flag) ==
  IF flag = Sent THEN [map_mail[k] EXCEPT !.status = flag]
  ELSE [map_mail[k] EXCEPT !.failtimes = Counted(@)]

(* Fault: a success is treated as a soft failure. *)
UpdatedRetrySent(k, flag) ==
  [map_mail[k] EXCEPT !.status = IF flag = HardFail THEN HardFail ELSE SoftFail,
                      !.failtimes = Counted(@)]

(* The node of key k with a thread's flag applied. *)
Updated(k, flag) ==
  [map_mail[k] EXCEPT !.status = flag, !.ripe = FALSE,
                      !.failtimes = IF flag = Sent THEN @ ELSE Counted(@)]

(* Fault: m_map_mail_tmp is not cleared. *)
UpdateListNoClear ==
  /\ pc = "update"
  /\ pc' = "report"
  /\ map_mail' = [k \in Keys |->
       IF k \in Live /\ map_tmp[k] # 0 THEN Updated(k, map_tmp[k])
       ELSE map_mail[k]]
  /\ UNCHANGED <<scanVars, seq_no, vec, reportDue, attemptVars, linkVars,
                 dispVars, histVars>>

UpdateList ==
  /\ pc = "update"
  /\ pc' = "report"
  /\ map_mail' = [k \in Keys |->
       IF k \in Live /\ map_tmp[k] # 0 THEN Updated(k, map_tmp[k])
       ELSE map_mail[k]]
  /\ map_tmp' = [k \in Keys |-> 0]
  /\ UNCHANGED <<scanVars, seq_no, vec, reportDue, worker, delivered, linkVars,
                 dispVars, histVars>>

(* Fault: hard failures are not reported. *)
ReportableNotHard(k) ==
  \/ map_mail[k].status \in {Sent, Stopped}
  \/ map_mail[k].status = SoftFail /\ map_mail[k].failtimes = SoftLimit

(* RequestMail::SendReport: the entries that go into a report ... *)
Reportable(k) ==
  \/ map_mail[k].status \in {Sent, HardFail, Stopped}
  \/ map_mail[k].status = SoftFail /\ map_mail[k].failtimes = SoftLimit

(* Fault: the letters of a hard failure and of a stop are swapped. *)
LetterSwapped(status) ==
  CASE status = Sent     -> "s"
    [] status = HardFail -> "x"
    [] status = Stopped  -> "f"
    [] status = SoftFail -> "d"

(* ... and the letter each is reported with. *)
Letter(status) ==
  CASE status = Sent     -> "s"
    [] status = HardFail -> "f"
    [] status = Stopped  -> "x"
    [] status = SoftFail -> "d"

ReportOf(K) == {<<map_mail[k].mail, Letter(map_mail[k].status)>> : k \in K}

SkipReport ==
  /\ pc = "report"
  /\ ~reportDue
  /\ pc' = "total"
  /\ UNCHANGED <<map_mail, scanVars, seq_no, vec, reportDue, linkVars,
                 dispVars, histVars, attemptVars>>

SendReport ==
  LET K == {k \in Keys : Reportable(k)} IN
  /\ pc = "report"
  /\ reportDue
  /\ pc' = "reportwait"
  /\ vec' = K
  /\ Send(ResultReq(ReportOf(K)))
  /\ UNCHANGED <<map_mail, scanVars, seq_no, reportDue, up, toEng, dispVars,
                 histVars, attemptVars>>

(* One of the send() calls failed, on a working connection when the socket  *)
(* buffer is full: nothing is erased.                                       *)
SendReportFail ==
  /\ pc = "report"
  /\ reportDue
  /\ up => breaks < MaxBreaks
  /\ breaks' = IF up THEN breaks + 1 ELSE breaks
  /\ Reconnect
  /\ reportDue' = FALSE
  /\ pc' = "total"
  /\ UNCHANGED <<map_mail, scanVars, seq_no, vec, fresh, stopped, heard,
                 histVars, attemptVars>>

(* Fault: the whole list is erased, not the reported entries. *)
EraseReportedAll ==
  /\ pc = "reportwait"
  /\ ParseRspOk
  /\ map_mail' = [k \in Keys |-> NoNode]
  /\ vec' = {}
  /\ reportDue' = FALSE
  /\ pc' = "total"
  /\ UNCHANGED <<scanVars, seq_no, dispVars, received, leaked, clash, gaveUp,
                 attemptVars>>

(* ParseRsp returned 0 to SendReport: the reported entries are erased. *)
EraseReported ==
  /\ pc = "reportwait"
  /\ ParseRspOk
  /\ map_mail' = [k \in Keys |-> IF k \in vec THEN NoNode ELSE map_mail[k]]
  /\ vec' = {}
  /\ reportDue' = FALSE
  /\ pc' = "total"
  /\ UNCHANGED <<scanVars, seq_no, dispVars, received, leaked, clash, gaveUp,
                 attemptVars>>

(* Fault: the entries are erased although the report may be lost. *)
KeepReportedNot ==
  /\ pc = "reportwait"
  /\ ParseRspFail
  /\ map_mail' = [k \in Keys |-> IF k \in vec THEN NoNode ELSE map_mail[k]]
  /\ vec' = {}
  /\ reportDue' = FALSE
  /\ pc' = "total"
  /\ UNCHANGED <<scanVars, seq_no, dispVars, received, leaked, clash, gaveUp,
                 attemptVars>>

(* ParseRsp returned -1: the entries stay for the next report. *)
KeepReported ==
  /\ pc = "reportwait"
  /\ ParseRspFail
  /\ vec' = {}
  /\ reportDue' = FALSE
  /\ pc' = "total"
  /\ UNCHANGED <<map_mail, scanVars, seq_no, dispVars, received, leaked,
                 clash, gaveUp, attemptVars>>

(* UpdateTotle: the template cache is cleared when m_tempiterval is over    *)
(* (the counters of the domains are not modelled).                          *)
UpdateTotle ==
  /\ pc = "total"
  /\ pc' = "request"
  /\ \/ UNCHANGED map_template
     \/ map_template' = [t \in Tasks |-> NoTask]
  /\ UNCHANGED <<map_mail, cur, td, tries, seq_no, vec, reportDue, linkVars,
                 dispVars, histVars, attemptVars>>

-----------------------------------------------------------------------------
(* Time *)

Ripen(k) ==
  /\ map_mail[k].status = SoftFail
  /\ ~map_mail[k].ripe
  /\ map_mail' = [map_mail EXCEPT ![k].ripe = TRUE]
  /\ UNCHANGED <<pc, scanVars, seq_no, vec, reportDue, linkVars, dispVars,
                 histVars, attemptVars>>

TickReport ==
  /\ ~reportDue
  /\ reportDue' = TRUE
  /\ UNCHANGED <<pc, map_mail, scanVars, seq_no, vec, linkVars, dispVars,
                 histVars, attemptVars>>

-----------------------------------------------------------------------------
(* The dispatcher (service/maillist), as the engine sees it. *)

(* The session thread sends a notification of the stops N it finds pending, *)
(* if any, right before its answer.                                         *)
DispSend(N, a) ==
  /\ toEng' = IF N = {} THEN Append(toEng, a)
              ELSE Append(Append(toEng, StopRsp(N)), a)
  /\ toDisp' = Tail(toDisp)
  /\ stopped' = stopped \cup N

DispMails(N, S) ==
  /\ toDisp # <<>>
  /\ Head(toDisp).type = "ability"
  /\ N \cap stopped = {}
  /\ S \subseteq {m \in fresh : TaskOf[m] \notin stopped \cup N}
  /\ Cardinality(S) <= Batch
  /\ DispSend(N, MailsRsp(S))
  /\ fresh' = fresh \ S
  /\ UNCHANGED <<pc, map_mail, scanVars, seq_no, vec, reportDue, up, breaks,
                 heard, histVars, attemptVars>>

(* A task that is no longer in the queue is answered with no template. *)
DispTemplate(N, t) ==
  /\ toDisp # <<>>
  /\ Head(toDisp).type = "check"
  /\ N \cap stopped = {}
  /\ t \in {Head(toDisp).task, NoTask}
  /\ DispSend(N, TemplateRsp(t))
  /\ UNCHANGED <<pc, map_mail, scanVars, seq_no, vec, reportDue, up, fresh,
                 breaks, heard, histVars, attemptVars>>

DispResult(N) ==
  /\ toDisp # <<>>
  /\ Head(toDisp).type = "result"
  /\ N \cap stopped = {}
  /\ heard' = heard \cup Head(toDisp).results
  /\ DispSend(N, AckRsp)
  /\ UNCHANGED <<pc, map_mail, scanVars, seq_no, vec, reportDue, up, fresh,
                 breaks, histVars, attemptVars>>

(* The dispatcher closes the connection, or it breaks. *)
Break ==
  /\ up
  /\ breaks < MaxBreaks
  /\ breaks' = breaks + 1
  /\ up' = FALSE
  /\ toDisp' = <<>>
  /\ toEng' = <<>>
  /\ UNCHANGED <<pc, map_mail, scanVars, seq_no, vec, reportDue, fresh,
                 stopped, heard, histVars, attemptVars>>

-----------------------------------------------------------------------------
MainThread ==
  \/ HandleNotify
  \/ \E m \in Mails : MakeMailList(m)
  \/ MailListRequest
  \/ Response
  \/ \E k \in Keys : ScanSkip(k) \/ ScanCached(k) \/ ScanCheck(k)
  \/ ScanEnd
  \/ CheckOk \/ CheckRetry \/ CheckFail
  \/ UpdateList
  \/ SkipReport \/ SendReport \/ SendReportFail \/ EraseReported \/ KeepReported
  \/ UpdateTotle

DeliveryThread(w) == \E flag \in {Sent, SoftFail, HardFail} : Deliver(w, flag)

Dispatcher ==
  \E N \in SUBSET Tasks :
    \/ \E S \in SUBSET Mails : DispMails(N, S)
    \/ \E t \in Tasks \cup {NoTask} : DispTemplate(N, t)
    \/ DispResult(N)

Next ==
  \/ MainThread
  \/ \E w \in Workers : DeliveryThread(w)
  \/ \E k \in Keys : Ripen(k)
  \/ TickReport
  \/ Dispatcher
  \/ Break

Spec == Init /\ [][Next]_vars

(* The threads are scheduled, time passes, the dispatcher answers. *)
FairSpec ==
  /\ Spec
  /\ WF_vars(MainThread)
  /\ \A w \in Workers : WF_vars(DeliveryThread(w))
  /\ \A k \in Keys : WF_vars(Ripen(k))
  /\ WF_vars(TickReport)
  /\ WF_vars(Dispatcher)

-----------------------------------------------------------------------------
(* Properties *)

MainOK ==
  /\ pc \in Waiting \cup {"request", "scan", "update", "report", "total"}
  /\ map_template \in [Tasks -> Tasks \cup {NoTask}]
  /\ seq_no \in Keys
  /\ cur \in Keys \cup {NoSeq}
  /\ td \in Tasks \cup {NoTask}
  /\ tries \in 0 .. 3
  /\ vec \subseteq Keys

NodesOK ==
  /\ map_mail \in [Keys -> Node]
  /\ map_tmp \in [Keys -> {0, Sent, SoftFail, HardFail}]

ThreadsOK == worker \in [Workers -> Param]

LinkOK == toDisp \in Seq(Request) /\ toEng \in Seq(Answer)

SetsOK ==
  /\ fresh \subseteq Mails
  /\ stopped \subseteq Tasks
  /\ breaks \in 0 .. MaxBreaks
  /\ received \subseteq Mails /\ delivered \subseteq Mails
  /\ heard \subseteq Result /\ leaked \subseteq Mails

FlagsOK ==
  /\ reportDue \in BOOLEAN /\ up \in BOOLEAN
  /\ clash \in BOOLEAN /\ gaveUp \in BOOLEAN /\ late \in BOOLEAN

(* Every variable has its type: in particular tries stays within CheckTemplate's *)
(* three reconnections, and a reported result has one of the four letters.      *)
TypeOK == MainOK /\ NodesOK /\ ThreadsOK /\ LinkOK /\ SetsOK /\ FlagsOK

(* A mail whose server said it took it is never given to a thread again: the *)
(* comment at status 2, "working, do not send again", holds through         *)
(* UpdateList, the stop mark, erasing and the reuse of keys, until seq_no   *)
(* comes round to a key that is still in use.                               *)
AtMostOnce == clash \/ \A w \in Workers : worker[w].mail \notin delivered

(* There is never more than one attempt for a key: one thread, or one       *)
(* result that UpdateList has not yet taken (again until a key clashes).    *)
OneAttempt ==
  clash \/ \A k \in Keys :
    /\ map_tmp[k] # 0 => ~InFlight(k)
    /\ \A w1, w2 \in Workers :
         worker[w1].seqno = k /\ worker[w2].seqno = k => w1 = w2

(* A mail in status 2, which ScanList and SendReport pass over, still has   *)
(* an attempt that will move it on.                                         *)
SendingIsPending ==
  \A k \in Keys : map_mail[k].status = Sending => ~Quiescent(k)

(* While every answer comes within 60 s, a mail the engine took over is in  *)
(* m_map_mail until the dispatcher has its result, however the connection   *)
(* breaks; the exceptions are the mails MakeMailList itself drops.          *)
NoLoss ==
  ~late => \A m \in received \ leaked :
             \/ \E k \in Keys : map_mail[k].mail = m
             \/ \E r \in heard : r[1] = m

(* The results the dispatcher hears are true: a mail reported with 's' was  *)
(* delivered, one reported with 'f' was not and will not be (until a key     *)
(* clashes: then a result is taken for that of another mail).               *)
ResultTrue ==
  clash \/ \A m \in Mails :
    /\ <<m, "s">> \in heard => m \in delivered
    /\ <<m, "f">> \in heard => m \notin delivered

(* A thread sends the template of its mail's task, as long as CheckTemplate *)
(* has not given up on an answer that came later and no key has clashed.    *)
TemplateRight ==
  \/ gaveUp
  \/ clash
  \/ \A w \in Workers :
       worker[w] # NoParam => worker[w].tmpl = TaskOf[worker[w].mail]

(* The stop mark of a mail without an attempt under way, and not waiting    *)
(* for its template, stays until the mail is erased.                        *)
IdleStopIsFinal ==
  [][\A k \in Keys :
       /\ map_mail[k].status = Stopped
       /\ Quiescent(k)
       /\ ~(pc = "checkwait" /\ cur = k)
       => \/ map_mail'[k].status \in {Stopped, Absent}
          \/ map_mail'[k].mail # map_mail[k].mail]_vars

(* Mail m failed softly again before a report could name it at SoftLimit:   *)
(* Reportable passes over it from then on.                                  *)
Overshot(m) ==
  \E k \in Keys : /\ map_mail[k].mail = m
                  /\ map_mail[k].status = SoftFail
                  /\ map_mail[k].failtimes > SoftLimit

(* Every mail the engine has taken over is reported in the end, unless its  *)
(* template or text cannot be used or it goes on failing softly for ever    *)
(* after its count has passed SoftLimit.  A count that passes the limit is  *)
(* not enough to lose the mail: if an attempt after that ends in another    *)
(* way, or the task is stopped, it is reported.                             *)
EventuallyTold ==
  \A m \in Mails :
    \/ []<>Overshot(m)
    \/ m \in received /\ TaskOf[m] \notin BadTasks /\ m \notin BadText
       ~> m \in leaked \/ \E r \in heard : r[1] = m
=============================================================================
