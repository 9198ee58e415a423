------------------------ MODULE DeliverReport_proofs ------------------------
(***************************************************************************)
(* Proofs about what DeliverEngine tells the dispatcher: that it is true,  *)
(* that nothing is lost, that a thread sends the template of its mail's    *)
(* task, and that a stop mark stays.                                       *)
(***************************************************************************)
EXTENDS DeliverEngine_proofs

-----------------------------------------------------------------------------
(* Stop marks *)

(* Launch is called for an entry ScanList wants to send, or the one whose   *)
(* template CheckTemplate waited for.                                       *)
LEMMA LaunchSame ==
  ASSUME Shape, NEW k \in Keys, NEW t, Launch(k, t), NEW j \in Keys, j # k
  PROVE  Same(j)
<1>1. CASE UNCHANGED <<map_mail, worker>>
  BY <1>1 DEF Same
<1>2. CASE FailHard(k)
  BY <1>2, FailNodes DEF Shape, TypeOK
<1>3. CASE \E w \in Workers : StartThread(w, k, t)
  BY <1>3, StartNodes DEF Shape, TypeOK
<1>q. QED
  BY <1>1, <1>2, <1>3 DEF Launch

(* The stop mark of a mail that has no attempt and does not wait for its    *)
(* template stays until SendReport erases the entry, also when keys clash:  *)
(* MakeMailList then writes another mail over it.                           *)
THEOREM StopMarkStays == Spec => IdleStopIsFinal
<1>1. EngineInv /\ [Next]_vars =>
        [\A k \in Keys :
           /\ map_mail[k].status = Stopped
           /\ Quiescent(k)
           /\ ~(pc = "checkwait" /\ cur = k)
           => \/ map_mail'[k].status \in {Stopped, Absent}
              \/ map_mail'[k].mail # map_mail[k].mail]_vars
  <2> DEFINE Kept(k) == \/ map_mail'[k].status \in {Stopped, Absent}
                        \/ map_mail'[k].mail # map_mail[k].mail
  <2> SUFFICES ASSUME EngineInv, [Next]_vars, NEW k \in Keys,
                      map_mail[k].status = Stopped, Quiescent(k),
                      ~(pc = "checkwait" /\ cur = k)
               PROVE  Kept(k)
    OBVIOUS
  <2> USE DEF EngineInv, Shape, TypeOK
  <2>0. k \in Live
    BY DEF Live, Stopped, Absent
  <2>1. CASE Same(k)
    BY <2>1 DEF Same
  <2>2. CASE HandleNotify
    BY <2>2, NotifyNodes
  <2>3. ASSUME NEW m \in Mails, MakeMailList(m)
        PROVE  Kept(k)
    <3>1. m # map_mail[k].mail
      BY <2>0, <2>3, TransitTake DEF Supply, Known
    <3>q. QED
      BY <2>1, <2>3, <3>1, TakeNodes
  <2>4. CASE MailListRequest
    BY <2>1, <2>4, RequestNodes
  <2>5. ASSUME NEW j \in Keys, ScanCached(j)
        PROVE  Kept(k)
    <3>1. j # k
      BY <2>5 DEF ScanCached, Sendable, Unsent, SoftFail, Stopped
    <3>q. QED
      BY <2>1, <2>5, <3>1, LaunchSame DEF ScanCached
  <2>6. CASE CheckOk
    <3>1. cur \in Keys /\ cur # k
      BY <2>6 DEF CheckOk, CheckShape, Live
    <3>2. CASE UNCHANGED map_mail
      BY <2>1, <3>2 DEF Same
    <3>3. CASE Launch(cur, Head(toEng).task)
      BY <2>1, <3>1, <3>3, LaunchSame
    <3>q. QED
      BY <2>6, <3>2, <3>3 DEF CheckOk
  <2>7. CASE CheckFail
    <3>1. cur \in Keys /\ cur # k
      BY <2>7 DEF CheckFail, CheckShape, Live
    <3>q. QED
      BY <2>1, <2>7, <3>1, FailNodes DEF CheckFail
  <2>8. CASE UpdateList
    BY <2>1, <2>8, UpdateNodes DEF Quiescent, Same
  <2>9. CASE EraseReported
    BY <2>1, <2>9, EraseNodes
  <2>10. ASSUME NEW j \in Keys, Ripen(j)
         PROVE  Kept(k)
    BY <2>1, <2>10, RipenNodes
  <2>11. CASE UNCHANGED map_mail
    BY <2>1, <2>11 DEF Same
  <2>q. QED
    BY <2>2, <2>3, <2>4, <2>5, <2>6, <2>7, <2>8, <2>9, <2>10, <2>11
      DEF Next, MainThread, DeliveryThread, Dispatcher, vars, Response, ScanSkip,
      ScanCheck, ScanEnd, CheckRetry, SkipReport, SendReport, SendReportFail,
      KeepReported, UpdateTotle, Deliver, TickReport, DispMails, DispTemplate,
      DispResult, Break
<1>q. QED
  BY <1>1, EngineInvariant, PTL DEF Spec, IdleStopIsFinal

-----------------------------------------------------------------------------
(* Results are true *)

(* A result the dispatcher has heard or will hear *)
Says(r) == r \in heard \/ \E i \in 1 .. Len(toDisp) : r \in toDisp[i].results

(* No thread has m or will get it: its entry, if it is still there, has     *)
(* failed for good or is marked, and nothing is under way for it.           *)
Over(m) ==
  /\ m \in received /\ m \notin delivered
  /\ \A w \in Workers : worker[w].mail # m
  /\ \A k \in Live : map_mail[k].mail = m =>
       /\ map_mail[k].status \in {HardFail, Stopped}
       /\ map_tmp[k] = 0
       /\ ~(pc = "checkwait" /\ cur = k)

Truthful ==
  \A m \in Mails : /\ Says(<<m, "s">>) => m \in delivered
                   /\ Says(<<m, "f">>) => Over(m)

(* Steps that give no thread a mail and touch the entry of m in no other    *)
(* way than marking or erasing it.                                          *)
LEMMA OverKept ==
  ASSUME NEW m \in Mails, Over(m),
         received \subseteq received', m \notin delivered',
         \A w \in Workers : worker'[w].mail # m,
         \A k \in Keys :
           \/ map_mail'[k].status = Absent
           \/ map_mail'[k].mail # m
           \/ /\ map_mail'[k].mail = map_mail[k].mail /\ k \in Live
              /\ map_mail'[k].status \in {map_mail[k].status, HardFail, Stopped}
              /\ map_tmp'[k] \in {map_tmp[k], 0}
              /\ pc' = "checkwait" /\ cur' = k => pc = "checkwait" /\ cur = k
  PROVE  Over(m)'
  BY DEF Over, Live

LEMMA OverLaunch ==
  ASSUME EngineInv, Core, NEW m \in Mails, Over(m), NEW k \in Live, NEW t,
         Launch(k, t), map_mail[k].mail # m, UNCHANGED <<map_tmp, delivered, received>>
  PROVE  Over(m)'
<1> USE DEF EngineInv, Shape, TypeOK
<1>0. k \in Keys
  BY DEF Live
<1>1. \A j \in Keys \ {k} : Same(j)
  BY <1>0, LaunchSame
<1>2. map_mail'[k].mail = map_mail[k].mail
  BY <1>0, LaunchNodes
<1>3. \A w \in Workers : worker'[w].mail # m
  BY DEF Launch, StartThread, Over, ThreadsOK, Param
<1>4. pc' # "checkwait"
  BY DEF Launch
<1>q. QED
  BY <1>0, <1>1, <1>2, <1>3, <1>4, OverKept DEF Over, Same, Live

LEMMA OverNext ==
  ASSUME EngineInv, Core, NEW m \in Mails, Over(m), [Next]_vars, ~clash'
  PROVE  Over(m)'
<1> USE DEF EngineInv, Shape, TypeOK
<1>0. CASE /\ UNCHANGED <<map_mail, worker, map_tmp, delivered, received>>
           /\ pc' = "checkwait" => pc = "checkwait" /\ cur' = cur
  BY <1>0, OverKept DEF Over, Live
<1>1. CASE HandleNotify
  <2>1. \A k \in Keys :
          /\ map_mail'[k].mail = map_mail[k].mail
          /\ \/ map_mail'[k].status = map_mail[k].status
             \/ map_mail'[k].status = Stopped /\ k \in Live
    BY <1>1, NotifyNodes DEF Live
  <2>2. UNCHANGED <<pc, cur, map_tmp, worker, delivered, received>>
    BY <1>1 DEF HandleNotify, attemptVars, histVars, scanVars
  <2>q. QED
    BY <2>1, <2>2, OverKept DEF Over, Live
<1>2. ASSUME NEW n \in Mails, MakeMailList(n)
      PROVE  Over(m)'
  <2>1. n # m
    BY <1>2, TransitTake DEF Supply, Over
  <2>q. QED
    <3>1. \A k \in Keys : Same(k) \/ map_mail'[k].mail = n
      BY <1>2, TakeNodes
    <3>2. /\ UNCHANGED <<pc, cur, map_tmp, worker, delivered>>
          /\ received \subseteq received'
      BY <1>2 DEF MakeMailList, attemptVars, scanVars
    <3>3. m \notin delivered' /\ \A w \in Workers : worker'[w].mail # m
      BY <3>2 DEF Over
    <3>4. \A k \in Keys :
            \/ map_mail'[k].status = Absent
            \/ map_mail'[k].mail # m
            \/ /\ map_mail'[k].mail = map_mail[k].mail /\ k \in Live
               /\ map_mail'[k].status = map_mail[k].status
      BY <2>1, <3>1 DEF Same, Live
    <3>q. QED
      BY <3>2, <3>3, <3>4, OverKept
<1>3. CASE MailListRequest
  BY <1>3, RequestNodes, OverKept DEF MailListRequest, Over, Same, Live, attemptVars,
    histVars
<1>4. ASSUME NEW k \in Keys, ScanCached(k)
      PROVE  Over(m)'
  <2>1. k \in Live /\ map_mail[k].mail # m
    BY <1>4 DEF ScanCached, IsNext, Sendable, Over, Unsent, SoftFail, HardFail, Stopped
  <2>q. QED
    BY <1>4, <2>1, OverLaunch DEF ScanCached, histVars
<1>5. ASSUME NEW k \in Keys, ScanCheck(k)
      PROVE  Over(m)'
  <2>1. k \in Live /\ map_mail[k].mail # m
    BY <1>5 DEF ScanCheck, IsNext, Sendable, Over, Unsent, SoftFail, HardFail, Stopped
  <2>q. QED
    BY <1>5, <2>1, OverKept DEF ScanCheck, Over, Live, attemptVars, histVars
<1>6. CASE CheckOk
  <2>1. cur \in Live /\ map_mail[cur].mail # m
    BY <1>6 DEF CheckOk, CheckShape, Over
  <2>2. CASE UNCHANGED <<cur, map_mail, worker, map_template>> /\ pc' = "scan"
    BY <1>0, <1>6, <2>2 DEF CheckOk, histVars
  <2>3. CASE Launch(cur, Head(toEng).task)
    BY <1>6, <2>1, <2>3, OverLaunch DEF CheckOk, histVars
  <2>q. QED
    BY <1>6, <2>2, <2>3 DEF CheckOk
<1>7. CASE CheckFail
  <2>1. cur \in Live /\ cur \in Keys
    BY <1>7 DEF CheckFail, CheckShape, Live
  <2>q. QED
    BY <1>7, <2>1, FailNodes, OverKept DEF CheckFail, Over, Same, Live, attemptVars
<1>8. ASSUME NEW w \in Workers, NEW flag \in {Sent, SoftFail, HardFail},
             Deliver(w, flag)
      PROVE  Over(m)'
  <2>1. worker[w].seqno \in Keys /\ worker[w].mail # m
    BY <1>8 DEF Deliver, Over
  <2>2. \A k \in Live : map_mail[k].mail = m => worker[w].seqno # k
    BY <2>1 DEF Core, KeyIsMail
  <2>3. \A k \in Keys : k # worker[w].seqno => map_tmp'[k] = map_tmp[k]
    BY <1>8, <2>1 DEF Deliver, NodesOK
  <2>4. \A v \in Workers : worker'[v] = worker[v] \/ worker'[v] = NoParam
    BY <1>8 DEF Deliver, ThreadsOK
  <2>5. m # NoParam.mail
    BY EngineAssumption DEF NoParam
  <2>6. /\ UNCHANGED <<map_mail, pc, cur, received>>
        /\ delivered' \subseteq delivered \cup {worker[w].mail}
    BY <1>8 DEF Deliver, scanVars, histVars
  <2>q. QED
    BY <2>1, <2>2, <2>3, <2>4, <2>5, <2>6, OverKept DEF Over, Live
<1>9. CASE UpdateList
  <2>1. \A k \in Keys : map_tmp'[k] = 0
    BY <1>9 DEF UpdateList
  <2>q. QED
    BY <1>9, <2>1, UpdateNodes, OverKept DEF UpdateList, Over, Live, histVars
<1>10. CASE EraseReported
  <2>1. \A k \in Keys : Same(k) \/ map_mail'[k].status = Absent
    BY <1>10, EraseNodes
  <2>2. UNCHANGED <<map_tmp, worker, delivered, received>> /\ pc' = "total"
    BY <1>10 DEF EraseReported, attemptVars
  <2>3. m \notin delivered' /\ \A w \in Workers : worker'[w].mail # m
    BY <2>2 DEF Over
  <2>4. \A k \in Keys :
          \/ map_mail'[k].status = Absent
          \/ /\ map_mail'[k].mail = map_mail[k].mail /\ k \in Live
             /\ map_mail'[k].status = map_mail[k].status
    BY <2>1 DEF Same, Live
  <2>q. QED
    BY <2>2, <2>3, <2>4, OverKept
<1>11. ASSUME NEW k \in Keys, Ripen(k)
       PROVE  Over(m)'
  BY <1>11, RipenNodes, OverKept DEF Ripen, Over, Same, Live, attemptVars, histVars,
    scanVars
<1>12. ASSUME NEW k \in Keys, ScanSkip(k)
       PROVE  Over(m)'
  BY <1>0, <1>12 DEF ScanSkip, attemptVars, histVars
<1>13. CASE ScanEnd \/ SkipReport \/ SendReport \/ SendReportFail \/ KeepReported
            \/ UpdateTotle \/ TickReport \/ Break
  BY <1>0, <1>13 DEF ScanEnd, SkipReport, SendReport, SendReportFail, KeepReported,
    UpdateTotle, TickReport, Break, scanVars, attemptVars, histVars
<1>14. CASE Response \/ CheckRetry \/ UNCHANGED vars
  BY <1>0, <1>14 DEF Response, CheckRetry, vars, scanVars, attemptVars, histVars
<1>15. CASE Dispatcher
  BY <1>0, <1>15 DEF Dispatcher, DispMails, DispTemplate, DispResult, scanVars,
    attemptVars, histVars
<1>q. QED
  BY <1>1, <1>2, <1>3, <1>4, <1>5, <1>6, <1>7, <1>8, <1>9, <1>10, <1>11, <1>12,
    <1>13, <1>14, <1>15 DEF Next, MainThread, DeliveryThread
(* What is said after a step was said before, or goes into a report now. *)
LEMMA SaysNext ==
  ASSUME Shape, [Next]_vars, NEW r, Says(r)'
  PROVE  \/ Says(r)
         \/ /\ pc = "report"
            /\ \E k \in Keys : /\ Reportable(k)
                             /\ r = <<map_mail[k].mail, Letter(map_mail[k].status)>>
<1> USE DEF Shape, TypeOK, LinkOK
<1>1. CASE UNCHANGED <<heard, toDisp>>
  BY <1>1 DEF Says
<1>2. CASE heard' = heard /\ toDisp' = <<>>
  BY <1>2 DEF Says
<1>3. ASSUME NEW q \in Request, Send(q), heard' = heard
      PROVE  Says(r) \/ r \in q.results
  <2>1. CASE up
    BY <1>3, <2>1, AppendSeq DEF Send, Says
  <2>2. CASE ~up
    BY <1>3, <2>2 DEF Send, Says
  <2>q. QED
    BY <2>1, <2>2
<1>4. CASE MailListRequest
  BY <1>3, <1>4 DEF MailListRequest, AbilityReq, Request, dispVars
<1>5. ASSUME NEW k \in Keys, ScanCheck(k)
      PROVE  Says(r)
  <2>1. TaskOf[map_mail[k].mail] \in Tasks
    BY <1>5, EngineAssumption DEF ScanCheck, IsNext, Live, NodeShape
  <2>q. QED
    BY <1>3, <1>5, <2>1 DEF ScanCheck, CheckReq, Request, dispVars
<1>6. CASE CheckRetry
  BY <1>6 DEF CheckRetry, CheckReq, dispVars, Says
<1>7. CASE SendReport
  <2> DEFINE K == {k \in Keys : Reportable(k)}
  <2>1. Send(ResultReq(ReportOf(K))) /\ heard' = heard /\ pc = "report"
    BY <1>7 DEF SendReport, dispVars
  <2>2. r \in heard \/ r \in ReportOf(K) \/ \E i \in 1 .. Len(toDisp) : r \in toDisp[i].results
    BY <2>1 DEF Says, Send, ResultReq
  <2>q. QED
    BY <2>1, <2>2 DEF Says, ReportOf
<1>8. ASSUME toDisp # <<>>, toDisp' = Tail(toDisp),
             heard' \subseteq heard \cup Head(toDisp).results
      PROVE  Says(r)
  <2>1. /\ Head(toDisp) = toDisp[1] /\ Len(toDisp) \in Nat /\ Len(toDisp) >= 1
        /\ Len(toDisp') = Len(toDisp) - 1
        /\ \A i \in 1 .. Len(toDisp) - 1 : toDisp'[i] = toDisp[i + 1]
    BY <1>8, TailSeq
  <2>2. 1 \in 1 .. Len(toDisp)
    BY <2>1
  <2>3. \A i \in 1 .. Len(toDisp) - 1 : i + 1 \in 1 .. Len(toDisp)
    BY <2>1
  <2>q. QED
    BY <1>8, <2>1, <2>2, <2>3 DEF Says
<1>9. CASE Dispatcher
  BY <1>8, <1>9 DEF Dispatcher, DispMails, DispTemplate, DispResult, DispSend
<1>10. CASE Response \/ EraseReported \/ KeepReported
  BY <1>1, <1>2, <1>10 DEF Response, EraseReported, KeepReported, ParseRspOk,
    ParseRspFail, Reconnect, linkVars, dispVars
<1>11. CASE SendReportFail \/ Break
  BY <1>2, <1>11 DEF SendReportFail, Break, Reconnect, dispVars
<1>q. QED
  BY <1>1, <1>4, <1>5, <1>6, <1>7, <1>9, <1>10, <1>11
    DEF Next, MainThread, DeliveryThread, vars, linkVars, dispVars, HandleNotify,
    MakeMailList, ScanSkip, ScanCached, ScanEnd, CheckOk, CheckFail, UpdateList,
    SkipReport, UpdateTotle, Deliver, Ripen, TickReport

(* What SendReport puts into a report is so. *)
LEMMA ReportTrue ==
  ASSUME EngineInv, Core, pc = "report", NEW k \in Keys, Reportable(k), NEW m \in Mails,
         m = map_mail[k].mail
  PROVE  /\ Letter(map_mail[k].status) = "s" => m \in delivered
         /\ Letter(map_mail[k].status) = "f" => Over(m)
<1> USE DEF EngineInv, Shape, TypeOK
<1>0. k \in Live
  BY DEF Live, Reportable, Sent, HardFail, Stopped, SoftFail, Absent
<1>1. CASE map_mail[k].status = Sent
  <2>1. m \in delivered
    BY <1>0, <1>1 DEF Core, StatusTrue
  <2>2. Letter(map_mail[k].status) = "s"
    BY <1>1 DEF Letter, Sent, HardFail, Stopped, SoftFail
  <2>q. QED
    BY <2>1, <2>2
<1>2. CASE map_mail[k].status = HardFail
  <2>1. Quiescent(k)
    BY <1>0, <1>2 DEF Core, AttemptLocks, HardFail, Sending, Stopped
  <2>2. m \in received /\ m \notin delivered
    BY <1>0, <1>2, <2>1 DEF Supply, Known, Core, StatusTrue, Quiescent, HardFail, Sent
  <2>3. \A w \in Workers : worker[w].mail # m
    BY <1>0, <2>1 DEF Core, KeyIsMail, Quiescent, InFlight
  <2>4. \A j \in Live : map_mail[j].mail = m => j = k
    BY <1>0 DEF Core, Distinct
  <2>5. Over(m)
    BY <1>2, <2>1, <2>2, <2>3, <2>4 DEF Over, Quiescent
  <2>q. QED
    BY <1>2, <2>5 DEF Letter, HardFail, Sent
<1>3. CASE map_mail[k].status \in {Stopped, SoftFail}
  BY <1>3 DEF Letter, Sent, HardFail, Stopped, SoftFail
<1>q. QED
  BY <1>1, <1>2, <1>3 DEF Reportable

(* A delivered mail stays delivered. *)
LEMMA DeliveredKept == [Next]_vars => delivered \subseteq delivered'
  BY DEF Next, MainThread, DeliveryThread, Dispatcher, vars, attemptVars, HandleNotify,
    MakeMailList, MailListRequest, Response, ScanSkip, ScanCached, ScanCheck, ScanEnd,
    CheckOk, CheckRetry, CheckFail, UpdateList, SkipReport, SendReport, SendReportFail,
    EraseReported, KeepReported, UpdateTotle, Deliver, Ripen, TickReport, DispMails,
    DispTemplate, DispResult, Break

(* The results the dispatcher hears are true: a mail reported with 's' was  *)
(* delivered; one reported with 'f' was not and never will be, whatever     *)
(* stop marks, repeated reports and threads still running do, until a key   *)
(* clashes.                                                                 *)
THEOREM ResultsAreTrue == Spec => []ResultTrue
<1>1. Init => clash \/ Truthful
  BY DEF Init, Truthful, Says
<1>2. EngineInv /\ (clash \/ Truthful) /\ [Next]_vars => (clash \/ Truthful)'
  <2> SUFFICES ASSUME EngineInv, Truthful, Core, [Next]_vars, ~clash', NEW m \in Mails
               PROVE  /\ Says(<<m, "s">>)' => m \in delivered'
                      /\ Says(<<m, "f">>)' => Over(m)'
    BY ClashKept DEF EngineInv, Truthful
  <2>1. ASSUME NEW c \in {"s", "f"}, Says(<<m, c>>)'
        PROVE  \/ Says(<<m, c>>)
               \/ /\ c = "s" => m \in delivered
                  /\ c = "f" => Over(m)
    BY <2>1, SaysNext, ReportTrue DEF EngineInv
  <2>2. Says(<<m, "s">>)' => m \in delivered
    BY <2>1 DEF Truthful
  <2>3. Says(<<m, "f">>)' => Over(m)
    BY <2>1 DEF Truthful
  <2>q. QED
    BY <2>2, <2>3, OverNext, DeliveredKept
<1>3. clash \/ Truthful => ResultTrue
  BY DEF Truthful, ResultTrue, Says, Over
<1>q. QED
  BY <1>1, <1>2, <1>3, EngineInvariant, PTL DEF Spec
-----------------------------------------------------------------------------
(* Nothing is lost *)

(* While every answer comes in time, requests and answers alternate: none   *)
(* is under way unless ParseRsp waits, and the answer is what comes last.   *)
InTurn ==
  /\ pc \notin Waiting \/ ~up => toDisp = <<>> /\ toEng = <<>>
  /\ Len(toDisp) <= 1
  /\ toDisp # <<>> => toEng = <<>>
  /\ \A i \in 1 .. Len(toEng) : toEng[i].type = "stop" \/ i = Len(toEng)

Told(k) == \E r \in heard : r[1] = map_mail[k].mail

(* While SendReport waits, its report has all entries it will erase, and    *)
(* an answer means that the dispatcher has heard it.                        *)
ReportInTurn ==
  pc = "reportwait" =>
    /\ \A i \in 1 .. Len(toEng) : toEng[i].mails = {}
    /\ \A i \in 1 .. Len(toDisp) :
         /\ toDisp[i].type = "result"
         /\ \A k \in vec : \E r \in toDisp[i].results : r[1] = map_mail[k].mail
    /\ toEng # <<>> => \A k \in vec : Told(k)

Kept ==
  \A m \in received \ leaked :
    \/ \E k \in Keys : map_mail[k].mail = m
    \/ \E r \in heard : r[1] = m

(* An answer that came late is remembered. *)
LEMMA LateKept == late /\ [Next]_vars => late'
<1> SUFFICES ASSUME late, [Next]_vars PROVE late'
  OBVIOUS
<1>1. CASE ParseRspOk \/ ParseRspFail
  BY <1>1 DEF ParseRspOk, ParseRspFail
<1>2. CASE CheckRetry \/ CheckFail
  <2>1. late' = (late \/ TimedOut)
    BY <1>2 DEF CheckRetry, CheckFail
  <2>q. QED
    BY <2>1, Zenon
<1>3. CASE UNCHANGED late
  BY <1>3
<1>q. QED
  BY <1>1, <1>2, <1>3 DEF Next, MainThread, DeliveryThread, Dispatcher, vars, histVars,
    HandleNotify, MakeMailList, MailListRequest, Response, ScanSkip, ScanCached,
    ScanCheck, ScanEnd, CheckOk, UpdateList, SkipReport, SendReport, SendReportFail,
    EraseReported, KeepReported, UpdateTotle, Deliver, Ripen, TickReport, DispMails,
    DispTemplate, DispResult, Break

(* Every element of a tail is one of the sequence, the last one stays last. *)
LEMMA TailElement ==
  ASSUME NEW S, NEW s \in Seq(S), s # <<>>, NEW i \in 1 .. Len(Tail(s))
  PROVE  \E j \in 1 .. Len(s) : /\ Tail(s)[i] = s[j]
                               /\ j = Len(s) => i = Len(Tail(s))
<1> DEFINE n == Len(s)
<1>1. n \in Nat
  OBVIOUS
<1>2. Len(Tail(s)) = n - 1 /\ \A j \in 1 .. n - 1 : Tail(s)[j] = s[j + 1]
  BY TailSeq
<1> HIDE DEF n
<1>3. i \in 1 .. n - 1
  BY <1>2
<1>4. i + 1 \in 1 .. n /\ (i + 1 = n => i = n - 1)
  BY <1>1, <1>3
<1>5. Tail(s)[i] = s[i + 1]
  BY <1>2, <1>3
<1>q. QED
  BY <1>2, <1>4, <1>5 DEF n

LEMMA HeadElement ==
  ASSUME NEW S, NEW s \in Seq(S), s # <<>>
  PROVE  Len(s) \in Nat /\ 1 \in 1 .. Len(s) /\ Head(s) = s[1]
<1>1. Len(s) \in Nat
  OBVIOUS
<1>2. Len(s) >= 1 /\ Head(s) = s[1]
  BY TailSeq
<1>q. QED
  BY <1>1, <1>2

LEMMA AppendElement ==
  ASSUME NEW S, NEW s \in Seq(S), NEW x \in S, NEW i \in 1 .. Len(Append(s, x))
  PROVE  \/ i \in 1 .. Len(s) /\ Append(s, x)[i] = s[i]
         \/ i = Len(Append(s, x)) /\ Append(s, x)[i] = x
<1> DEFINE n == Len(s)
<1>1. n \in Nat
  OBVIOUS
<1>2. /\ Len(Append(s, x)) = n + 1
      /\ \A j \in 1 .. n : Append(s, x)[j] = s[j]
      /\ Append(s, x)[n + 1] = x
  BY AppendSeq
<1> HIDE DEF n
<1>3. i \in 1 .. n \/ i = n + 1
  BY <1>1, <1>2
<1>q. QED
  BY <1>2, <1>3 DEF n

LEMMA OneElement ==
  ASSUME NEW S, NEW s \in Seq(S), s # <<>>, Len(s) <= 1
  PROVE  /\ Len(s) = 1 /\ 1 \in 1 .. Len(s) /\ Head(s) = s[1]
         /\ Tail(s) = <<>>
<1>1. Len(s) \in Nat
  OBVIOUS
<1>2. /\ Len(s) >= 1 /\ Head(s) = s[1]
      /\ Tail(s) \in Seq(S) /\ Len(Tail(s)) = Len(s) - 1
  BY TailSeq
<1>3. Len(s) = 1
  BY <1>1, <1>2
<1>4. ASSUME Tail(s) # <<>> PROVE FALSE
  <2>1. Len(Tail(s)) >= 1
    BY <1>2, <1>4, TailSeq
  <2>2. Len(Tail(s)) = 0
    BY <1>2, <1>3
  <2>q. QED
    BY <2>1, <2>2
<1>5. Tail(s) = <<>>
  BY <1>4
<1>q. QED
  BY <1>2, <1>3, <1>5

(* What the dispatcher makes of the channels when it answers in turn. *)
LEMMA DispInTurn ==
  ASSUME LinkOK, InTurn, toDisp # <<>>, NEW N \in SUBSET Tasks, NEW a \in Answer,
         DispSend(N, a)
  PROVE  /\ toDisp' = <<>>
         /\ \A i \in 1 .. Len(toEng') :
              \/ toEng'[i] = StopRsp(N)
              \/ toEng'[i] = a /\ i = Len(toEng')
         /\ Head(toDisp) = toDisp[1] /\ 1 \in 1 .. Len(toDisp)
<1>1. toEng = <<>>
  BY DEF InTurn
<1>2. /\ Len(toDisp) = 1 /\ 1 \in 1 .. Len(toDisp) /\ Head(toDisp) = toDisp[1]
      /\ Tail(toDisp) = <<>>
  BY OneElement DEF LinkOK, InTurn
<1> DEFINE e == Append(toEng, StopRsp(N))
<1>3. e \in Seq(Answer) /\ Len(e) = 1 /\ e[1] = StopRsp(N)
  BY <1>1, RspType, AppendSeq DEF LinkOK
<1>4. CASE N = {}
  BY <1>1, <1>2, <1>4, AppendSeq DEF DispSend, LinkOK
<1>5. CASE N # {}
  <2>1. toEng' = Append(e, a)
    BY <1>5 DEF DispSend
  <2> HIDE DEF e
  <2>q. QED
    BY <1>2, <1>3, <2>1, AppendSeq DEF DispSend
<1>q. QED
  BY <1>4, <1>5

(* The one answer that ends a ParseRsp leaves the channels empty. *)
LEMMA LastInTurn ==
  ASSUME LinkOK, InTurn, toEng # <<>>, Head(toEng).type # "stop"
  PROVE  toDisp = <<>> /\ Tail(toEng) = <<>>
<1>1. Head(toEng) = toEng[1] /\ Len(toEng) >= 1 /\ Len(toEng) \in Nat
  BY TailSeq DEF LinkOK
<1>2. 1 \in 1 .. Len(toEng)
  BY <1>1
<1>3. Len(toEng) <= 1
  BY <1>1, <1>2 DEF InTurn
<1>4. Tail(toEng) = <<>>
  BY <1>3, OneElement DEF LinkOK
<1>q. QED
  BY <1>4 DEF InTurn

(* The return of ParseRsp, in time. *)
LEMMA ParseInTurn ==
  ASSUME LinkOK, InTurn, ParseRspOk \/ ParseRspFail, ~late'
  PROVE  toDisp' = <<>> /\ toEng' = <<>>
<1>1. CASE Answered /\ toEng' = Tail(toEng) /\ UNCHANGED toDisp
  BY <1>1, LastInTurn DEF Answered
<1>2. CASE ParseRspFail
  BY <1>2 DEF ParseRspFail, Reconnect
<1>q. QED
  BY <1>1, <1>2 DEF ParseRspOk

(* SendReport and its peers: a request when nothing is under way. *)
LEMMA SendInTurn ==
  ASSUME toDisp = <<>>, toEng = <<>>, NEW q, Send(q), UNCHANGED <<toEng, up>>
  PROVE  /\ toEng' = <<>> /\ Len(toDisp') <= 1
         /\ ~up' => toDisp' = <<>>
         /\ \A i \in 1 .. Len(toDisp') : toDisp'[i] = q
<1>1. CASE up
  <2>1. toDisp' = <<q>>
    BY <1>1 DEF Send
  <2>q. QED
    BY <1>1, <2>1
<1>2. CASE ~up
  BY <1>2 DEF Send
<1>q. QED
  BY <1>1, <1>2

(* Steps that empty the channels. *)
LEMMA EmptyInTurn ==
  ASSUME toDisp' = <<>>, toEng' = <<>>
  PROVE  InTurn' /\ ReportInTurn'
  BY DEF InTurn, ReportInTurn

(* Steps that leave the channels alone. *)
LEMMA SameInTurn ==
  ASSUME InTurn, ReportInTurn, UNCHANGED <<toDisp, toEng, up, vec, heard>>,
         pc' \notin Waiting => pc \notin Waiting,
         pc' = "reportwait" => pc = "reportwait",
         \A k \in Keys : map_mail'[k].mail = map_mail[k].mail,
         vec \subseteq Keys
  PROVE  InTurn' /\ ReportInTurn'
<1>1. InTurn'
  BY DEF InTurn
<1>2. \A k \in vec : Told(k)' <=> Told(k)
  BY DEF Told
<1>3. ReportInTurn'
  BY <1>2 DEF ReportInTurn
<1>q. QED
  BY <1>1, <1>3
(* The mails of the entries, as far as this part needs them. *)
LEMMA MailsKept ==
  ASSUME Shape, [Next]_vars, ~EraseReported, \A m \in Mails : ~MakeMailList(m)
  PROVE  \A k \in Keys : map_mail'[k].mail = map_mail[k].mail
<1> SUFFICES ASSUME NEW k \in Keys PROVE map_mail'[k].mail = map_mail[k].mail
  OBVIOUS
<1> USE DEF Shape, TypeOK
<1>1. CASE HandleNotify
  BY <1>1, NotifyNodes
<1>2. CASE MailListRequest
  BY <1>2, RequestNodes DEF Same
<1>3. ASSUME NEW j \in Keys, ScanCached(j)
      PROVE  map_mail'[k].mail = map_mail[k].mail
  BY <1>3, LaunchNodes DEF ScanCached
<1>4. CASE CheckOk
  <2>1. cur \in Keys
    BY <1>4 DEF CheckOk, CheckShape, Live
  <2>q. QED
    BY <1>4, <2>1, LaunchNodes DEF CheckOk
<1>5. CASE CheckFail
  <2>1. cur \in Keys
    BY <1>5 DEF CheckFail, CheckShape, Live
  <2>q. QED
    BY <1>5, <2>1, FailNodes DEF CheckFail, Same
<1>6. CASE UpdateList
  BY <1>6, UpdateNodes
<1>7. ASSUME NEW j \in Keys, Ripen(j)
      PROVE  map_mail'[k].mail = map_mail[k].mail
  BY <1>7, RipenNodes DEF Same
<1>8. CASE UNCHANGED map_mail
  BY <1>8
<1>q. QED
  BY <1>1, <1>2, <1>3, <1>4, <1>5, <1>6, <1>7, <1>8
    DEF Next, MainThread, DeliveryThread, Dispatcher, vars, Response, ScanSkip,
    ScanCheck, ScanEnd, CheckRetry, SkipReport, SendReport, SendReportFail,
    KeepReported, UpdateTotle, Deliver, TickReport, DispMails, DispTemplate,
    DispResult, Break

LEMMA InTurnNext ==
  ASSUME Shape, InTurn, ReportInTurn, [Next]_vars, ~late'
  PROVE  InTurn' /\ ReportInTurn'
<1> USE DEF Shape, TypeOK
<1>0. vec \subseteq Keys
  BY DEF MainOK
<1>1. CASE HandleNotify
  <2>0. toEng \in Seq(Answer) /\ toEng # <<>> /\ toEng' = Tail(toEng)
    BY <1>1 DEF HandleNotify, LinkOK
  <2>2. \A i \in 1 .. Len(toEng') : \E j \in 1 .. Len(toEng) :
          toEng'[i] = toEng[j] /\ (j = Len(toEng) => i = Len(toEng'))
    BY <2>0, TailElement
  <2>3. /\ UNCHANGED <<pc, up, toDisp, vec, heard>> /\ pc \in Waiting
        /\ toEng # <<>>
    BY <1>1 DEF HandleNotify, dispVars
  <2>4. toDisp = <<>> /\ up
    BY <2>3 DEF InTurn
  <2>5. \A k \in Keys : map_mail'[k].mail = map_mail[k].mail
    BY <1>1, NotifyNodes
  <2>6. \A k \in vec : Told(k)' <=> Told(k)
    BY <1>0, <2>3, <2>5 DEF Told
  <2>7. InTurn'
    <3>1. \A i \in 1 .. Len(toEng') : toEng'[i].type = "stop" \/ i = Len(toEng')
      BY <2>2 DEF InTurn
    <3>2. pc' \in Waiting /\ up' /\ toDisp' = <<>> /\ Len(<<>>) <= 1
      BY <2>3, <2>4
    <3>q. QED
      BY <3>1, <3>2 DEF InTurn
  <2>8. ReportInTurn'
    <3>1. pc = "reportwait" =>
            \A i \in 1 .. Len(toEng') : toEng'[i].mails = {}
      BY <2>2 DEF ReportInTurn
    <3>2. pc = "reportwait" => \A k \in vec : Told(k)'
      BY <2>3, <2>6 DEF ReportInTurn
    <3>3. toDisp' = <<>> /\ pc' = pc /\ vec' = vec
      BY <2>3, <2>4
    <3>q. QED
      BY <3>1, <3>2, <3>3 DEF ReportInTurn
  <2>q. QED
    BY <2>7, <2>8
<1>2. ASSUME NEW m \in Mails, MakeMailList(m)
      PROVE  InTurn' /\ ReportInTurn'
  <2>1. /\ Len(toEng) \in Nat /\ Len(toEng) >= 1
        /\ Head(toEng) = toEng[1] /\ toEng[1] \in Answer
    BY <1>2, TailSeq DEF MakeMailList, LinkOK
  <2> DEFINE x == [Head(toEng) EXCEPT !.mails = @ \ {m}]
  <2>2. x \in Answer /\ x.type = toEng[1].type
    BY <2>1 DEF Answer
  <2>3. toEng' = <<x>> \o Tail(toEng) /\ toEng # <<>>
    BY <1>2 DEF MakeMailList
  <2> HIDE DEF x
  <2>4. /\ Len(toEng') = Len(toEng)
        /\ toEng'[1] = x
        /\ \A i \in 2 .. Len(toEng) : toEng'[i] = toEng[i]
    BY <2>2, <2>3, SetHead DEF LinkOK
  <2>5. \A i \in 1 .. Len(toEng) : toEng'[i].type = toEng[i].type
    BY <2>1, <2>2, <2>4
  <2>6. /\ UNCHANGED <<pc, up, toDisp>> /\ pc \in Waiting
    BY <1>2 DEF MakeMailList
  <2>7. toDisp = <<>> /\ up
    BY <2>3, <2>6 DEF InTurn
  <2>8. pc # "reportwait"
    BY <1>2, <2>1 DEF MakeMailList, ReportInTurn
  <2>q. QED
    BY <2>4, <2>5, <2>6, <2>7, <2>8 DEF InTurn, ReportInTurn
<1>3. CASE MailListRequest
  <2>1. toDisp = <<>> /\ toEng = <<>>
    BY <1>3 DEF MailListRequest, InTurn, Waiting
  <2>q. QED
    BY <1>3, <2>1, SendInTurn DEF MailListRequest, InTurn, ReportInTurn, Waiting
<1>4. CASE Response \/ EraseReported \/ KeepReported
  BY <1>4, ParseInTurn, EmptyInTurn DEF Response, EraseReported, KeepReported
<1>5. ASSUME NEW k \in Keys, ScanCheck(k)
      PROVE  InTurn' /\ ReportInTurn'
  <2>1. toDisp = <<>> /\ toEng = <<>>
    BY <1>5 DEF ScanCheck, InTurn, Waiting
  <2>q. QED
    BY <1>5, <2>1, SendInTurn DEF ScanCheck, InTurn, ReportInTurn, Waiting
<1>6. CASE CheckOk
  BY <1>6, LastInTurn, EmptyInTurn DEF CheckOk, Answered
<1>7. CASE CheckRetry
  <2>1. toEng' = <<>> /\ Len(toDisp') = 1 /\ up' /\ pc' = "checkwait"
    BY <1>7 DEF CheckRetry
  <2>q. QED
    BY <2>1 DEF InTurn, ReportInTurn, Waiting
<1>8. CASE CheckFail
  <2>1. ~TimedOut
    BY <1>8 DEF CheckFail
  <2>2. CASE ~up
    BY <1>8, <2>2, EmptyInTurn DEF CheckFail, InTurn
  <2>3. CASE Answered
    BY <1>8, <2>3, LastInTurn, EmptyInTurn DEF CheckFail, Answered
  <2>q. QED
    BY <1>8, <2>1, <2>2, <2>3 DEF CheckFail, SessionFailed
<1>9. CASE SendReport
  <2> DEFINE K == {k \in Keys : Reportable(k)}
             q == ResultReq(ReportOf(K))
  <2>1. toDisp = <<>> /\ toEng = <<>>
    BY <1>9 DEF SendReport, InTurn, Waiting
  <2>2. /\ Send(q) /\ vec' = K /\ pc' = "reportwait"
        /\ UNCHANGED <<map_mail, up, toEng>>
    BY <1>9 DEF SendReport
  <2>3. q.type = "result" /\ q.results = ReportOf(K)
    BY DEF ResultReq
  <2>4. \A k \in K : \E r \in q.results : r[1] = map_mail[k].mail
    <3> TAKE k \in K
    <3>1. <<map_mail[k].mail, Letter(map_mail[k].status)>> \in q.results
      BY <2>3 DEF ReportOf
    <3>q. QED
      BY <3>1
  <2> HIDE DEF q, K
  <2>5. /\ toEng' = <<>> /\ Len(toDisp') <= 1
        /\ ~up' => toDisp' = <<>>
        /\ \A i \in 1 .. Len(toDisp') : toDisp'[i] = q
    BY <2>1, <2>2, SendInTurn
  <2>q. QED
    BY <2>2, <2>3, <2>4, <2>5 DEF InTurn, ReportInTurn, Waiting
<1>10. CASE SendReportFail \/ Break
  BY <1>10, EmptyInTurn DEF SendReportFail, Break, Reconnect
<1>11. ASSUME NEW N \in SUBSET Tasks, NEW a \in Answer, toDisp # <<>>,
              DispSend(N, a), UNCHANGED <<pc, up, vec, map_mail>>, a.mails = {},
              heard' = heard \/ heard' = heard \cup Head(toDisp).results,
              a.type = "ack" => heard' = heard \cup Head(toDisp).results,
              Head(toDisp).type = "result" => a.type = "ack"
       PROVE  InTurn' /\ ReportInTurn'
  <2>1. /\ toDisp' = <<>>
        /\ \A i \in 1 .. Len(toEng') :
             \/ toEng'[i] = StopRsp(N)
             \/ toEng'[i] = a /\ i = Len(toEng')
        /\ Head(toDisp) = toDisp[1] /\ 1 \in 1 .. Len(toDisp)
    BY <1>11, DispInTurn
  <2>2. pc \in Waiting /\ up
    BY <1>11 DEF InTurn
  <2>3. StopRsp(N).type = "stop" /\ StopRsp(N).mails = {}
    BY DEF StopRsp
  <2>4. InTurn'
    BY <1>11, <2>1, <2>2, <2>3 DEF InTurn
  <2>5. ASSUME pc = "reportwait", NEW k \in vec
        PROVE  Told(k)'
    <3>1. /\ Head(toDisp).type = "result"
          /\ \E r \in Head(toDisp).results : r[1] = map_mail[k].mail
      BY <2>1, <2>5 DEF ReportInTurn
    <3>q. QED
      BY <1>11, <3>1 DEF Told
  <2>6. ReportInTurn'
    BY <1>11, <2>1, <2>3, <2>5 DEF ReportInTurn
  <2>q. QED
    BY <2>4, <2>6
<1>12. ASSUME NEW N \in SUBSET Tasks, NEW S \in SUBSET Mails, DispMails(N, S)
       PROVE  InTurn' /\ ReportInTurn'
  <2>1. /\ MailsRsp(S) \in Answer /\ MailsRsp(S).type = "mails"
    BY RspType DEF MailsRsp
  <2>2. /\ toDisp # <<>> /\ Head(toDisp).type = "ability"
        /\ DispSend(N, MailsRsp(S))
        /\ UNCHANGED <<pc, up>>
    BY <1>12 DEF DispMails
  <2>3. /\ toDisp' = <<>>
        /\ \A i \in 1 .. Len(toEng') :
             \/ toEng'[i] = StopRsp(N)
             \/ toEng'[i] = MailsRsp(S) /\ i = Len(toEng')
        /\ Head(toDisp) = toDisp[1] /\ 1 \in 1 .. Len(toDisp)
    BY <2>1, <2>2, DispInTurn
  <2>4. pc \in Waiting /\ up
    BY <2>2 DEF InTurn
  <2>5. pc # "reportwait"
    BY <2>2, <2>3 DEF ReportInTurn
  <2>6. StopRsp(N).type = "stop"
    BY DEF StopRsp
  <2>q. QED
    BY <2>2, <2>3, <2>4, <2>5, <2>6 DEF InTurn, ReportInTurn
<1>13. ASSUME NEW N \in SUBSET Tasks, NEW t \in Tasks \cup {NoTask},
              DispTemplate(N, t)
       PROVE  InTurn' /\ ReportInTurn'
  <2>1. /\ TemplateRsp(t) \in Answer /\ TemplateRsp(t).type = "template"
        /\ TemplateRsp(t).mails = {}
    BY RspType DEF TemplateRsp
  <2>q. QED
    BY <1>11, <1>13, <2>1 DEF DispTemplate
<1>14. ASSUME NEW N \in SUBSET Tasks, DispResult(N)
       PROVE  InTurn' /\ ReportInTurn'
  <2>1. AckRsp \in Answer /\ AckRsp.type = "ack" /\ AckRsp.mails = {}
    BY RspType DEF AckRsp
  <2>q. QED
    BY <1>11, <1>14, <2>1 DEF DispResult
<1>15. ASSUME UNCHANGED <<toDisp, toEng, up, vec, heard>>,
              pc' \notin Waiting => pc \notin Waiting,
              pc' = "reportwait" => pc = "reportwait",
              ~EraseReported, \A m \in Mails : ~MakeMailList(m)
       PROVE  InTurn' /\ ReportInTurn'
  BY <1>0, <1>15, MailsKept, SameInTurn
<1>17. ASSUME NEW k \in Keys, ScanSkip(k) \/ ScanCached(k)
       PROVE  InTurn' /\ ReportInTurn'
  <2>1. /\ pc = "scan" /\ pc' \in {"scan", "update"}
        /\ UNCHANGED <<toDisp, toEng, up, vec, heard>>
    BY <1>17 DEF ScanSkip, ScanCached, Launch, linkVars, dispVars
  <2>2. ~EraseReported /\ \A m \in Mails : ~MakeMailList(m)
    BY <2>1 DEF EraseReported, MakeMailList, Waiting
  <2>q. QED
    BY <1>15, <2>1, <2>2 DEF Waiting
<1>18. CASE ScanEnd \/ UpdateList \/ SkipReport \/ UpdateTotle
  <2>1. /\ pc \notin Waiting /\ pc' \notin Waiting
        /\ UNCHANGED <<toDisp, toEng, up, vec, heard>>
    BY <1>18 DEF ScanEnd, UpdateList, SkipReport, UpdateTotle, linkVars, dispVars,
      Waiting
  <2>2. ~EraseReported /\ \A m \in Mails : ~MakeMailList(m)
    BY <2>1 DEF EraseReported, MakeMailList, Waiting
  <2>q. QED
    BY <1>15, <2>1, <2>2 DEF Waiting
<1>19. ASSUME UNCHANGED <<toDisp, toEng, up, vec, heard, pc>>,
              \A k \in Keys : map_mail'[k].mail = map_mail[k].mail
       PROVE  InTurn' /\ ReportInTurn'
  BY <1>0, <1>19, SameInTurn
<1>20. ASSUME NEW k \in Keys, Ripen(k)
       PROVE  InTurn' /\ ReportInTurn'
  BY <1>19, <1>20, RipenNodes DEF Ripen, linkVars, dispVars, Same
<1>21. ASSUME NEW w \in Workers, NEW flag \in {Sent, SoftFail, HardFail},
              Deliver(w, flag)
       PROVE  InTurn' /\ ReportInTurn'
  BY <1>19, <1>21 DEF Deliver, linkVars, dispVars
<1>22. CASE TickReport \/ UNCHANGED vars
  BY <1>19, <1>22 DEF TickReport, vars, linkVars, dispVars
<1>q. QED
  BY <1>1, <1>2, <1>3, <1>4, <1>5, <1>6, <1>7, <1>8, <1>9, <1>10, <1>12, <1>13,
    <1>14, <1>17, <1>18, <1>20, <1>21, <1>22
    DEF Next, MainThread, DeliveryThread, Dispatcher
LEMMA KeptNext ==
  ASSUME Shape, InTurn, ReportInTurn, Kept, [Next]_vars, ~late'
  PROVE  Kept'
<1> USE DEF Shape, TypeOK
<1>1. heard \subseteq heard'
  BY DEF Next, MainThread, DeliveryThread, Dispatcher, vars, dispVars, HandleNotify,
    MakeMailList, MailListRequest, Response, ScanSkip, ScanCached, ScanCheck, ScanEnd,
    CheckOk, CheckRetry, CheckFail, UpdateList, SkipReport, SendReport, SendReportFail,
    EraseReported, KeepReported, UpdateTotle, Deliver, Ripen, TickReport, DispMails,
    DispTemplate, DispResult, Break
<1>2. ASSUME NEW m \in Mails, MakeMailList(m)
      PROVE  Kept'
  <2>1. NextKey \in Keys
    BY <1>2, TakeNodes
  <2>2. received' = received \cup {m}
    BY <1>2 DEF MakeMailList
  <2>3. CASE leaked' = leaked \cup {m} /\ UNCHANGED map_mail
    BY <1>1, <2>2, <2>3 DEF Kept
  <2>4. CASE /\ leaked' = leaked \cup ({map_mail[NextKey].mail} \ {NoMail})
             /\ map_mail' = [map_mail EXCEPT ![NextKey] = NewNode(m)]
    <3>1. map_mail'[NextKey].mail = m
      BY <2>1, <2>4 DEF NodesOK, NewNode
    <3>2. \A k \in Keys : k # NextKey => map_mail'[k] = map_mail[k]
      BY <2>4 DEF NodesOK
    <3>3. \A n \in received' \ leaked' : n = m \/ n \in received \ leaked
      BY <2>2, <2>4
    <3>4. \A n \in received' \ leaked' : n # NoMail
      BY <1>2, EngineAssumption, <2>2 DEF SetsOK
    <3>5. \A n \in received' \ leaked' : n # map_mail[NextKey].mail
      BY <2>4, <3>4
    <3>q. QED
      BY <1>1, <2>1, <3>1, <3>2, <3>3, <3>5 DEF Kept
  <2>q. QED
    BY <1>2, <2>3, <2>4 DEF MakeMailList
<1>3. CASE UNCHANGED <<received, leaked>>
           /\ ~EraseReported /\ \A m \in Mails : ~MakeMailList(m)
  BY <1>1, <1>3, MailsKept DEF Kept
<1>4. CASE EraseReported
  <2>1. toEng # <<>> /\ pc = "reportwait"
    BY <1>4 DEF EraseReported, ParseRspOk, Answered
  <2>2. \A k \in vec : Told(k)
    BY <2>1 DEF ReportInTurn
  <2>3. \A k \in Keys : k \in vec \/ map_mail'[k] = map_mail[k]
    BY <1>4 DEF EraseReported
  <2>4. UNCHANGED <<received, leaked>>
    BY <1>4 DEF EraseReported
  <2>q. QED
    BY <1>1, <2>2, <2>3, <2>4 DEF Kept, Told
<1>5. ASSUME \A m \in Mails : ~MakeMailList(m)
      PROVE  UNCHANGED <<received, leaked>>
  BY <1>5 DEF Next, MainThread, DeliveryThread, Dispatcher, vars, histVars,
    HandleNotify, MailListRequest, Response, ScanSkip, ScanCached, ScanCheck, ScanEnd,
    CheckOk, CheckRetry, CheckFail, UpdateList, SkipReport, SendReport, SendReportFail,
    EraseReported, KeepReported, UpdateTotle, Deliver, Ripen, TickReport, DispMails,
    DispTemplate, DispResult, Break
<1>q. QED
  BY <1>2, <1>3, <1>4, <1>5

(* While every answer of the dispatcher comes within ParseRsp's 60 s, a     *)
(* mail the engine took over is in m_map_mail until the dispatcher has its  *)
(* result: SendReport erases only what the answer it got was for, however   *)
(* the connection breaks and is set up again.                               *)
THEOREM NothingIsLost == Spec => []NoLoss
<1> DEFINE Inv == late \/ (InTurn /\ ReportInTurn /\ Kept)
<1>1. Init => Shape /\ Inv
  BY ShapeInit DEF Init, InTurn, ReportInTurn, Kept
<1>2. Shape /\ Inv /\ [Next]_vars => Shape' /\ Inv'
  <2> SUFFICES ASSUME Shape, Inv, [Next]_vars PROVE Shape' /\ Inv'
    OBVIOUS
  <2>1. CASE late
    BY <2>1, LateKept, ShapeNext
  <2>2. CASE ~late /\ ~late'
    <3>1. InTurn /\ ReportInTurn /\ Kept
      BY <2>2
    <3>2. InTurn' /\ ReportInTurn'
      BY <2>2, <3>1, InTurnNext
    <3>3. Kept'
      BY <2>2, <3>1, KeptNext
    <3>q. QED
      BY <3>2, <3>3, ShapeNext
  <2>q. QED
    BY <2>1, <2>2, ShapeNext
<1>3. Inv => NoLoss
  BY DEF Kept, NoLoss
<1>q. QED
  BY <1>1, <1>2, <1>3, PTL DEF Spec
-----------------------------------------------------------------------------
(* Templates *)

CacheRight == \A t \in Tasks : map_template[t] \in {NoTask, t}

(* A request for a template is the last request, and for the right task. *)
CheckLast ==
  \A i \in 1 .. Len(toDisp) :
    toDisp[i].type = "check" =>
      pc = "checkwait" /\ toDisp[i].task = td /\ i = Len(toDisp)

(* So is a template the last answer, and it answers the last request. *)
TemplateLast ==
  \A i \in 1 .. Len(toEng) :
    toEng[i].task # NoTask =>
      pc = "checkwait" /\ toEng[i].task = td /\ i = Len(toEng) /\ toDisp = <<>>

(* After CheckTemplate reconnected, only its last request is under way. *)
RetryAlone ==
  tries > 0 =>
    /\ pc = "checkwait"
    /\ Len(toDisp) <= 1
    /\ \A i \in 1 .. Len(toDisp) : toDisp[i].type = "check"
    /\ toDisp # <<>> => toEng = <<>>
    /\ \A i \in 1 .. Len(toEng) : toEng[i].type = "stop" \/ i = Len(toEng)

DownEmpty == ~up => toDisp = <<>> /\ toEng = <<>>

Channels == CheckLast /\ TemplateLast /\ RetryAlone /\ DownEmpty

WaitsForOwn == pc = "checkwait" => td = TaskOf[map_mail[cur].mail]

ThreadsRight ==
  \A w \in Workers : worker[w] # NoParam => worker[w].tmpl = TaskOf[worker[w].mail]

TemplateInv == CacheRight /\ Channels /\ WaitsForOwn /\ ThreadsRight

(* Nothing of CheckTemplate is under way. *)
Plain ==
  /\ tries = 0
  /\ \A i \in 1 .. Len(toDisp) : toDisp[i].type # "check"
  /\ \A i \in 1 .. Len(toEng) : toEng[i].task = NoTask

LEMMA PlainBefore ==
  ASSUME Shape, Channels, pc # "checkwait"
  PROVE  Plain
  BY DEF Shape, TypeOK, MainOK, Channels, CheckLast, TemplateLast, RetryAlone, Plain

LEMMA PlainAfter ==
  ASSUME Plain', DownEmpty'
  PROVE  Channels'
  BY DEF Channels, CheckLast, TemplateLast, RetryAlone, Plain

LEMMA PlainEmpty ==
  ASSUME tries' = 0, toDisp' = <<>>, toEng' = <<>>
  PROVE  Channels'
  BY DEF Channels, CheckLast, TemplateLast, RetryAlone, DownEmpty

LEMMA PlainSend ==
  ASSUME Shape, Plain, DownEmpty, NEW q \in Request, q.type # "check", Send(q),
         UNCHANGED <<up, toEng, tries>>
  PROVE  Channels'
<1>1. CASE up
  <2>1. toDisp' = Append(toDisp, q) /\ toDisp \in Seq(Request)
    BY <1>1 DEF Send, Shape, TypeOK, LinkOK
  <2>2. \A i \in 1 .. Len(toDisp') : toDisp'[i].type # "check"
    BY <2>1, AppendSeq DEF Plain
  <2>q. QED
    BY <1>1, <2>2, PlainAfter DEF Plain, DownEmpty
<1>2. CASE ~up
  BY <1>2, PlainAfter DEF Send, Plain, DownEmpty
<1>q. QED
  BY <1>1, <1>2

LEMMA PlainTail ==
  ASSUME Shape, Plain, up, toEng # <<>>, toEng' = Tail(toEng),
         UNCHANGED <<up, toDisp, tries>>
  PROVE  Channels'
<1>1. \A i \in 1 .. Len(toEng') : \E j \in 1 .. Len(toEng) : toEng'[i] = toEng[j]
  BY TailElement DEF Shape, TypeOK, LinkOK
<1>q. QED
  BY <1>1, PlainAfter DEF Plain, DownEmpty

LEMMA PlainParse ==
  ASSUME Shape, Plain, DownEmpty, ParseRspOk \/ ParseRspFail, UNCHANGED tries
  PROVE  Channels'
<1>1. CASE Answered /\ toEng' = Tail(toEng) /\ UNCHANGED <<up, toDisp>>
  BY <1>1, PlainTail DEF Answered, DownEmpty
<1>2. CASE UNCHANGED linkVars
  BY <1>2, PlainAfter DEF Plain, DownEmpty, linkVars
<1>3. CASE ParseRspFail
  BY <1>3, PlainEmpty DEF ParseRspFail, Reconnect, Plain
<1>q. QED
  BY <1>1, <1>2, <1>3 DEF ParseRspOk

(* The channels after an answer of the dispatcher *)
LEMMA DispElements ==
  ASSUME Shape, toDisp # <<>>, NEW N \in SUBSET Tasks, NEW a \in Answer, DispSend(N, a)
  PROVE  /\ \A i \in 1 .. Len(toEng') :
              \/ \E j \in 1 .. Len(toEng) : toEng'[i] = toEng[j]
              \/ toEng'[i] = StopRsp(N)
              \/ toEng'[i] = a /\ i = Len(toEng')
         /\ \A i \in 1 .. Len(toDisp') : \E j \in 1 .. Len(toDisp) :
              toDisp'[i] = toDisp[j] /\ (j = Len(toDisp) => i = Len(toDisp'))
         /\ Head(toDisp) = toDisp[1] /\ 1 \in 1 .. Len(toDisp)
         /\ Len(toDisp) = 1 => toDisp' = <<>>
<1>1. toEng \in Seq(Answer) /\ toDisp \in Seq(Request)
  BY DEF Shape, TypeOK, LinkOK
<1>2. \A i \in 1 .. Len(toDisp') : \E j \in 1 .. Len(toDisp) :
        toDisp'[i] = toDisp[j] /\ (j = Len(toDisp) => i = Len(toDisp'))
  BY <1>1, TailElement DEF DispSend
<1>3. Head(toDisp) = toDisp[1] /\ Len(toDisp) >= 1 /\ Len(toDisp) \in Nat
  BY <1>1, TailSeq
<1>4. Len(toDisp) = 1 => toDisp' = <<>>
  BY <1>1, OneElement DEF DispSend
<1>5. CASE N = {}
  <2>1. toEng' = Append(toEng, a)
    BY <1>5 DEF DispSend
  <2>2. \A i \in 1 .. Len(Append(toEng, a)) :
          \/ i \in 1 .. Len(toEng) /\ Append(toEng, a)[i] = toEng[i]
          \/ i = Len(Append(toEng, a)) /\ Append(toEng, a)[i] = a
    BY <1>1, AppendElement
  <2>q. QED
    BY <1>2, <1>3, <1>4, <2>1, <2>2
<1>6. CASE N # {}
  <2> DEFINE e == Append(toEng, StopRsp(N))
  <2>1. /\ e \in Seq(Answer) /\ Len(e) = Len(toEng) + 1
        /\ \A i \in 1 .. Len(toEng) : e[i] = toEng[i]
        /\ e[Len(toEng) + 1] = StopRsp(N)
    BY <1>1, RspType, AppendSeq
  <2>2. toEng' = Append(e, a)
    BY <1>6 DEF DispSend
  <2> HIDE DEF e
  <2>3. \A i \in 1 .. Len(Append(e, a)) :
          \/ i \in 1 .. Len(e) /\ Append(e, a)[i] = e[i]
          \/ i = Len(Append(e, a)) /\ Append(e, a)[i] = a
    BY <2>1, AppendElement
  <2>4. \A i \in 1 .. Len(e) : i \in 1 .. Len(toEng) \/ i = Len(toEng) + 1
    BY <1>1, <2>1
  <2>5. \A i \in 1 .. Len(e) : e[i] = StopRsp(N) \/ \E j \in 1 .. Len(toEng) : e[i] = toEng[j]
    BY <2>1, <2>4
  <2>q. QED
    BY <1>2, <1>3, <1>4, <2>2, <2>3, <2>5
<1>q. QED
  BY <1>5, <1>6
(* Steps of the dispatcher *)
LEMMA ChannelsDisp ==
  ASSUME Shape, Channels, toDisp # <<>>, NEW N \in SUBSET Tasks, NEW a \in Answer,
         DispSend(N, a), UNCHANGED <<pc, td, tries, up>>,
         a.task # NoTask => Head(toDisp).type = "check" /\ a.task = Head(toDisp).task
  PROVE  Channels'
<1> USE DEF Channels
<1>1. /\ \A i \in 1 .. Len(toEng') :
              \/ \E j \in 1 .. Len(toEng) : toEng'[i] = toEng[j]
              \/ toEng'[i] = StopRsp(N)
              \/ toEng'[i] = a /\ i = Len(toEng')
      /\ \A i \in 1 .. Len(toDisp') : \E j \in 1 .. Len(toDisp) :
              toDisp'[i] = toDisp[j] /\ (j = Len(toDisp) => i = Len(toDisp'))
      /\ Head(toDisp) = toDisp[1] /\ 1 \in 1 .. Len(toDisp)
      /\ Len(toDisp) = 1 => toDisp' = <<>>
  BY DispElements
<1>2. StopRsp(N).type = "stop" /\ StopRsp(N).task = NoTask
  BY DEF StopRsp
<1>3. up
  BY DEF DownEmpty
<1>4. \A j \in 1 .. Len(toEng) : toEng[j].task = NoTask
  BY DEF TemplateLast
<1>5. Head(toDisp).type = "check" =>
        pc = "checkwait" /\ Head(toDisp).task = td /\ Len(toDisp) = 1
  BY <1>1 DEF CheckLast
<1>6. CheckLast'
  BY <1>1 DEF CheckLast
<1>7. TemplateLast'
  BY <1>1, <1>2, <1>4, <1>5 DEF TemplateLast
<1>8. RetryAlone'
  <2>1. ASSUME tries > 0
        PROVE  pc = "checkwait" /\ Len(toDisp) = 1 /\ toEng = <<>>
    BY <1>1, <1>5, <2>1 DEF RetryAlone
  <2>2. ASSUME tries > 0
        PROVE  /\ toDisp' = <<>>
               /\ \A i \in 1 .. Len(toEng') : toEng'[i].type = "stop" \/ i = Len(toEng')
    BY <1>1, <1>2, <2>1, <2>2
  <2>q. QED
    BY <2>1, <2>2 DEF RetryAlone
<1>q. QED
  BY <1>3, <1>6, <1>7, <1>8 DEF DownEmpty

LEMMA ChannelsNext ==
  ASSUME Shape, Channels, [Next]_vars, ~gaveUp'
  PROVE  Channels'
<1> USE DEF Shape, TypeOK
<1>0. DownEmpty
  BY DEF Channels
<1>1. CASE HandleNotify
  <2>1. toEng \in Seq(Answer) /\ toEng # <<>> /\ toEng' = Tail(toEng)
    BY <1>1 DEF HandleNotify, LinkOK
  <2>2. \A i \in 1 .. Len(toEng') : \E j \in 1 .. Len(toEng) :
          toEng'[i] = toEng[j] /\ (j = Len(toEng) => i = Len(toEng'))
    BY <2>1, TailElement
  <2>3. UNCHANGED <<pc, td, tries, up, toDisp>> /\ up
    BY <1>0, <1>1 DEF HandleNotify, scanVars, DownEmpty
  <2>4. CheckLast' /\ TemplateLast'
    BY <2>2, <2>3 DEF Channels, CheckLast, TemplateLast
  <2>5. RetryAlone'
    BY <2>1, <2>2, <2>3 DEF Channels, RetryAlone
  <2>q. QED
    BY <2>3, <2>4, <2>5 DEF Channels, DownEmpty
<1>2. ASSUME NEW m \in Mails, MakeMailList(m)
      PROVE  Channels'
  <2>1. /\ Len(toEng) \in Nat /\ Len(toEng) >= 1
        /\ Head(toEng) = toEng[1] /\ toEng[1] \in Answer
    BY <1>2, TailSeq DEF MakeMailList, LinkOK
  <2> DEFINE x == [Head(toEng) EXCEPT !.mails = @ \ {m}]
  <2>2. x \in Answer /\ x.type = toEng[1].type /\ x.task = toEng[1].task
    BY <2>1 DEF Answer
  <2>3. toEng' = <<x>> \o Tail(toEng) /\ toEng # <<>>
    BY <1>2 DEF MakeMailList
  <2> HIDE DEF x
  <2>4. /\ Len(toEng') = Len(toEng)
        /\ toEng'[1] = x
        /\ \A i \in 2 .. Len(toEng) : toEng'[i] = toEng[i]
    BY <2>2, <2>3, SetHead DEF LinkOK
  <2>5. \A i \in 1 .. Len(toEng) : /\ toEng'[i].type = toEng[i].type
                                 /\ toEng'[i].task = toEng[i].task
    BY <2>1, <2>2, <2>4
  <2>6. UNCHANGED <<pc, td, tries, up, toDisp>> /\ up
    BY <1>0, <1>2 DEF MakeMailList, scanVars, DownEmpty
  <2>7. CheckLast' /\ TemplateLast'
    BY <2>4, <2>5, <2>6 DEF Channels, CheckLast, TemplateLast
  <2>8. RetryAlone'
    BY <2>3, <2>4, <2>5, <2>6 DEF Channels, RetryAlone
  <2>q. QED
    BY <2>6, <2>7, <2>8 DEF Channels, DownEmpty
<1>3. CASE MailListRequest
  <2>1. Plain
    BY <1>3, PlainBefore DEF MailListRequest
  <2>2. AbilityReq \in Request /\ AbilityReq.type = "ability"
    BY DEF AbilityReq, Request
  <2>q. QED
    BY <1>0, <1>3, <2>1, <2>2, PlainSend DEF MailListRequest, scanVars
<1>4. CASE Response \/ EraseReported \/ KeepReported
  <2>1. pc # "checkwait" /\ (ParseRspOk \/ ParseRspFail) /\ UNCHANGED tries
    BY <1>4 DEF Response, EraseReported, KeepReported, scanVars
  <2>q. QED
    BY <1>0, <2>1, PlainBefore, PlainParse
<1>5. ASSUME NEW k \in Keys, ScanCheck(k)
      PROVE  Channels'
  <2> DEFINE q == CheckReq(td')
  <2>1. Plain
    BY <1>5, PlainBefore DEF ScanCheck
  <2>2. /\ pc' = "checkwait" /\ Send(q) /\ UNCHANGED <<up, toEng, tries>>
        /\ td' \in Tasks
    BY <1>5, EngineAssumption DEF ScanCheck, IsNext, Live, NodeShape
  <2>3. q \in Request /\ q.type = "check" /\ q.task = td'
    BY <2>2 DEF CheckReq, Request
  <2> HIDE DEF q
  <2>4. CASE up
    <3>1. toDisp' = Append(toDisp, q) /\ toDisp \in Seq(Request)
      BY <2>2, <2>4 DEF Send, LinkOK
    <3>2. \A i \in 1 .. Len(Append(toDisp, q)) :
            \/ i \in 1 .. Len(toDisp) /\ Append(toDisp, q)[i] = toDisp[i]
            \/ i = Len(Append(toDisp, q)) /\ Append(toDisp, q)[i] = q
      BY <2>3, <3>1, AppendElement
    <3>3. CheckLast'
      BY <2>1, <2>2, <2>3, <3>1, <3>2 DEF Plain, CheckLast
    <3>4. TemplateLast' /\ RetryAlone'
      BY <2>1, <2>2 DEF Plain, TemplateLast, RetryAlone
    <3>q. QED
      BY <2>2, <2>4, <3>3, <3>4 DEF Channels, DownEmpty
  <2>5. CASE ~up
    BY <1>0, <2>1, <2>2, <2>5, PlainAfter DEF Send, Plain, DownEmpty
  <2>q. QED
    BY <2>4, <2>5
<1>6. CASE CheckOk
  <2>1. toEng \in Seq(Answer) /\ toEng # <<>> /\ Head(toEng).task # NoTask
    BY <1>6 DEF CheckOk, Answered, LinkOK
  <2>2. Head(toEng) = toEng[1] /\ 1 \in 1 .. Len(toEng)
    BY <2>1, HeadElement
  <2>3. Len(toEng) <= 1 /\ toDisp = <<>>
    BY <2>1, <2>2 DEF Channels, TemplateLast
  <2>4. Tail(toEng) = <<>>
    BY <2>1, <2>3, OneElement
  <2>q. QED
    BY <1>6, <2>3, <2>4, PlainEmpty DEF CheckOk
<1>7. CASE CheckRetry
  <2>1. /\ toDisp' = <<CheckReq(td)>> /\ toEng' = <<>> /\ up'
        /\ UNCHANGED <<pc, td>> /\ pc = "checkwait"
    BY <1>7 DEF CheckRetry
  <2>2. CheckReq(td).type = "check" /\ CheckReq(td).task = td
    BY DEF CheckReq
  <2>q. QED
    BY <2>1, <2>2 DEF Channels, CheckLast, TemplateLast, RetryAlone, DownEmpty
<1>8. CASE CheckFail
  <2>1. tries > 0 /\ tries' = 0
    BY <1>8 DEF CheckFail
  <2>4. ~TimedOut
    <3>1. gaveUp' = (gaveUp \/ TimedOut)
      BY <1>8 DEF CheckFail
    <3>q. QED
      BY <3>1, Zenon
  <2>2. CASE ~up
    BY <1>0, <1>8, <2>1, <2>2, PlainEmpty DEF CheckFail, DownEmpty
  <2>3. CASE Answered
    <3>1. toEng \in Seq(Answer) /\ toEng # <<>> /\ Head(toEng).type # "stop"
      BY <2>3 DEF Answered, LinkOK
    <3>2. Head(toEng) = toEng[1] /\ 1 \in 1 .. Len(toEng)
      BY <3>1, HeadElement
    <3>3. Len(toEng) <= 1 /\ toDisp = <<>>
      BY <2>1, <3>1, <3>2 DEF Channels, RetryAlone
    <3>4. Tail(toEng) = <<>>
      BY <3>1, <3>3, OneElement
    <3>q. QED
      BY <1>8, <2>1, <3>1, <3>3, <3>4, PlainEmpty DEF CheckFail
  <2>q. QED
    BY <1>8, <2>2, <2>3, <2>4 DEF CheckFail, SessionFailed
<1>9. CASE SendReport
  <2> DEFINE R == ReportOf({k \in Keys : Reportable(k)})
  <2>1. Plain
    BY <1>9, PlainBefore DEF SendReport
  <2>2. ResultReq(R).type = "result" /\ Send(ResultReq(R))
    BY <1>9 DEF ResultReq, SendReport
  <2>3. R \subseteq Result
    <3> SUFFICES ASSUME NEW k \in Keys, Reportable(k)
                 PROVE  <<map_mail[k].mail, Letter(map_mail[k].status)>> \in Result
      BY DEF ReportOf
    <3>1. map_mail[k].mail \in Mails
      BY DEF NodeShape, Reportable, Sent, HardFail, Stopped, SoftFail, Absent
    <3>2. Letter(map_mail[k].status) \in {"s", "f", "x", "d"}
      BY DEF Letter, Reportable, Sent, HardFail, Stopped, SoftFail
    <3>q. QED
      BY <3>1, <3>2 DEF Result
  <2> HIDE DEF R
  <2>4. ResultReq(R) \in Request
    BY <2>3 DEF ResultReq, Request
  <2>q. QED
    BY <1>0, <1>9, <2>1, <2>2, <2>4, PlainSend DEF SendReport, scanVars
<1>10. CASE SendReportFail
  <2>1. Plain
    BY <1>10, PlainBefore DEF SendReportFail
  <2>q. QED
    BY <1>10, <2>1, PlainEmpty DEF SendReportFail, Reconnect, Plain, scanVars
<1>11. CASE Break
  BY <1>11 DEF Break, scanVars, Channels, CheckLast, TemplateLast, RetryAlone, DownEmpty
<1>12. ASSUME NEW N \in SUBSET Tasks, NEW S \in SUBSET Mails, DispMails(N, S)
       PROVE  Channels'
  <2>1. MailsRsp(S) \in Answer /\ MailsRsp(S).task = NoTask
    BY RspType DEF MailsRsp
  <2>q. QED
    BY <1>12, <2>1, ChannelsDisp DEF DispMails, scanVars
<1>13. ASSUME NEW N \in SUBSET Tasks, NEW t \in Tasks \cup {NoTask},
              DispTemplate(N, t)
       PROVE  Channels'
  <2>1. TemplateRsp(t) \in Answer /\ TemplateRsp(t).task = t
    BY RspType DEF TemplateRsp
  <2>q. QED
    BY <1>13, <2>1, ChannelsDisp DEF DispTemplate, scanVars
<1>14. ASSUME NEW N \in SUBSET Tasks, DispResult(N)
       PROVE  Channels'
  <2>1. AckRsp \in Answer /\ AckRsp.task = NoTask
    BY RspType DEF AckRsp
  <2>q. QED
    BY <1>14, <2>1, ChannelsDisp DEF DispResult, scanVars
<1>15. ASSUME UNCHANGED linkVars, UNCHANGED tries, pc # "checkwait"
       PROVE  Channels'
  BY <1>0, <1>15, PlainBefore, PlainAfter DEF Plain, DownEmpty, linkVars
<1>16. CASE \/ ScanEnd \/ UpdateList \/ SkipReport \/ UpdateTotle
            \/ \E k \in Keys : ScanSkip(k) \/ ScanCached(k)
  BY <1>15, <1>16 DEF ScanEnd, UpdateList, SkipReport, UpdateTotle, ScanSkip,
    ScanCached, scanVars
<1>17. ASSUME UNCHANGED <<linkVars, scanVars, pc>>
       PROVE  Channels'
  BY <1>17 DEF linkVars, scanVars, Channels, CheckLast, TemplateLast, RetryAlone,
    DownEmpty
<1>18. CASE TickReport \/ UNCHANGED vars \/ (\E k \in Keys : Ripen(k))
            \/ (\E w \in Workers : DeliveryThread(w))
  BY <1>17, <1>18 DEF TickReport, Ripen, DeliveryThread, Deliver, vars
<1>q. QED
  BY <1>1, <1>2, <1>3, <1>4, <1>5, <1>6, <1>7, <1>8, <1>9, <1>10, <1>11, <1>12,
    <1>13, <1>14, <1>16, <1>18 DEF Next, MainThread, Dispatcher
(* CheckTemplate's giving up on a connection that works is remembered. *)
LEMMA GaveUpKept == gaveUp /\ [Next]_vars => gaveUp'
<1> SUFFICES ASSUME gaveUp, [Next]_vars PROVE gaveUp'
  OBVIOUS
<1>1. CASE CheckFail
  <2>1. gaveUp' = (gaveUp \/ TimedOut)
    BY <1>1 DEF CheckFail
  <2>q. QED
    BY <2>1, Zenon
<1>2. CASE UNCHANGED gaveUp
  BY <1>2
<1>q. QED
  BY <1>1, <1>2 DEF Next, MainThread, DeliveryThread, Dispatcher, vars, histVars,
    HandleNotify, MakeMailList, MailListRequest, Response, ScanSkip, ScanCached,
    ScanCheck, ScanEnd, CheckOk, CheckRetry, UpdateList, SkipReport, SendReport,
    SendReportFail, EraseReported, KeepReported, UpdateTotle, Deliver, Ripen,
    TickReport, DispMails, DispTemplate, DispResult, Break

LEMMA LaunchRight ==
  ASSUME Shape, ThreadsRight, NEW k \in Live, NEW t, Launch(k, t),
         t = TaskOf[map_mail[k].mail]
  PROVE  ThreadsRight'
<1>1. CASE UNCHANGED worker
  BY <1>1 DEF ThreadsRight
<1>2. ASSUME NEW w \in Workers, StartThread(w, k, t)
      PROVE  ThreadsRight'
  <2>1. /\ worker'[w].mail = map_mail[k].mail /\ worker'[w].tmpl = t
        /\ \A v \in Workers \ {w} : worker'[v] = worker[v]
    BY <1>2 DEF StartThread, Shape, TypeOK, ThreadsOK
  <2>q. QED
    BY <2>1 DEF ThreadsRight
<1>q. QED
  BY <1>1, <1>2 DEF Launch

LEMMA TemplateNext ==
  ASSUME EngineInv, TemplateInv, [Next]_vars, ~clash', ~gaveUp'
  PROVE  TemplateInv'
<1> USE DEF EngineInv, Shape, TypeOK, TemplateInv
<1>0. Channels'
  BY ChannelsNext
<1>1. ASSUME NEW k \in Keys, ScanCached(k)
      PROVE  TemplateInv'
  <2>1. k \in Live /\ TaskOf[map_mail[k].mail] \in Tasks
    BY <1>1, EngineAssumption DEF ScanCached, IsNext, Live, NodeShape
  <2>2. map_template[TaskOf[map_mail[k].mail]] = TaskOf[map_mail[k].mail]
    BY <1>1, <2>1 DEF ScanCached, CacheRight
  <2>3. ThreadsRight'
    BY <1>1, <2>1, <2>2, LaunchRight DEF ScanCached
  <2>4. CacheRight' /\ WaitsForOwn'
    BY <1>1 DEF ScanCached, CacheRight, WaitsForOwn, Launch
  <2>q. QED
    BY <1>0, <2>3, <2>4
<1>2. CASE CheckOk
  <2>1. toEng \in Seq(Answer) /\ toEng # <<>> /\ Head(toEng).task # NoTask
    BY <1>2 DEF CheckOk, Answered, LinkOK
  <2>2. Head(toEng) = toEng[1] /\ 1 \in 1 .. Len(toEng)
    BY <2>1, HeadElement
  <2>3. Head(toEng).task = td /\ td \in Tasks
    BY <1>2, <2>1, <2>2 DEF CheckOk, Channels, TemplateLast, CheckShape
  <2>4. td = TaskOf[map_mail[cur].mail] /\ cur \in Live
    BY <1>2 DEF CheckOk, WaitsForOwn, CheckShape
  <2>5. CacheRight' /\ WaitsForOwn'
    BY <1>2, <2>3 DEF CheckOk, CacheRight, WaitsForOwn, Launch, MainOK
  <2>6. CASE UNCHANGED worker
    BY <1>0, <2>5, <2>6 DEF ThreadsRight
  <2>7. CASE Launch(cur, Head(toEng).task)
    BY <1>0, <2>3, <2>4, <2>5, <2>7, LaunchRight
  <2>q. QED
    BY <1>2, <2>6, <2>7 DEF CheckOk
<1>3. ASSUME NEW m \in Mails, MakeMailList(m)
      PROVE  TemplateInv'
  <2>1. UNCHANGED <<pc, cur, td, map_template, worker>>
    BY <1>3 DEF MakeMailList, scanVars, attemptVars
  <2>2. ASSUME pc = "checkwait"
        PROVE  map_mail'[cur].mail = map_mail[cur].mail
    <3>1. cur \in Live /\ cur \in Keys
      BY <2>2 DEF CheckShape, Live
    <3>2. ~(clash \/ NextKey \in Live \/ ~Quiescent(NextKey)) \/ Same(NextKey)
      BY <1>3, TakeNodes
    <3>3. NextKey \notin Live \/ Same(NextKey)
      BY <3>2, Zenon
    <3>q. QED
      BY <1>3, <3>1, <3>3, TakeNodes DEF Same
  <2>q. QED
    BY <1>0, <2>1, <2>2 DEF CacheRight, WaitsForOwn, ThreadsRight
<1>4. ASSUME NEW k \in Keys, ScanCheck(k)
      PROVE  TemplateInv'
  BY <1>0, <1>4 DEF ScanCheck, attemptVars, CacheRight, WaitsForOwn, ThreadsRight
<1>5. CASE UpdateTotle
  BY <1>0, <1>5 DEF UpdateTotle, attemptVars, CacheRight, WaitsForOwn, ThreadsRight
<1>6. ASSUME NEW w \in Workers, NEW flag \in {Sent, SoftFail, HardFail},
             Deliver(w, flag)
      PROVE  TemplateInv'
  BY <1>0, <1>6 DEF Deliver, scanVars, ThreadsOK, CacheRight, WaitsForOwn, ThreadsRight
<1>7. ASSUME UNCHANGED <<worker, map_template>>,
             pc' = "checkwait" => /\ pc = "checkwait" /\ UNCHANGED <<cur, td>>
                                  /\ \A k \in Keys : map_mail'[k].mail = map_mail[k].mail
      PROVE  TemplateInv'
  <2>1. pc = "checkwait" => cur \in Keys
    BY DEF CheckShape, Live
  <2>q. QED
    BY <1>0, <1>7, <2>1 DEF CacheRight, WaitsForOwn, ThreadsRight
<1>8. CASE HandleNotify
  BY <1>7, <1>8, NotifyNodes DEF HandleNotify, scanVars, attemptVars
<1>9. ASSUME NEW k \in Keys, Ripen(k)
      PROVE  TemplateInv'
  BY <1>7, <1>9, RipenNodes DEF Ripen, scanVars, attemptVars, Same
<1>10. CASE CheckRetry \/ TickReport \/ Break \/ UNCHANGED vars
  BY <1>7, <1>10 DEF CheckRetry, TickReport, Break, vars, scanVars, attemptVars
<1>11. CASE Dispatcher
  BY <1>7, <1>11 DEF Dispatcher, DispMails, DispTemplate, DispResult, scanVars,
    attemptVars
<1>12. CASE MailListRequest \/ Response \/ ScanEnd \/ CheckFail \/ UpdateList
            \/ SkipReport \/ SendReport \/ SendReportFail \/ EraseReported
            \/ KeepReported
  <2>1. UNCHANGED <<worker, map_template>> /\ pc' # "checkwait"
    BY <1>12 DEF MailListRequest, Response, ScanEnd, CheckFail, UpdateList, SkipReport,
      SendReport, SendReportFail, EraseReported, KeepReported, scanVars, attemptVars
  <2>q. QED
    BY <1>7, <2>1
<1>13. ASSUME NEW k \in Keys, ScanSkip(k)
       PROVE  TemplateInv'
  BY <1>7, <1>13 DEF ScanSkip, attemptVars
<1>q. QED
  BY <1>1, <1>2, <1>3, <1>4, <1>5, <1>6, <1>8, <1>9, <1>10, <1>11, <1>12, <1>13
    DEF Next, MainThread, DeliveryThread

(* A thread sends the template of its mail's task: although ParseRsp takes  *)
(* whatever answer comes next and nothing names the task a template is for, *)
(* late answers, reconnections and stop notifications never bring another   *)
(* task's template, unless CheckTemplate gives up on an answer that is      *)
(* still to come, or a key clashes.                                         *)
THEOREM TemplateIsRight == Spec => []TemplateRight
<1> DEFINE Inv == gaveUp \/ clash \/ TemplateInv
<1>1. Init => Inv
  BY EngineAssumption DEF Init, TemplateInv, CacheRight, Channels, CheckLast,
    TemplateLast, RetryAlone, DownEmpty, WaitsForOwn, ThreadsRight
<1>2. EngineInv /\ Inv /\ [Next]_vars => Inv'
  BY ClashKept, GaveUpKept, TemplateNext
<1>3. Inv => TemplateRight
  BY DEF TemplateInv, ThreadsRight, TemplateRight
<1>q. QED
  BY <1>1, <1>2, <1>3, EngineInvariant, PTL DEF Spec
=============================================================================
