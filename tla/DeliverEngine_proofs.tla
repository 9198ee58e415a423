------------------------ MODULE DeliverEngine_proofs ------------------------
(***************************************************************************)
(* Proofs about DeliverEngine, for every set of tasks, mails and threads   *)
(* and every SeqLimit, SoftLimit, Batch, MaxLag and MaxBreaks.             *)
(***************************************************************************)
EXTENDS DeliverEngine, TLAPS

-----------------------------------------------------------------------------
(* Sequences *)

(* What the operations on the two channels keep of their elements. *)
LEMMA AppendSeq ==
  ASSUME NEW S, NEW s \in Seq(S), NEW x \in S
  PROVE  /\ Append(s, x) \in Seq(S)
         /\ Len(Append(s, x)) = Len(s) + 1
         /\ \A i \in 1 .. Len(s) : Append(s, x)[i] = s[i]
         /\ Append(s, x)[Len(s) + 1] = x
  OBVIOUS

LEMMA TailSeq ==
  ASSUME NEW S, NEW s \in Seq(S), s # <<>>
  PROVE  /\ Tail(s) \in Seq(S)
         /\ Head(s) \in S
         /\ Head(s) = s[1]
         /\ Len(s) >= 1
         /\ Len(Tail(s)) = Len(s) - 1
         /\ \A i \in 1 .. Len(s) - 1 : Tail(s)[i] = s[i + 1]
  OBVIOUS

LEMMA SetHead ==
  ASSUME NEW S, NEW s \in Seq(S), s # <<>>, NEW x \in S
  PROVE  /\ <<x>> \o Tail(s) \in Seq(S)
         /\ Len(<<x>> \o Tail(s)) = Len(s)
         /\ (<<x>> \o Tail(s))[1] = x
         /\ \A i \in 2 .. Len(s) : (<<x>> \o Tail(s))[i] = s[i]
  OBVIOUS

LEMMA EmptySeq == ASSUME NEW S PROVE <<>> \in Seq(S) /\ Len(<<>>) = 0
  OBVIOUS

-----------------------------------------------------------------------------
(* Type correctness *)

(* TypeOK alone is not inductive: that a thread carries a mailbox, which    *)
(* delivered then collects, rests on entries and threads being well-formed. *)
NodeShape ==
  \A k \in Keys : map_mail[k].status # Absent => map_mail[k].mail \in Mails

ThreadShape ==
  \A w \in Workers :
    \/ worker[w] = NoParam
    \/ /\ worker[w].seqno \in Keys
       /\ worker[w].mail \in Mails
       /\ worker[w].tmpl \in Tasks

CheckShape == pc = "checkwait" => cur \in Live /\ td \in Tasks

Shape == TypeOK /\ NodeShape /\ ThreadShape /\ CheckShape

LEMMA RspType ==
  /\ \A S \in SUBSET Mails : MailsRsp(S) \in Answer
  /\ \A t \in Tasks \cup {NoTask} : TemplateRsp(t) \in Answer
  /\ AckRsp \in Answer
  /\ \A N \in SUBSET Tasks : StopRsp(N) \in Answer
  BY DEF MailsRsp, TemplateRsp, AckRsp, StopRsp, Answer

LEMMA RspFields ==
  ASSUME NEW a \in Answer
  PROVE  /\ a.mails \subseteq Mails
         /\ a.task \in Tasks \cup {NoTask}
         /\ \A S \in SUBSET Mails : [a EXCEPT !.mails = S] \in Answer
  BY DEF Answer

LEMMA DispSendType ==
  ASSUME LinkOK, toDisp # <<>>, NEW N \in SUBSET Tasks, NEW a \in Answer,
         DispSend(N, a)
  PROVE  LinkOK'
<1>1. toDisp' \in Seq(Request)
  BY TailSeq DEF LinkOK, DispSend
<1>2. Append(toEng, a) \in Seq(Answer)
  BY AppendSeq DEF LinkOK
<1>3. Append(Append(toEng, StopRsp(N)), a) \in Seq(Answer)
  <2>1. Append(toEng, StopRsp(N)) \in Seq(Answer)
    BY RspType, AppendSeq DEF LinkOK
  <2>q. QED
    BY <2>1, AppendSeq
<1>q. QED
  BY <1>1, <1>2, <1>3 DEF LinkOK, DispSend

LEMMA ParseRspType ==
  ASSUME LinkOK, ParseRspOk \/ ParseRspFail
  PROVE  LinkOK'
<1>1. CASE ParseRspOk
  <2>1. CASE UNCHANGED linkVars
    BY <2>1 DEF LinkOK, linkVars
  <2>2. CASE toEng # <<>> /\ toEng' = Tail(toEng) /\ UNCHANGED <<up, toDisp>>
    <3>1. toEng' \in Seq(Answer)
      BY <2>2, TailSeq DEF LinkOK
    <3>q. QED
      BY <2>2, <3>1 DEF LinkOK
  <2>q. QED
    BY <1>1, <2>1, <2>2 DEF ParseRspOk, Answered
<1>2. CASE ParseRspFail
  BY <1>2, EmptySeq DEF LinkOK, ParseRspFail, Reconnect
<1>q. QED
  BY <1>1, <1>2

(* A count of failures stays a number. *)
LEMMA CountedNat ==
  ASSUME NEW n \in Nat
  PROVE  Counted(n) \in Nat
BY DEF Counted

(* What Launch makes of the entry it is called for. *)
LEMMA LaunchNodes ==
  ASSUME NodesOK, NodeShape, NEW k \in Keys, NEW t, Launch(k, t)
  PROVE  /\ map_mail' \in [Keys -> Node]
         /\ \A j \in Keys : map_mail'[j].mail = map_mail[j].mail
         /\ \A j \in Keys \ {k} : map_mail'[j] = map_mail[j]
         /\ map_mail'[k].status \in {map_mail[k].status, HardFail, Sending}
<1>1. CASE UNCHANGED <<map_mail, worker>>
  BY <1>1 DEF NodesOK
<1>2. CASE FailHard(k)
  BY <1>2, CountedNat DEF NodesOK, FailHard, Node, Status, HardFail
<1>3. CASE \E w \in Workers : StartThread(w, k, t)
  <2>1. map_mail' = [map_mail EXCEPT ![k].status = Sending, ![k].ripe = FALSE]
    BY <1>3 DEF StartThread
  <2>q. QED
    BY <2>1 DEF NodesOK, Node, Status
<1>q. QED
  BY <1>1, <1>2, <1>3 DEF Launch

LEMMA ShapeInit == Init => Shape
<1> SUFFICES ASSUME Init PROVE Shape
  OBVIOUS
<1> USE EngineAssumption DEF Init
<1>1. MainOK /\ NodeShape /\ ThreadShape /\ CheckShape
  BY DEF MainOK, Keys, NodeShape, ThreadShape, CheckShape, NoNode, NoParam
<1>2. NodesOK
  BY DEF NodesOK, Node, NoNode, Status
<1>3. ThreadsOK
  BY DEF ThreadsOK, Param, NoParam
<1>4. LinkOK /\ SetsOK
  BY DEF LinkOK, SetsOK
<1>5. FlagsOK
  BY DEF FlagsOK
<1>q. QED
  BY <1>1, <1>2, <1>3, <1>4, <1>5 DEF Shape, TypeOK

LEMMA ShapeNext == Shape /\ [Next]_vars => Shape'
<1> SUFFICES ASSUME Shape, [Next]_vars PROVE Shape'
  OBVIOUS
<1> USE EngineAssumption DEF Shape, TypeOK
<1>0. CASE UNCHANGED vars
  BY <1>0 DEF vars, scanVars, linkVars, dispVars, histVars, attemptVars,
    MainOK, NodesOK, ThreadsOK, LinkOK, SetsOK, FlagsOK, NodeShape,
    ThreadShape, CheckShape, Live
<1>1. CASE HandleNotify
  <2>1. MainOK' /\ ThreadsOK' /\ SetsOK' /\ FlagsOK' /\ ThreadShape'
    BY <1>1 DEF HandleNotify, scanVars, linkVars, dispVars, histVars,
      attemptVars, MainOK, ThreadsOK, SetsOK, FlagsOK, ThreadShape
  <2>2. NodesOK'
    <3>1. Stopped \in Status
      BY DEF Status
    <3>2. \A x \in Node : [x EXCEPT !.status = Stopped, !.ripe = FALSE] \in Node
      BY <3>1 DEF Node
    <3>q. QED
      BY <1>1, <3>2 DEF HandleNotify, NodesOK, attemptVars
  <2>3. LinkOK'
    BY <1>1, TailSeq DEF HandleNotify, LinkOK, linkVars
  <2>4. NodeShape'
    <3>1. \A k \in Keys :
            /\ map_mail[k] \in Node
            /\ \/ map_mail'[k] = map_mail[k]
               \/ /\ map_mail[k].status # Absent
                  /\ map_mail'[k] = [map_mail[k] EXCEPT !.status = Stopped, !.ripe = FALSE]
      BY <1>1 DEF HandleNotify, NodesOK
    <3>2. \A k \in Keys : /\ map_mail'[k].mail = map_mail[k].mail
                          /\ map_mail'[k].status = map_mail[k].status
                               \/ map_mail[k].status # Absent
      BY <3>1 DEF Node
    <3>q. QED
      BY <3>2 DEF NodeShape
  <2>5. CheckShape'
    <3>1. \A k \in Keys : map_mail[k].status # Absent
                            => map_mail'[k].status # Absent
      <4> TAKE k \in Keys
      <4>1. map_mail[k] \in Node
        BY DEF NodesOK
      <4>2. \/ map_mail'[k] = map_mail[k]
            \/ map_mail'[k] = [map_mail[k] EXCEPT !.status = Stopped,
                                                  !.ripe = FALSE]
        BY <1>1 DEF HandleNotify
      <4>3. CASE map_mail'[k] = map_mail[k]
        BY <4>3
      <4>4. CASE map_mail'[k] = [map_mail[k] EXCEPT !.status = Stopped,
                                                    !.ripe = FALSE]
        <5>1. map_mail'[k].status = Stopped
          BY <4>1, <4>4 DEF Node
        <5>q. QED
          BY <5>1 DEF Stopped, Absent
      <4>q. QED
        BY <4>2, <4>3, <4>4
    <3>q. QED
      BY <1>1, <3>1 DEF HandleNotify, CheckShape, Live, scanVars
  <2>q. QED
    BY <2>1, <2>2, <2>3, <2>4, <2>5 DEF Shape, TypeOK
<1>2. ASSUME NEW m \in Mails, MakeMailList(m)
      PROVE  Shape'
  <2>nk. NextKey \in Keys
    BY <1>2 DEF MakeMailList, NextKey, MainOK, Keys
  <2>1. ThreadsOK' /\ ThreadShape'
    BY <1>2 DEF MakeMailList, scanVars, linkVars, dispVars, histVars,
      attemptVars, ThreadsOK, ThreadShape
  <2>2. MainOK'
    BY <1>2 DEF MakeMailList, MainOK, NextKey, Keys, scanVars
  <2>3. NodesOK'
    <3>1. NewNode(m) \in Node
      BY DEF NewNode, Node, Status
    <3>q. QED
      BY <1>2, <2>nk, <3>1 DEF MakeMailList, NodesOK, attemptVars
  <2>4. LinkOK'
    <3>1. Head(toEng) \in Answer
      BY <1>2, TailSeq DEF MakeMailList, LinkOK
    <3>2. [Head(toEng) EXCEPT !.mails = @ \ {m}] \in Answer
      BY <3>1 DEF Answer
    <3>q. QED
      BY <1>2, <3>2, SetHead DEF MakeMailList, LinkOK
  <2>5. SetsOK'
    BY <1>2, <2>nk DEF MakeMailList, SetsOK, NodesOK, Node, dispVars,
      histVars, attemptVars
  <2>6. FlagsOK'
    BY <1>2 DEF MakeMailList, FlagsOK, linkVars, histVars
  <2>7. NodeShape'
    BY <1>2, <2>nk DEF MakeMailList, NodeShape, NodesOK, NewNode, Node
  <2>8. CheckShape'
    BY <1>2, <2>nk DEF MakeMailList, CheckShape, NodesOK, Live, NewNode,
      Unsent, Absent, scanVars
  <2>q. QED
    BY <2>1, <2>2, <2>3, <2>4, <2>5, <2>6, <2>7, <2>8 DEF Shape, TypeOK
<1>3. CASE MailListRequest
  <2>1. ThreadsOK' /\ SetsOK' /\ FlagsOK' /\ ThreadShape'
    BY <1>3 DEF MailListRequest, scanVars, linkVars, dispVars, histVars,
      attemptVars, ThreadsOK, SetsOK, FlagsOK, ThreadShape
  <2>2. MainOK'
    BY <1>3 DEF MailListRequest, MainOK, Waiting, scanVars
  <2>3. NodesOK'
    BY <1>3 DEF MailListRequest, NodesOK, Node, Status, Unsent, Sent,
      Sending, SoftFail, HardFail, Stopped, Absent, attemptVars
  <2>4. LinkOK'
    BY <1>3, AppendSeq DEF MailListRequest, LinkOK, Send, AbilityReq,
      Request, linkVars
  <2>5. NodeShape'
    BY <1>3 DEF MailListRequest, NodeShape, NodesOK, Node
  <2>6. CheckShape'
    BY <1>3 DEF MailListRequest, CheckShape, scanVars
  <2>q. QED
    BY <2>1, <2>2, <2>3, <2>4, <2>5, <2>6 DEF Shape, TypeOK
<1>4. CASE Response
  <2>1. NodesOK' /\ ThreadsOK' /\ SetsOK' /\ NodeShape' /\ ThreadShape'
    BY <1>4 DEF Response, scanVars, linkVars, dispVars, histVars,
      attemptVars, NodesOK, ThreadsOK, SetsOK, NodeShape, ThreadShape
  <2>2. MainOK'
    BY <1>4 DEF Response, MainOK, Waiting, NoSeq, scanVars
  <2>3. LinkOK'
    BY <1>4, ParseRspType DEF Response
  <2>4. FlagsOK'
    BY <1>4 DEF Response, FlagsOK, ParseRspOk, ParseRspFail, Reconnect,
      Answered, linkVars, histVars
  <2>5. CheckShape'
    BY <1>4 DEF Response, CheckShape, scanVars
  <2>q. QED
    BY <2>1, <2>2, <2>3, <2>4, <2>5 DEF Shape, TypeOK
<1>5. ASSUME NEW k \in Keys, ScanSkip(k)
      PROVE  Shape'
  <2>1. /\ NodesOK' /\ ThreadsOK' /\ LinkOK' /\ SetsOK'
       /\ FlagsOK' /\ NodeShape' /\ ThreadShape'
    BY <1>5 DEF ScanSkip, scanVars, linkVars, dispVars, histVars,
      attemptVars, NodesOK, ThreadsOK, LinkOK, SetsOK, FlagsOK, NodeShape,
      ThreadShape
  <2>2. MainOK'
    BY <1>5 DEF ScanSkip, MainOK, scanVars
  <2>3. CheckShape'
    BY <1>5 DEF ScanSkip, CheckShape, scanVars
  <2>q. QED
    BY <2>1, <2>2, <2>3 DEF Shape, TypeOK
<1>6. ASSUME NEW k \in Keys, ScanCached(k)
      PROVE  Shape'
  <2>lv. /\ map_mail[k].mail \in Mails
            /\ map_template[TaskOf[map_mail[k].mail]] \in Tasks
    BY <1>6 DEF ScanCached, IsNext, Live, NodeShape, MainOK
  <2>1. LinkOK' /\ SetsOK' /\ FlagsOK'
    BY <1>6 DEF ScanCached, scanVars, linkVars, dispVars, histVars,
      attemptVars, LinkOK, SetsOK, FlagsOK
  <2>2. MainOK'
    BY <1>6 DEF ScanCached, MainOK, Launch, Waiting, scanVars
  <2>3. NodesOK'
    BY <1>6, LaunchNodes DEF ScanCached, NodesOK
  <2>4. ThreadsOK'
    BY <1>6, <2>lv DEF ScanCached, ThreadsOK, MainOK, NodesOK, Node,
      Launch, StartThread, Param, attemptVars
  <2>5. NodeShape'
    BY <1>6, <2>lv DEF ScanCached, NodeShape, NodesOK, Node, Launch,
      FailHard, StartThread
  <2>6. ThreadShape'
    BY <1>6, <2>lv DEF ScanCached, ThreadsOK, ThreadShape, Launch,
      StartThread, NoParam, attemptVars
  <2>7. CheckShape'
    BY <1>6 DEF ScanCached, CheckShape, Launch, scanVars
  <2>q. QED
    BY <2>1, <2>2, <2>3, <2>4, <2>5, <2>6, <2>7 DEF Shape, TypeOK
<1>7. ASSUME NEW k \in Keys, ScanCheck(k)
      PROVE  Shape'
  <2>lv. /\ k \in Live
            /\ TaskOf[map_mail[k].mail] \in Tasks
    BY <1>7 DEF ScanCheck, IsNext, Live, NodeShape
  <2>1. /\ NodesOK' /\ ThreadsOK' /\ SetsOK' /\ FlagsOK'
       /\ NodeShape' /\ ThreadShape'
    BY <1>7 DEF ScanCheck, scanVars, linkVars, dispVars, histVars,
      attemptVars, NodesOK, ThreadsOK, SetsOK, FlagsOK, NodeShape,
      ThreadShape
  <2>2. MainOK'
    BY <1>7, <2>lv DEF ScanCheck, MainOK, Waiting, scanVars
  <2>3. LinkOK'
    <3>1. CheckReq(TaskOf[map_mail[k].mail]) \in Request
      BY <2>lv DEF CheckReq, Request
    <3>2. Append(toDisp, CheckReq(TaskOf[map_mail[k].mail])) \in Seq(Request)
      BY <3>1, AppendSeq DEF LinkOK
    <3>3. UNCHANGED <<up, toEng>> /\ Send(CheckReq(TaskOf[map_mail[k].mail]))
      BY <1>7 DEF ScanCheck
    <3>q. QED
      BY <3>2, <3>3 DEF LinkOK, Send
  <2>4. CheckShape'
    BY <1>7, <2>lv DEF ScanCheck, CheckShape, IsNext, Live, scanVars
  <2>q. QED
    BY <2>1, <2>2, <2>3, <2>4 DEF Shape, TypeOK
<1>8. CASE ScanEnd
  <2>1. /\ NodesOK' /\ ThreadsOK' /\ LinkOK' /\ SetsOK'
       /\ FlagsOK' /\ NodeShape' /\ ThreadShape'
    BY <1>8 DEF ScanEnd, scanVars, linkVars, dispVars, histVars,
      attemptVars, NodesOK, ThreadsOK, LinkOK, SetsOK, FlagsOK, NodeShape,
      ThreadShape
  <2>2. MainOK'
    BY <1>8 DEF ScanEnd, MainOK, scanVars
  <2>3. CheckShape'
    BY <1>8 DEF ScanEnd, CheckShape, scanVars
  <2>q. QED
    BY <2>1, <2>2, <2>3 DEF Shape, TypeOK
<1>9. CASE CheckOk
  <2>lv. cur \in Keys /\ td \in Tasks /\ map_mail[cur].mail \in Mails
    BY <1>9 DEF CheckOk, CheckShape, Live, NodeShape
  <2>h. Head(toEng).task \in Tasks /\ Tail(toEng) \in Seq(Answer)
    <3>1. Head(toEng) \in Answer /\ Tail(toEng) \in Seq(Answer)
      BY <1>9, TailSeq DEF CheckOk, Answered, LinkOK
    <3>q. QED
      BY <1>9, <3>1, RspFields DEF CheckOk
  <2>1. SetsOK' /\ FlagsOK'
    BY <1>9 DEF CheckOk, scanVars, linkVars, dispVars, histVars,
      attemptVars, SetsOK, FlagsOK
  <2>2. MainOK'
    BY <1>9, <2>lv, <2>h DEF CheckOk, MainOK, Launch, Waiting, scanVars
  <2>3. NodesOK'
    <3>1. map_tmp' \in [Keys -> {0, Sent, SoftFail, HardFail}]
      BY <1>9 DEF CheckOk, NodesOK
    <3>2. \/ map_mail' = map_mail
          \/ Launch(cur, Head(toEng).task)
      BY <1>9 DEF CheckOk
    <3>3. map_mail' \in [Keys -> Node]
      <4>1. map_mail \in [Keys -> Node]
        BY DEF NodesOK
      <4>q. QED
        BY <2>lv, <3>2, <4>1, LaunchNodes
    <3>q. QED
      BY <3>1, <3>3 DEF NodesOK
  <2>4. ThreadsOK'
    <3>1. \/ worker' = worker
          \/ \E w \in Workers : StartThread(w, cur, Head(toEng).task)
      BY <1>9 DEF CheckOk, Launch
    <3>q. QED
      BY <2>lv, <2>h, <3>1 DEF ThreadsOK, StartThread, Param
  <2>5. LinkOK'
    BY <1>9, <2>h DEF CheckOk, LinkOK, Answered, linkVars
  <2>6. NodeShape'
    <3>1. \A j \in Keys : map_mail[j].mail \in Mails => map_mail'[j].mail \in Mails
      BY <1>9, <2>lv, LaunchNodes DEF CheckOk
    <3>2. \A j \in Keys \ {cur} : map_mail'[j] = map_mail[j]
      BY <1>9, <2>lv, LaunchNodes DEF CheckOk
    <3>q. QED
      BY <2>lv, <3>1, <3>2 DEF NodeShape
  <2>7. ThreadShape'
    BY <1>9, <2>lv, <2>h DEF CheckOk, ThreadsOK, ThreadShape, Launch,
      StartThread, attemptVars
  <2>8. CheckShape'
    BY <1>9 DEF CheckOk, CheckShape, Launch, scanVars
  <2>q. QED
    BY <2>1, <2>2, <2>3, <2>4, <2>5, <2>6, <2>7, <2>8 DEF Shape, TypeOK
<1>10. CASE CheckRetry
  <2>lv. cur \in Keys /\ td \in Tasks
    BY <1>10 DEF CheckRetry, CheckShape, Live
  <2>1. /\ NodesOK' /\ ThreadsOK' /\ SetsOK' /\ NodeShape'
       /\ ThreadShape' /\ CheckShape'
    BY <1>10 DEF CheckRetry, scanVars, linkVars, dispVars, histVars,
      attemptVars, NodesOK, ThreadsOK, SetsOK, NodeShape, ThreadShape,
      CheckShape, Live
  <2>2. MainOK'
    BY <1>10 DEF CheckRetry, MainOK, scanVars
  <2>3. LinkOK'
    BY <1>10, <2>lv DEF CheckRetry, LinkOK, CheckReq, Request, linkVars
  <2>4. FlagsOK'
    BY <1>10 DEF CheckRetry, FlagsOK, linkVars, histVars
  <2>q. QED
    BY <2>1, <2>2, <2>3, <2>4 DEF Shape, TypeOK
<1>11. CASE CheckFail
  <2>lv. cur \in Keys
    BY <1>11 DEF CheckFail, CheckShape, Live
  <2>1. ThreadsOK' /\ SetsOK' /\ ThreadShape'
    BY <1>11 DEF CheckFail, scanVars, linkVars, dispVars, histVars,
      attemptVars, ThreadsOK, SetsOK, ThreadShape
  <2>2. MainOK'
    BY <1>11 DEF CheckFail, MainOK, Waiting, scanVars
  <2>3. NodesOK'
    <3>1. map_mail[cur] \in Node /\ map_mail \in [Keys -> Node]
      BY <2>lv DEF NodesOK
    <3>2. Counted(map_mail[cur].failtimes) \in Nat
      BY <3>1, CountedNat DEF Node
    <3>3. map_mail' \in [Keys -> Node]
      BY <1>11, <2>lv, <3>1, <3>2 DEF CheckFail, FailHard, Node, Status,
        HardFail
    <3>q. QED
      BY <1>11, <3>3 DEF CheckFail, NodesOK, attemptVars
  <2>4. LinkOK'
    BY <1>11, TailSeq DEF CheckFail, LinkOK, linkVars
  <2>5. FlagsOK'
    BY <1>11 DEF CheckFail, FlagsOK, linkVars, histVars
  <2>6. NodeShape'
    <3>1. cur \in Live /\ FailHard(cur)
      BY <1>11 DEF CheckFail, CheckShape
    <3>2. \A k \in Keys : /\ map_mail'[k].mail = map_mail[k].mail
                          /\ k # cur => map_mail'[k] = map_mail[k]
      BY <2>lv, <3>1 DEF FailHard, NodesOK, Node
    <3>q. QED
      BY <3>1, <3>2 DEF NodeShape, Live
  <2>7. CheckShape'
    BY <1>11 DEF CheckFail, CheckShape, scanVars
  <2>q. QED
    BY <2>1, <2>2, <2>3, <2>4, <2>5, <2>6, <2>7 DEF Shape, TypeOK
<1>12. CASE UpdateList
  <2>1. ThreadsOK' /\ LinkOK' /\ SetsOK' /\ FlagsOK' /\ ThreadShape'
    BY <1>12 DEF UpdateList, scanVars, linkVars, dispVars, histVars,
      attemptVars, ThreadsOK, LinkOK, SetsOK, FlagsOK, ThreadShape
  <2>2. MainOK'
    BY <1>12 DEF UpdateList, MainOK, scanVars
  <2>3. NodesOK'
    <3>1. \A k \in Keys : map_tmp[k] # 0 => map_tmp[k] \in Status
      BY DEF NodesOK, Status
    <3>2. ASSUME NEW k \in Keys, map_tmp[k] # 0
          PROVE  Updated(k, map_tmp[k]) \in Node
      <4>1. map_mail[k] \in Node /\ map_tmp[k] \in Status
        BY <3>1, <3>2 DEF NodesOK
      <4>2. /\ Counted(map_mail[k].failtimes) \in Nat
            /\ map_mail[k].failtimes \in Nat
        BY <4>1, CountedNat DEF Node
      <4>q. QED
        BY <4>1, <4>2 DEF Updated, Node
    <3>q. QED
      BY <1>12, <3>2 DEF UpdateList, NodesOK
  <2>4. NodeShape'
    BY <1>12 DEF UpdateList, NodeShape, NodesOK, Node, Updated, Live
  <2>5. CheckShape'
    BY <1>12 DEF UpdateList, CheckShape, scanVars
  <2>q. QED
    BY <2>1, <2>2, <2>3, <2>4, <2>5 DEF Shape, TypeOK
<1>13. CASE SkipReport
  <2>1. /\ NodesOK' /\ ThreadsOK' /\ LinkOK' /\ SetsOK'
       /\ FlagsOK' /\ NodeShape' /\ ThreadShape'
    BY <1>13 DEF SkipReport, scanVars, linkVars, dispVars, histVars,
      attemptVars, NodesOK, ThreadsOK, LinkOK, SetsOK, FlagsOK, NodeShape,
      ThreadShape
  <2>2. MainOK'
    BY <1>13 DEF SkipReport, MainOK, scanVars
  <2>3. CheckShape'
    BY <1>13 DEF SkipReport, CheckShape, scanVars
  <2>q. QED
    BY <2>1, <2>2, <2>3 DEF Shape, TypeOK
<1>14. CASE SendReport
  <2>rq. ResultReq(ReportOf({j \in Keys : Reportable(j)})) \in Request
    BY <1>14 DEF SendReport, ResultReq, ReportOf, Reportable, Letter,
      Request, Result, NodeShape, Status, Unsent, Sent, Sending, SoftFail,
      HardFail, Stopped, Absent
  <2>1. /\ NodesOK' /\ ThreadsOK' /\ SetsOK' /\ FlagsOK'
       /\ NodeShape' /\ ThreadShape'
    BY <1>14 DEF SendReport, scanVars, linkVars, dispVars, histVars,
      attemptVars, NodesOK, ThreadsOK, SetsOK, FlagsOK, NodeShape,
      ThreadShape
  <2>2. MainOK'
    BY <1>14 DEF SendReport, MainOK, Waiting, scanVars
  <2>3. LinkOK'
    BY <1>14, <2>rq, AppendSeq DEF SendReport, LinkOK, Send, linkVars
  <2>4. CheckShape'
    BY <1>14 DEF SendReport, CheckShape, scanVars
  <2>q. QED
    BY <2>1, <2>2, <2>3, <2>4 DEF Shape, TypeOK
<1>15. CASE SendReportFail
  <2>1. NodesOK' /\ ThreadsOK' /\ NodeShape' /\ ThreadShape'
    BY <1>15 DEF SendReportFail, scanVars, linkVars, dispVars, histVars,
      attemptVars, NodesOK, ThreadsOK, NodeShape, ThreadShape
  <2>2. MainOK'
    BY <1>15 DEF SendReportFail, MainOK, scanVars
  <2>3. LinkOK'
    BY <1>15, EmptySeq DEF SendReportFail, LinkOK, Reconnect, linkVars
  <2>4. SetsOK'
    BY <1>15 DEF SendReportFail, SetsOK, FlagsOK, dispVars, histVars,
      attemptVars
  <2>5. FlagsOK'
    BY <1>15 DEF SendReportFail, FlagsOK, Reconnect, linkVars, histVars
  <2>6. CheckShape'
    BY <1>15 DEF SendReportFail, CheckShape, scanVars
  <2>q. QED
    BY <2>1, <2>2, <2>3, <2>4, <2>5, <2>6 DEF Shape, TypeOK
<1>16. CASE EraseReported
  <2>1. ThreadsOK' /\ SetsOK' /\ ThreadShape'
    BY <1>16 DEF EraseReported, scanVars, linkVars, dispVars, histVars,
      attemptVars, ThreadsOK, SetsOK, ThreadShape
  <2>2. MainOK'
    BY <1>16 DEF EraseReported, MainOK, scanVars
  <2>3. NodesOK'
    BY <1>16 DEF EraseReported, NodesOK, NoNode, Node, Status, Unsent,
      Sent, Sending, SoftFail, HardFail, Stopped, Absent, attemptVars
  <2>4. LinkOK'
    BY <1>16, ParseRspType DEF EraseReported
  <2>5. FlagsOK'
    BY <1>16 DEF EraseReported, FlagsOK, ParseRspOk, linkVars, histVars
  <2>6. NodeShape'
    BY <1>16 DEF EraseReported, NodeShape, NodesOK, NoNode
  <2>7. CheckShape'
    BY <1>16 DEF EraseReported, CheckShape, scanVars
  <2>q. QED
    BY <2>1, <2>2, <2>3, <2>4, <2>5, <2>6, <2>7 DEF Shape, TypeOK
<1>17. CASE KeepReported
  <2>1. NodesOK' /\ ThreadsOK' /\ SetsOK' /\ NodeShape' /\ ThreadShape'
    BY <1>17 DEF KeepReported, scanVars, linkVars, dispVars, histVars,
      attemptVars, NodesOK, ThreadsOK, SetsOK, NodeShape, ThreadShape
  <2>2. MainOK'
    BY <1>17 DEF KeepReported, MainOK, scanVars
  <2>3. LinkOK'
    BY <1>17, ParseRspType DEF KeepReported
  <2>4. FlagsOK'
    BY <1>17 DEF KeepReported, FlagsOK, ParseRspFail, Reconnect, linkVars,
      histVars
  <2>5. CheckShape'
    BY <1>17 DEF KeepReported, CheckShape, scanVars
  <2>q. QED
    BY <2>1, <2>2, <2>3, <2>4, <2>5 DEF Shape, TypeOK
<1>18. CASE UpdateTotle
  <2>1. /\ NodesOK' /\ ThreadsOK' /\ LinkOK' /\ SetsOK'
       /\ FlagsOK' /\ NodeShape' /\ ThreadShape'
    BY <1>18 DEF UpdateTotle, scanVars, linkVars, dispVars, histVars,
      attemptVars, NodesOK, ThreadsOK, LinkOK, SetsOK, FlagsOK, NodeShape,
      ThreadShape
  <2>2. MainOK'
    BY <1>18 DEF UpdateTotle, MainOK, scanVars
  <2>3. CheckShape'
    BY <1>18 DEF UpdateTotle, CheckShape, scanVars
  <2>q. QED
    BY <2>1, <2>2, <2>3 DEF Shape, TypeOK
<1>19. ASSUME NEW w \in Workers, NEW flag \in {Sent, SoftFail, HardFail},
             Deliver(w, flag)
      PROVE  Shape'
  <2>kw. worker[w].mail \in Mails
    BY <1>19 DEF Deliver, ThreadShape, NoParam, NoSeq, Keys
  <2>1. MainOK' /\ LinkOK' /\ FlagsOK' /\ NodeShape' /\ CheckShape'
    BY <1>19 DEF Deliver, scanVars, linkVars, dispVars, histVars,
      attemptVars, MainOK, LinkOK, FlagsOK, NodeShape, CheckShape, Live
  <2>2. NodesOK'
    BY <1>19 DEF Deliver, NodesOK, attemptVars
  <2>3. ThreadsOK'
    BY <1>19 DEF Deliver, ThreadsOK, Param, NoParam, NoSeq, attemptVars
  <2>4. SetsOK'
    BY <1>19, <2>kw DEF Deliver, SetsOK, dispVars, histVars, attemptVars
  <2>5. ThreadShape'
    BY <1>19 DEF Deliver, ThreadShape, ThreadsOK, attemptVars
  <2>q. QED
    BY <2>1, <2>2, <2>3, <2>4, <2>5 DEF Shape, TypeOK
<1>20. ASSUME NEW k \in Keys, Ripen(k)
      PROVE  Shape'
  <2>1. /\ MainOK' /\ ThreadsOK' /\ LinkOK' /\ SetsOK'
       /\ FlagsOK' /\ ThreadShape'
    BY <1>20 DEF Ripen, scanVars, linkVars, dispVars, histVars,
      attemptVars, MainOK, ThreadsOK, LinkOK, SetsOK, FlagsOK, ThreadShape
  <2>2. NodesOK'
    <3>1. map_mail' = [map_mail EXCEPT ![k] = [map_mail[k] EXCEPT !.ripe = TRUE]]
          /\ map_tmp' = map_tmp /\ map_mail \in [Keys -> Node]
      BY <1>20 DEF Ripen, NodesOK, attemptVars
    <3>2. [map_mail[k] EXCEPT !.ripe = TRUE] \in Node
      BY <3>1 DEF Node
    <3>q. QED
      BY <3>1, <3>2 DEF NodesOK
  <2>3. NodeShape'
    BY <1>20 DEF Ripen, NodeShape, NodesOK, Node
  <2>4. CheckShape'
    BY <1>20 DEF Ripen, CheckShape, Live, NodesOK, Node, scanVars
  <2>q. QED
    BY <2>1, <2>2, <2>3, <2>4 DEF Shape, TypeOK
<1>21. CASE TickReport
  <2>1. /\ MainOK' /\ NodesOK' /\ ThreadsOK' /\ LinkOK'
       /\ SetsOK' /\ NodeShape' /\ ThreadShape' /\ CheckShape'
    BY <1>21 DEF TickReport, scanVars, linkVars, dispVars, histVars,
      attemptVars, MainOK, NodesOK, ThreadsOK, LinkOK, SetsOK, NodeShape,
      ThreadShape, CheckShape, Live
  <2>2. FlagsOK'
    BY <1>21 DEF TickReport, FlagsOK, linkVars, histVars
  <2>q. QED
    BY <2>1, <2>2 DEF Shape, TypeOK
<1>22. ASSUME NEW N \in SUBSET Tasks, NEW S \in SUBSET Mails, DispMails(N, S)
      PROVE  Shape'
  <2>1. /\ MainOK' /\ NodesOK' /\ ThreadsOK' /\ FlagsOK'
       /\ NodeShape' /\ ThreadShape' /\ CheckShape'
    BY <1>22 DEF DispMails, scanVars, linkVars, dispVars, histVars,
      attemptVars, MainOK, NodesOK, ThreadsOK, FlagsOK, NodeShape,
      ThreadShape, CheckShape, Live
  <2>2. LinkOK'
    BY <1>22, RspType, DispSendType DEF DispMails
  <2>3. SetsOK'
    BY <1>22 DEF DispMails, SetsOK, DispSend, dispVars, histVars,
      attemptVars
  <2>q. QED
    BY <2>1, <2>2, <2>3 DEF Shape, TypeOK
<1>23. ASSUME NEW N \in SUBSET Tasks, NEW t \in Tasks \cup {NoTask},
             DispTemplate(N, t)
      PROVE  Shape'
  <2>1. /\ MainOK' /\ NodesOK' /\ ThreadsOK' /\ FlagsOK'
       /\ NodeShape' /\ ThreadShape' /\ CheckShape'
    BY <1>23 DEF DispTemplate, scanVars, linkVars, dispVars, histVars,
      attemptVars, MainOK, NodesOK, ThreadsOK, FlagsOK, NodeShape,
      ThreadShape, CheckShape, Live
  <2>2. LinkOK'
    BY <1>23, RspType, DispSendType DEF DispTemplate
  <2>3. SetsOK'
    BY <1>23 DEF DispTemplate, SetsOK, DispSend, dispVars, histVars,
      attemptVars
  <2>q. QED
    BY <2>1, <2>2, <2>3 DEF Shape, TypeOK
<1>24. ASSUME NEW N \in SUBSET Tasks, DispResult(N)
      PROVE  Shape'
  <2>h. Head(toDisp).results \subseteq Result
    <3>1. Head(toDisp) \in Request
      BY <1>24, TailSeq DEF DispResult, LinkOK
    <3>q. QED
      BY <3>1 DEF Request
  <2>1. /\ MainOK' /\ NodesOK' /\ ThreadsOK' /\ FlagsOK'
       /\ NodeShape' /\ ThreadShape' /\ CheckShape'
    BY <1>24 DEF DispResult, scanVars, linkVars, dispVars, histVars,
      attemptVars, MainOK, NodesOK, ThreadsOK, FlagsOK, NodeShape,
      ThreadShape, CheckShape, Live
  <2>2. LinkOK'
    BY <1>24, RspType, DispSendType DEF DispResult
  <2>3. SetsOK'
    BY <1>24, <2>h DEF DispResult, SetsOK, DispSend, dispVars, histVars,
      attemptVars
  <2>q. QED
    BY <2>1, <2>2, <2>3 DEF Shape, TypeOK
<1>25. CASE Break
  <2>1. /\ MainOK' /\ NodesOK' /\ ThreadsOK' /\ NodeShape'
       /\ ThreadShape' /\ CheckShape'
    BY <1>25 DEF Break, scanVars, linkVars, dispVars, histVars,
      attemptVars, MainOK, NodesOK, ThreadsOK, NodeShape, ThreadShape,
      CheckShape, Live
  <2>2. LinkOK'
    BY <1>25, EmptySeq DEF Break, LinkOK, linkVars
  <2>3. SetsOK'
    BY <1>25 DEF Break, SetsOK, dispVars, histVars, attemptVars
  <2>4. FlagsOK'
    BY <1>25 DEF Break, FlagsOK, linkVars, histVars
  <2>q. QED
    BY <2>1, <2>2, <2>3, <2>4 DEF Shape, TypeOK
<1>q. QED
  BY <1>0, <1>1, <1>2, <1>3, <1>4, <1>5, <1>6, <1>7, <1>8, <1>9, <1>10,
    <1>11, <1>12, <1>13, <1>14, <1>15, <1>16, <1>17, <1>18, <1>19, <1>20,
    <1>21, <1>22, <1>23, <1>24, <1>25 DEF Next, MainThread, DeliveryThread,
    Dispatcher

(* Every variable has its type in every reachable state. *)
THEOREM TypeCorrect == Spec => []TypeOK
<1>1. Init => Shape
  BY ShapeInit
<1>2. Shape /\ [Next]_vars => Shape'
  BY ShapeNext
<1>3. Shape => TypeOK
  BY DEF Shape
<1>q. QED
  BY <1>1, <1>2, <1>3, PTL DEF Spec

-----------------------------------------------------------------------------
(* What each action that writes m_map_mail does to mail and status. *)

Same(k) == map_mail'[k].mail = map_mail[k].mail
           /\ map_mail'[k].status = map_mail[k].status

LEMMA NotifyNodes ==
  ASSUME NodesOK, HandleNotify, NEW k \in Keys
  PROVE  /\ map_mail'[k].mail = map_mail[k].mail
         /\ \/ map_mail'[k].status = map_mail[k].status
            \/ /\ map_mail'[k].status = Stopped
               /\ map_mail[k].status \notin {Absent, Sent}
<1>1. map_mail[k] \in Node
  BY DEF NodesOK
<1>2. \/ map_mail'[k] = map_mail[k]
      \/ /\ map_mail'[k] = [map_mail[k] EXCEPT !.status = Stopped, !.ripe = FALSE]
         /\ map_mail[k].status \notin {Absent, Sent}
  BY DEF HandleNotify
<1>3. CASE map_mail'[k] = map_mail[k]
  BY <1>3
<1>4. CASE map_mail'[k] # map_mail[k]
  BY <1>1, <1>2, <1>4 DEF Node
<1>q. QED
  BY <1>3, <1>4

LEMMA RequestNodes ==
  ASSUME NodesOK, MailListRequest, NEW k \in Keys
  PROVE  Same(k)
<1>1. map_mail[k] \in Node
  BY DEF NodesOK
<1>2. \/ map_mail'[k] = map_mail[k]
      \/ map_mail'[k] = [map_mail[k] EXCEPT !.failtimes = 0]
  BY DEF MailListRequest
<1>q. QED
  BY <1>1, <1>2 DEF Node, Same

LEMMA RipenNodes ==
  ASSUME NodesOK, NEW j \in Keys, Ripen(j), NEW k \in Keys
  PROVE  Same(k)
<1>1. map_mail[k] \in Node
  BY DEF NodesOK
<1>2. map_mail' = [map_mail EXCEPT ![j].ripe = TRUE]
  BY DEF Ripen
<1>q. QED
  BY <1>1, <1>2 DEF NodesOK, Node, Same

LEMMA FailNodes ==
  ASSUME NodesOK, NEW j \in Keys, FailHard(j)
  PROVE  /\ \A k \in Keys \ {j} : Same(k)
         /\ map_mail'[j].mail = map_mail[j].mail
         /\ map_mail'[j].status = HardFail
  BY DEF FailHard, NodesOK, Node, Same

LEMMA StartNodes ==
  ASSUME NodesOK, NEW j \in Keys, NEW w, NEW t, StartThread(w, j, t)
  PROVE  /\ \A k \in Keys \ {j} : Same(k)
         /\ map_mail'[j].mail = map_mail[j].mail
         /\ map_mail'[j].status = Sending
  BY DEF StartThread, NodesOK, Node, Same

LEMMA UpdateNodes ==
  ASSUME NodesOK, UpdateList, NEW k \in Keys
  PROVE  /\ map_mail'[k].mail = map_mail[k].mail
         /\ k \in Live /\ map_tmp[k] # 0 => map_mail'[k].status = map_tmp[k]
         /\ ~(k \in Live /\ map_tmp[k] # 0) =>
              map_mail'[k].status = map_mail[k].status
<1>1. map_mail[k] \in Node
  BY DEF NodesOK
<1>2. map_mail'[k] = IF k \in Live /\ map_tmp[k] # 0
                     THEN Updated(k, map_tmp[k]) ELSE map_mail[k]
  BY DEF UpdateList
<1>3. /\ Updated(k, map_tmp[k]).mail = map_mail[k].mail
      /\ Updated(k, map_tmp[k]).status = map_tmp[k]
  BY <1>1 DEF Updated, Node
<1>q. QED
  BY <1>2, <1>3

LEMMA EraseNodes ==
  ASSUME EraseReported, NEW k \in Keys
  PROVE  \/ Same(k)
         \/ map_mail'[k].status = Absent
<1>1. map_mail'[k] = IF k \in vec THEN NoNode ELSE map_mail[k]
  BY DEF EraseReported
<1>q. QED
  BY <1>1 DEF NoNode, Same

LEMMA TakeNodes ==
  ASSUME NodesOK, MainOK, NEW m \in Mails, MakeMailList(m)
  PROVE  /\ NextKey \in Keys
         /\ \A k \in Keys \ {NextKey} : Same(k)
         /\ \/ Same(NextKey) /\ clash' = clash
            \/ /\ map_mail'[NextKey].mail = m
               /\ map_mail'[NextKey].status = Unsent
               /\ clash' = (clash \/ NextKey \in Live \/ ~Quiescent(NextKey))
<1>1. NextKey \in Keys
  BY EngineAssumption DEF NextKey, MainOK, Keys
<1>2. CASE UNCHANGED <<map_mail, clash>>
  BY <1>1, <1>2 DEF Same
<1>3. CASE /\ map_mail' = [map_mail EXCEPT ![NextKey] = NewNode(m)]
           /\ clash' = (clash \/ NextKey \in Live \/ ~Quiescent(NextKey))
  BY <1>1, <1>3 DEF NodesOK, NewNode, Same
<1>q. QED
  BY <1>2, <1>3 DEF MakeMailList

-----------------------------------------------------------------------------
(* The mails the dispatcher hands out reach the engine at most once. *)

Known ==
  /\ \A k \in Live : map_mail[k].mail \in received
  /\ \A w \in Workers : worker[w] # NoParam => worker[w].mail \in received
  /\ delivered \subseteq received

InTransit ==
  /\ fresh \cap received = {}
  /\ \A i \in 1 .. Len(toEng) : toEng[i].mails \cap (fresh \cup received) = {}
  /\ \A i, j \in 1 .. Len(toEng) :
       i # j => toEng[i].mails \cap toEng[j].mails = {}

Supply == Known /\ InTransit

LEMMA TransitSame ==
  ASSUME InTransit, UNCHANGED <<fresh, received, toEng>>
  PROVE  InTransit'
  BY DEF InTransit

LEMMA TransitEmpty ==
  ASSUME InTransit, toEng' = <<>>, UNCHANGED <<fresh, received>>
  PROVE  InTransit'
  BY EmptySeq DEF InTransit

LEMMA TransitTail ==
  ASSUME LinkOK, InTransit, toEng # <<>>, toEng' = Tail(toEng),
         UNCHANGED <<fresh, received>>
  PROVE  InTransit'
<1> DEFINE n == Len(toEng)
<1>1. /\ Len(toEng') = n - 1
      /\ \A i \in 1 .. n - 1 : toEng'[i] = toEng[i + 1]
      /\ n \in Nat
  BY TailSeq DEF LinkOK
<1>2. \A i \in 1 .. n - 1 : i + 1 \in 1 .. n
  BY <1>1
<1>q. QED
  BY <1>1, <1>2 DEF InTransit

LEMMA TransitParse ==
  ASSUME LinkOK, InTransit, ParseRspOk \/ ParseRspFail,
         UNCHANGED <<fresh, received>>
  PROVE  InTransit'
  BY TransitSame, TransitTail, TransitEmpty
  DEF ParseRspOk, ParseRspFail, Reconnect, Answered, linkVars

(* One more answer, whose mails the dispatcher takes from fresh. *)
LEMMA TransitAppend ==
  ASSUME NEW e \in Seq(Answer), NEW F, NEW G, NEW R, NEW a \in Answer,
         a.mails \subseteq F, G = F \ a.mails, F \cap R = {},
         \A i \in 1 .. Len(e) : e[i].mails \cap (F \cup R) = {},
         \A i, j \in 1 .. Len(e) : i # j => e[i].mails \cap e[j].mails = {}
  PROVE  /\ G \cap R = {}
         /\ \A i \in 1 .. Len(Append(e, a)) :
              Append(e, a)[i].mails \cap (G \cup R) = {}
         /\ \A i, j \in 1 .. Len(Append(e, a)) : i # j =>
              Append(e, a)[i].mails \cap Append(e, a)[j].mails = {}
<1> DEFINE n == Len(e)
<1>1. /\ n \in Nat
      /\ Len(Append(e, a)) = n + 1
      /\ \A i \in 1 .. n : Append(e, a)[i] = e[i]
      /\ Append(e, a)[n + 1] = a
  BY AppendSeq
<1>2. \A i \in 1 .. n : e[i].mails \cap a.mails = {}
  OBVIOUS
<1>3. \A i \in 1 .. n + 1 : i \in 1 .. n \/ i = n + 1
  BY <1>1
<1>q. QED
  BY <1>1, <1>2, <1>3

LEMMA TransitSend ==
  ASSUME LinkOK, InTransit, NEW N \in SUBSET Tasks, NEW a \in Answer,
         DispSend(N, a), a.mails \subseteq fresh, fresh' = fresh \ a.mails,
         UNCHANGED received
  PROVE  InTransit'
<1>1. CASE N = {}
  BY <1>1, TransitAppend DEF DispSend, InTransit, LinkOK
<1>2. CASE N # {}
  <2> DEFINE e == Append(toEng, StopRsp(N))
  <2>1. StopRsp(N) \in Answer /\ StopRsp(N).mails = {}
    BY RspType DEF StopRsp
  <2>2. e \in Seq(Answer)
    BY <2>1, AppendSeq DEF LinkOK
  <2>3. /\ \A i \in 1 .. Len(e) : e[i].mails \cap (fresh \cup received) = {}
        /\ \A i, j \in 1 .. Len(e) : i # j => e[i].mails \cap e[j].mails = {}
    <3>1. fresh = fresh \ StopRsp(N).mails /\ StopRsp(N).mails \subseteq fresh
      BY <2>1
    <3>q. QED
      BY <2>1, <3>1, TransitAppend DEF LinkOK, InTransit
  <2>4. toEng' = Append(e, a)
    BY <1>2 DEF DispSend
  <2> HIDE DEF e
  <2>q. QED
    BY <2>2, <2>3, <2>4, TransitAppend DEF InTransit
<1>q. QED
  BY <1>1, <1>2

LEMMA TransitTake ==
  ASSUME LinkOK, InTransit, NEW m, MakeMailList(m)
  PROVE  InTransit' /\ m \notin received
<1> DEFINE n == Len(toEng)
<1>1. /\ n \in Nat /\ n >= 1
      /\ Head(toEng) = toEng[1] /\ toEng[1] \in Answer
  BY TailSeq DEF MakeMailList, LinkOK
<1> DEFINE x == [Head(toEng) EXCEPT !.mails = @ \ {m}]
<1>2. x \in Answer /\ x.mails = toEng[1].mails \ {m}
  BY <1>1 DEF Answer
<1>3. toEng' = <<x>> \o Tail(toEng)
  BY DEF MakeMailList
<1> HIDE DEF x
<1>4. /\ Len(toEng') = n
      /\ toEng'[1] = x
      /\ \A i \in 2 .. n : toEng'[i] = toEng[i]
  BY <1>2, <1>3, SetHead DEF MakeMailList, LinkOK
<1>5. m \in toEng[1].mails /\ received' = received \cup {m} /\ fresh' = fresh
  BY <1>1 DEF MakeMailList, dispVars
<1>6. m \notin received /\ m \notin fresh
  BY <1>1, <1>5 DEF InTransit
<1>7. \A i \in 2 .. n : m \notin toEng[i].mails
  BY <1>1, <1>5 DEF InTransit
<1>8. \A i \in 1 .. n : i = 1 \/ i \in 2 .. n
  BY <1>1
<1>9. \A i \in 1 .. n : /\ toEng'[i].mails \subseteq toEng[i].mails
                        /\ m \notin toEng'[i].mails
  BY <1>2, <1>4, <1>7, <1>8
<1>q. QED
  BY <1>4, <1>5, <1>6, <1>9 DEF InTransit

LEMMA KnownKept ==
  ASSUME Known, NodesOK,
         \A k \in Keys : Same(k) \/ map_mail'[k].status = Absent
                         \/ (k \in Live /\ map_mail'[k].mail = map_mail[k].mail),
         \A w \in Workers : worker'[w] = worker[w] \/ worker'[w] = NoParam,
         delivered' \subseteq delivered \cup received,
         UNCHANGED received
  PROVE  Known'
  BY DEF Known, Live, Same

LEMMA LaunchKnown ==
  ASSUME Known, NodesOK, ThreadsOK, NEW k \in Live, NEW t, Launch(k, t),
         UNCHANGED <<delivered, received>>
  PROVE  Known'
<1>0. k \in Keys
  BY DEF Live
<1>1. CASE UNCHANGED <<map_mail, worker>>
  BY <1>1, KnownKept DEF Same
<1>2. CASE FailHard(k) /\ UNCHANGED worker
  BY <1>0, <1>2, FailNodes, KnownKept
<1>3. CASE \E w \in Workers : StartThread(w, k, t)
  <2>1. PICK w \in Workers : StartThread(w, k, t)
    BY <1>3
  <2>2. \A j \in Keys : map_mail'[j].mail = map_mail[j].mail
    BY <1>0, <2>1, StartNodes DEF Same
  <2>3. \A j \in Live' : j \in Live
    BY <1>0, <2>1, StartNodes DEF Same, Live
  <2>4. /\ worker'[w].mail = map_mail[k].mail
        /\ \A v \in Workers \ {w} : worker'[v] = worker[v]
    BY <2>1 DEF StartThread, ThreadsOK
  <2>5. Live' \subseteq Keys
    BY DEF Live
  <2>q. QED
    BY <2>2, <2>3, <2>4, <2>5 DEF Known
<1>q. QED
  BY <1>1, <1>2, <1>3 DEF Launch

LEMMA SupplyInit == Init => Supply
  BY DEF Init, Supply, Known, InTransit, Live, NoNode

LEMMA SupplyNext == Shape /\ Supply /\ [Next]_vars => Supply'
<1> SUFFICES ASSUME Shape, Supply, [Next]_vars PROVE Supply'
  OBVIOUS
<1> USE DEF Shape, TypeOK, Supply
<1>0. CASE UNCHANGED vars
  BY <1>0, KnownKept, TransitSame DEF vars, scanVars, linkVars, dispVars, histVars,
    attemptVars, Same
<1>1. CASE HandleNotify
  <2>1. Known'
    BY <1>1, NotifyNodes, KnownKept DEF HandleNotify, Live, attemptVars, histVars, Same
  <2>2. InTransit'
    BY <1>1, TransitTail DEF HandleNotify, dispVars, histVars
  <2>q. QED
    BY <2>1, <2>2
<1>2. ASSUME NEW m \in Mails, MakeMailList(m)
      PROVE  Supply'
  <2>1. Known'
    BY <1>2, TakeNodes DEF MakeMailList, Known, Live, Same, attemptVars
  <2>2. InTransit'
    BY <1>2, TransitTake
  <2>q. QED
    BY <2>1, <2>2
<1>3. CASE MailListRequest
  BY <1>3, RequestNodes, KnownKept, TransitSame
    DEF MailListRequest, attemptVars, histVars, dispVars
<1>4. CASE Response
  BY <1>4, KnownKept, TransitParse DEF Response, attemptVars, dispVars, Same
<1>5. ASSUME NEW k \in Keys, ScanCached(k)
      PROVE  Supply'
  <2>1. k \in Live
    BY <1>5 DEF ScanCached, IsNext
  <2>q. QED
    BY <1>5, <2>1, LaunchKnown, TransitSame
      DEF ScanCached, histVars, dispVars, linkVars
<1>6. CASE CheckOk
  <2>1. cur \in Live
    BY <1>6 DEF CheckOk, CheckShape
  <2>2. Known'
    BY <1>6, <2>1, LaunchKnown, KnownKept DEF CheckOk, histVars, Same
  <2>3. InTransit'
    BY <1>6, TransitTail DEF CheckOk, Answered, histVars, dispVars
  <2>q. QED
    BY <2>2, <2>3
<1>7. CASE CheckFail
  <2>1. cur \in Keys /\ cur \in Live
    BY <1>7 DEF CheckFail, CheckShape, Live
  <2>2. Known'
    BY <1>7, <2>1, FailNodes, KnownKept DEF CheckFail, attemptVars
  <2>3. InTransit'
    BY <1>7, TransitTail, TransitEmpty DEF CheckFail, dispVars
  <2>q. QED
    BY <2>2, <2>3
<1>8. CASE CheckRetry
  BY <1>8, KnownKept, TransitEmpty DEF CheckRetry, attemptVars, dispVars, Same
<1>9. ASSUME NEW w \in Workers, NEW flag \in {Sent, SoftFail, HardFail},
             Deliver(w, flag)
      PROVE  Supply'
  <2>1. worker[w].mail \in received
    BY <1>9 DEF Deliver, Known, NoParam, NoSeq, Keys
  <2>2. Known'
    BY <1>9, <2>1, KnownKept DEF Deliver, histVars, ThreadsOK, Same
  <2>3. InTransit'
    BY <1>9, TransitSame DEF Deliver, linkVars, histVars, dispVars
  <2>q. QED
    BY <2>2, <2>3
<1>10. CASE UpdateList
  <2>1. Known'
    BY <1>10, UpdateNodes, KnownKept DEF UpdateList, histVars, Same
  <2>2. InTransit'
    BY <1>10, TransitSame DEF UpdateList, linkVars, histVars, dispVars
  <2>q. QED
    BY <2>1, <2>2
<1>11. CASE EraseReported
  BY <1>11, EraseNodes, KnownKept, TransitParse
    DEF EraseReported, attemptVars, dispVars
<1>12. CASE KeepReported
  BY <1>12, KnownKept, TransitParse DEF KeepReported, attemptVars, dispVars, Same
<1>13. ASSUME NEW k \in Keys, Ripen(k)
       PROVE  Supply'
  BY <1>13, RipenNodes, KnownKept, TransitSame
    DEF Ripen, attemptVars, linkVars, histVars, dispVars
<1>14. ASSUME NEW N \in SUBSET Tasks, NEW S \in SUBSET Mails, DispMails(N, S)
       PROVE  Supply'
  <2>1. MailsRsp(S) \in Answer /\ MailsRsp(S).mails = S /\ S \subseteq fresh
    BY <1>14, RspType DEF MailsRsp, DispMails
  <2>q. QED
    BY <1>14, <2>1, KnownKept, TransitSend DEF DispMails, attemptVars, histVars, Same
<1>15. ASSUME NEW N \in SUBSET Tasks, NEW t \in Tasks \cup {NoTask},
              DispTemplate(N, t)
       PROVE  Supply'
  <2>1. /\ TemplateRsp(t) \in Answer /\ TemplateRsp(t).mails \subseteq fresh
        /\ fresh = fresh \ TemplateRsp(t).mails
    BY RspType DEF TemplateRsp
  <2>q. QED
    BY <1>15, <2>1, KnownKept, TransitSend
      DEF DispTemplate, attemptVars, histVars, Same
<1>16. ASSUME NEW N \in SUBSET Tasks, DispResult(N)
       PROVE  Supply'
  <2>1. /\ AckRsp \in Answer /\ AckRsp.mails \subseteq fresh
        /\ fresh = fresh \ AckRsp.mails
    BY RspType DEF AckRsp
  <2>q. QED
    BY <1>16, <2>1, KnownKept, TransitSend DEF DispResult, attemptVars, histVars, Same
<1>17. ASSUME UNCHANGED <<map_mail, worker, delivered, received, fresh, toEng>>
       PROVE  Supply'
  BY <1>17, KnownKept, TransitSame DEF Same
<1>18. CASE SendReportFail \/ Break
  BY <1>18, KnownKept, TransitEmpty
    DEF SendReportFail, Break, Reconnect, attemptVars, histVars, Same
<1>19. ASSUME NEW k \in Keys, ScanSkip(k) \/ ScanCheck(k)
       PROVE  Supply'
  BY <1>17, <1>19 DEF ScanSkip, ScanCheck, linkVars, attemptVars, histVars, dispVars
<1>20. CASE ScanEnd \/ SkipReport \/ SendReport \/ UpdateTotle \/ TickReport
  BY <1>17, <1>20 DEF ScanEnd, SkipReport, SendReport, UpdateTotle, TickReport,
    linkVars, attemptVars, histVars, dispVars
<1>q. QED
  BY <1>0, <1>1, <1>2, <1>3, <1>4, <1>5, <1>6, <1>7, <1>8, <1>9, <1>10, <1>11,
    <1>12, <1>13, <1>14, <1>15, <1>16, <1>18, <1>19, <1>20
    DEF Next, MainThread, DeliveryThread, Dispatcher

-----------------------------------------------------------------------------
(* Until a key clashes: the threads and results of one mail. *)

Distinct == \A j, k \in Live : map_mail[j].mail = map_mail[k].mail => j = k

SingleAttempt ==
  \A k \in Keys :
    /\ map_tmp[k] # 0 => ~InFlight(k)
    /\ \A w1, w2 \in Workers :
         worker[w1].seqno = k /\ worker[w2].seqno = k => w1 = w2

(* An attempt belongs to an entry that is locked or marked. *)
AttemptLocks ==
  \A k \in Live : ~Quiescent(k) => map_mail[k].status \in {Sending, Stopped}

(* A thread and an entry have the same mail exactly if they have the same key. *)
KeyIsMail ==
  \A w \in Workers, k \in Live :
    worker[w].seqno = k <=> worker[w].mail = map_mail[k].mail

ThreadsDiffer ==
  \A w1, w2 \in Workers :
    worker[w1] # NoParam /\ worker[w1].mail = worker[w2].mail => w1 = w2

Undelivered == \A w \in Workers : worker[w].mail \notin delivered

(* The status of an entry, together with a waiting result, tells whether    *)
(* its mail was delivered.                                                  *)
StatusTrue ==
  \A k \in Live :
    map_mail[k].mail \in delivered
    <=> map_mail[k].status = Sent \/ map_tmp[k] = Sent

(* The entry CheckTemplate waits for has no attempt and was not delivered. *)
CheckIdle ==
  pc = "checkwait" =>
    /\ Quiescent(cur)
    /\ map_mail[cur].status \in {Unsent, SoftFail, Stopped}

Core ==
  /\ Distinct /\ SingleAttempt /\ AttemptLocks /\ KeyIsMail
  /\ ThreadsDiffer /\ Undelivered /\ StatusTrue /\ CheckIdle

EngineInv == Shape /\ Supply /\ (clash \/ Core)

LEMMA IdleThread ==
  ASSUME ThreadShape, NEW w \in Workers, NEW k \in Keys, worker[w].seqno = k
  PROVE  worker[w] # NoParam
  BY DEF ThreadShape, NoParam, NoSeq, Keys

(* Steps that start and end no attempt: an entry is kept, erased, marked,   *)
(* or fails without an attempt.                                             *)
LEMMA CoreStatus ==
  ASSUME Shape, Core, UNCHANGED <<worker, map_tmp, delivered>>,
         \A k \in Keys :
           \/ Same(k)
           \/ map_mail'[k].status = Absent
           \/ /\ k \in Live /\ map_mail'[k].mail = map_mail[k].mail
              /\ map_mail[k].status # Sent
              /\ \/ map_mail'[k].status = Stopped
                 \/ map_mail'[k].status = HardFail /\ Quiescent(k),
         CheckIdle'
  PROVE  Core'
<1>1. \A k \in Live' : /\ k \in Live /\ k \in Keys
                       /\ map_mail'[k].mail = map_mail[k].mail
  BY DEF Live, Same
<1>2. \A k \in Keys : Quiescent(k)' <=> Quiescent(k)
  BY DEF Quiescent, InFlight
<1>3. Distinct' /\ KeyIsMail'
  BY <1>1 DEF Core, Distinct, KeyIsMail
<1>4. SingleAttempt' /\ ThreadsDiffer' /\ Undelivered'
  BY DEF Core, SingleAttempt, ThreadsDiffer, Undelivered, InFlight
<1>5. AttemptLocks'
  BY <1>1, <1>2 DEF Core, AttemptLocks, Same, Live
<1>6. StatusTrue'
  <2> SUFFICES ASSUME NEW k \in Live'
               PROVE  map_mail'[k].mail \in delivered
                      <=> map_mail'[k].status = Sent \/ map_tmp[k] = Sent
    BY DEF StatusTrue
  <2>1. map_mail[k].mail \in delivered
        <=> map_mail[k].status = Sent \/ map_tmp[k] = Sent
    BY <1>1 DEF Core, StatusTrue
  <2>2. map_mail'[k].status = Sent <=> map_mail[k].status = Sent
    BY <1>1 DEF Same, Live, Sent, Stopped, HardFail
  <2>q. QED
    BY <1>1, <2>1, <2>2
<1>q. QED
  BY <1>3, <1>4, <1>5, <1>6 DEF Core

(* A thread is started for an entry without an attempt. *)
LEMMA CoreStart ==
  ASSUME Shape, Core, NEW k \in Live, NEW w \in Workers, NEW t,
         Quiescent(k), map_mail[k].status # Sent,
         StartThread(w, k, t), UNCHANGED <<map_tmp, delivered>>,
         pc' # "checkwait"
  PROVE  Core'
<1>0. k \in Keys /\ map_mail[k].mail \in Mails
  BY DEF Live, Shape, NodeShape
<1>1. /\ \A j \in Keys : map_mail'[j].mail = map_mail[j].mail
      /\ \A j \in Keys \ {k} : map_mail'[j].status = map_mail[j].status
      /\ map_mail'[k].status = Sending
  BY <1>0, StartNodes DEF Same, Shape, TypeOK
<1>2. Live' = Live
  BY <1>0, <1>1 DEF Live, Sending, Absent
<1>3. /\ worker[w] = NoParam
      /\ worker'[w].seqno = k /\ worker'[w].mail = map_mail[k].mail
      /\ \A v \in Workers \ {w} : worker'[v] = worker[v]
  BY DEF StartThread, Shape, TypeOK, ThreadsOK
<1>4. \A v \in Workers : worker[v].seqno # k
  BY DEF Quiescent, InFlight
<1>5. \A v \in Workers : worker[v].mail # map_mail[k].mail
  BY <1>4 DEF Core, KeyIsMail
<1>6. map_mail[k].mail \notin delivered /\ map_tmp[k] = 0
  BY DEF Core, StatusTrue, Quiescent, Sent
<1>7. \A j \in Keys \ {k} : /\ InFlight(j)' <=> InFlight(j)
                            /\ Quiescent(j)' <=> Quiescent(j)
  <2> TAKE j \in Keys \ {k}
  <2>1. InFlight(j)' <=> InFlight(j)
    BY <1>0, <1>3 DEF InFlight, NoParam, NoSeq, Keys
  <2>q. QED
    BY <2>1 DEF Quiescent
<1>8. Distinct'
  BY <1>1, <1>2 DEF Core, Distinct, Live
<1>9. SingleAttempt'
  <2>1. \A j \in Keys : map_tmp'[j] # 0 => ~InFlight(j)'
    BY <1>6, <1>7 DEF Core, SingleAttempt
  <2>2. \A j \in Keys : \A v1, v2 \in Workers :
          worker'[v1].seqno = j /\ worker'[v2].seqno = j => v1 = v2
    BY <1>3, <1>4 DEF Core, SingleAttempt
  <2>q. QED
    BY <2>1, <2>2 DEF SingleAttempt
<1>10. AttemptLocks'
  BY <1>1, <1>2, <1>7 DEF Core, AttemptLocks, Live
<1>11. KeyIsMail'
  <2> SUFFICES ASSUME NEW v \in Workers, NEW j \in Live
               PROVE  worker'[v].seqno = j <=> worker'[v].mail = map_mail[j].mail
    BY <1>1, <1>2 DEF KeyIsMail, Live
  <2>1. CASE v = w
    BY <2>1, <1>3 DEF Core, Distinct
  <2>2. CASE v # w
    BY <2>2, <1>3 DEF Core, KeyIsMail
  <2>q. QED
    BY <2>1, <2>2
<1>12. ThreadsDiffer'
  <2>1. \A v \in Workers \ {w} : worker'[v].mail # worker'[w].mail
    BY <1>3, <1>5
  <2>q. QED
    BY <2>1, <1>3 DEF Core, ThreadsDiffer
<1>13. Undelivered'
  BY <1>3, <1>6 DEF Core, Undelivered
<1>14. StatusTrue'
  BY <1>1, <1>2, <1>6 DEF Core, StatusTrue, Live, Sending, Sent
<1>q. QED
  BY <1>8, <1>9, <1>10, <1>11, <1>12, <1>13, <1>14 DEF Core, CheckIdle

LEMMA CoreLaunch ==
  ASSUME Shape, Core, NEW k \in Live, NEW t, Quiescent(k),
         map_mail[k].status # Sent, Launch(k, t),
         UNCHANGED <<map_tmp, delivered>>
  PROVE  Core'
<1>0. k \in Keys
  BY DEF Live
<1>1. CheckIdle'
  BY DEF Launch, CheckIdle
<1>2. CASE UNCHANGED <<map_mail, worker>>
  BY <1>1, <1>2, CoreStatus DEF Same
<1>3. CASE FailHard(k) /\ UNCHANGED worker
  BY <1>0, <1>1, <1>3, FailNodes, CoreStatus DEF Shape, TypeOK
<1>4. CASE \E w \in Workers : StartThread(w, k, t)
  BY <1>4, CoreStart DEF Launch
<1>q. QED
  BY <1>2, <1>3, <1>4 DEF Launch

(* A thread ends: its result waits under its key. *)
LEMMA CoreDeliver ==
  ASSUME Shape, Known, Core, NEW w \in Workers,
         NEW flag \in {Sent, SoftFail, HardFail}, Deliver(w, flag)
  PROVE  Core'
<1> DEFINE k == worker[w].seqno
<1>0. /\ k \in Keys /\ worker[w] # NoParam /\ worker[w].mail \in Mails
      /\ InFlight(k)
  BY IdleThread DEF Deliver, Shape, ThreadShape, InFlight
<1>1. /\ map_tmp' = [map_tmp EXCEPT ![k] = flag]
      /\ worker'[w] = NoParam
      /\ \A v \in Workers \ {w} : worker'[v] = worker[v]
      /\ UNCHANGED <<pc, cur, map_mail>>
      /\ delivered' = IF flag = Sent THEN delivered \cup {worker[w].mail}
                      ELSE delivered
  BY DEF Deliver, Shape, TypeOK, ThreadsOK, scanVars
<1>2. /\ map_tmp'[k] = flag /\ flag # 0
      /\ \A j \in Keys \ {k} : map_tmp'[j] = map_tmp[j]
  BY <1>0, <1>1 DEF Shape, TypeOK, NodesOK, Sent, SoftFail, HardFail
<1>3. \A v \in Workers \ {w} : worker[v].seqno # k
  BY <1>0 DEF Core, SingleAttempt
<1>4. \A j \in Keys : InFlight(j)' <=> InFlight(j) /\ j # k
  BY <1>0, <1>1, <1>3 DEF InFlight, NoParam, NoSeq, Keys
<1>5. Live' = Live /\ Live \subseteq Keys
  BY <1>1 DEF Live
<1>6. \A v \in Workers \ {w} : worker[v].mail # worker[w].mail
  BY <1>0 DEF Core, ThreadsDiffer
<1> HIDE DEF k
<1>7. Distinct'
  BY <1>1, <1>5 DEF Core, Distinct
<1>8. SingleAttempt'
  <2>1. \A j \in Keys : map_tmp'[j] # 0 => ~InFlight(j)'
    BY <1>2, <1>4 DEF Core, SingleAttempt
  <2>2. \A j \in Keys : \A v1, v2 \in Workers :
          worker'[v1].seqno = j /\ worker'[v2].seqno = j => v1 = v2
    BY <1>1 DEF Core, SingleAttempt, NoParam, NoSeq, Keys
  <2>q. QED
    BY <2>1, <2>2 DEF SingleAttempt
<1>9. AttemptLocks'
  <2>1. \A j \in Keys : ~Quiescent(j)' => ~Quiescent(j)
    BY <1>0, <1>2, <1>4 DEF Quiescent
  <2>q. QED
    BY <1>1, <1>5, <2>1 DEF Core, AttemptLocks
<1>10. KeyIsMail'
  <2>1. \A j \in Live : NoParam.seqno # j /\ NoParam.mail # map_mail[j].mail
    BY EngineAssumption DEF Shape, NodeShape, Live, NoParam, NoSeq, Keys
  <2>q. QED
    BY <1>1, <1>5, <2>1 DEF Core, KeyIsMail
<1>11. ThreadsDiffer'
  <2>1. \A v \in Workers : worker[v] # NoParam => worker[v].mail # NoParam.mail
    BY EngineAssumption DEF Shape, ThreadShape, NoParam
  <2>q. QED
    BY <1>1, <2>1 DEF Core, ThreadsDiffer
<1>12. Undelivered'
  <2>1. NoParam.mail \notin delivered /\ NoParam.mail # worker[w].mail
    BY <1>0, EngineAssumption DEF Shape, TypeOK, SetsOK, NoParam
  <2>q. QED
    BY <1>1, <1>6, <2>1 DEF Core, Undelivered
<1>13. StatusTrue'
  <2> SUFFICES ASSUME NEW j \in Live
               PROVE  map_mail[j].mail \in delivered'
                      <=> map_mail[j].status = Sent \/ map_tmp'[j] = Sent
    BY <1>1, <1>5 DEF StatusTrue
  <2>0. j \in Keys
    BY <1>5
  <2>1. map_mail[j].mail \in delivered
        <=> map_mail[j].status = Sent \/ map_tmp[j] = Sent
    BY DEF Core, StatusTrue
  <2>2. map_mail[j].mail = worker[w].mail <=> j = k
    BY DEF Core, KeyIsMail, k
  <2>3. CASE j = k
    <3>1. map_mail[j].status # Sent /\ map_tmp[j] = 0
      BY <1>0, <2>0, <2>3 DEF Core, AttemptLocks, SingleAttempt, Quiescent, Sent,
        Sending, Stopped
    <3>q. QED
      BY <1>1, <1>2, <2>1, <2>2, <2>3, <3>1 DEF Sent
  <2>4. CASE j # k
    BY <1>1, <1>2, <2>0, <2>1, <2>2, <2>4
  <2>q. QED
    BY <2>3, <2>4
<1>14. CheckIdle'
  <2>1. pc = "checkwait" => cur \in Keys /\ cur # k
    BY <1>0 DEF Core, CheckIdle, Shape, CheckShape, Live, Quiescent
  <2>q. QED
    BY <1>1, <1>2, <1>4, <2>1 DEF Core, CheckIdle, Quiescent
<1>q. QED
  BY <1>7, <1>8, <1>9, <1>10, <1>11, <1>12, <1>13, <1>14 DEF Core

(* UpdateList takes all waiting results. *)
LEMMA CoreUpdate ==
  ASSUME Shape, Core, UpdateList
  PROVE  Core'
<1>1. /\ \A k \in Keys : map_tmp'[k] = 0
      /\ UNCHANGED <<worker, delivered>> /\ pc' = "report"
  BY DEF UpdateList
<1>2. \A k \in Keys :
        /\ map_mail'[k].mail = map_mail[k].mail
        /\ k \in Live /\ map_tmp[k] # 0 => map_mail'[k].status = map_tmp[k]
        /\ ~(k \in Live /\ map_tmp[k] # 0) =>
             map_mail'[k].status = map_mail[k].status
  BY UpdateNodes DEF Shape, TypeOK
<1>3. Live' = Live /\ Live \subseteq Keys
  BY <1>2 DEF Live, Shape, TypeOK, NodesOK, Sent, SoftFail, HardFail, Absent
<1>4. Distinct' /\ KeyIsMail'
  BY <1>1, <1>2, <1>3 DEF Core, Distinct, KeyIsMail
<1>5. SingleAttempt' /\ ThreadsDiffer' /\ Undelivered'
  BY <1>1 DEF Core, SingleAttempt, ThreadsDiffer, Undelivered
<1>6. AttemptLocks'
  <2> SUFFICES ASSUME NEW k \in Live, ~Quiescent(k)'
               PROVE  map_mail'[k].status \in {Sending, Stopped}
    BY <1>3 DEF AttemptLocks
  <2>1. k \in Keys /\ InFlight(k)
    BY <1>1, <1>3 DEF Quiescent, InFlight
  <2>2. map_tmp[k] = 0
    BY <2>1 DEF Core, SingleAttempt
  <2>q. QED
    BY <1>2, <2>1, <2>2 DEF Core, AttemptLocks, Quiescent
<1>7. StatusTrue'
  <2> SUFFICES ASSUME NEW k \in Live
               PROVE  map_mail[k].mail \in delivered <=> map_mail'[k].status = Sent
    BY <1>1, <1>2, <1>3 DEF StatusTrue, Sent
  <2>1. map_mail[k].mail \in delivered
        <=> map_mail[k].status = Sent \/ map_tmp[k] = Sent
    BY DEF Core, StatusTrue
  <2>2. CASE map_tmp[k] = 0
    BY <1>2, <1>3, <2>1, <2>2 DEF Sent
  <2>3. CASE map_tmp[k] # 0
    <3>1. map_mail[k].status # Sent
      BY <2>3 DEF Core, AttemptLocks, Quiescent, Sent, Sending, Stopped
    <3>q. QED
      BY <1>2, <1>3, <2>1, <2>3, <3>1
  <2>q. QED
    BY <2>2, <2>3
<1>q. QED
  BY <1>1, <1>4, <1>5, <1>6, <1>7 DEF Core, CheckIdle

(* A new mail gets a key that is free, or the keys clash. *)
LEMMA CoreTake ==
  ASSUME Shape, Supply, clash \/ Core, NEW m \in Mails, MakeMailList(m)
  PROVE  clash' \/ Core'
<1> DEFINE n == NextKey
<1>1. /\ n \in Keys
      /\ \A k \in Keys \ {n} : Same(k)
      /\ \/ Same(n) /\ clash' = clash
         \/ /\ map_mail'[n].mail = m
            /\ map_mail'[n].status = Unsent
            /\ clash' = (clash \/ n \in Live \/ ~Quiescent(n))
  BY TakeNodes DEF Shape, TypeOK
<1>2. UNCHANGED <<worker, map_tmp, delivered, pc, cur>>
  BY DEF MakeMailList, attemptVars, scanVars
<1>3. m \notin received
  BY TransitTake DEF Shape, TypeOK, Supply
<1> HIDE DEF n
<1>4. CASE Same(n) /\ clash' = clash /\ Core
  <2>1. CheckIdle'
    BY <1>1, <1>2, <1>4 DEF Core, CheckIdle, Quiescent, InFlight, Same, Shape,
      CheckShape, Live
  <2>q. QED
    BY <1>1, <1>2, <1>4, <2>1, CoreStatus
<1>5. CASE /\ map_mail'[n].mail = m /\ map_mail'[n].status = Unsent
           /\ n \notin Live /\ Quiescent(n) /\ Core
  <2>1. /\ Live' = Live \cup {n} /\ Live \subseteq Keys
        /\ \A k \in Live : map_mail'[k].mail = map_mail[k].mail
                           /\ map_mail'[k].status = map_mail[k].status
    BY <1>1, <1>5 DEF Live, Same, Unsent, Absent
  <2>2. /\ \A k \in Live : map_mail[k].mail # m
        /\ \A w \in Workers : worker[w].mail # m
        /\ m \notin delivered
    BY <1>3, EngineAssumption DEF Supply, Known, NoParam
  <2>3. \A w \in Workers : worker[w].seqno # n
    BY <1>5 DEF Quiescent, InFlight
  <2>4. \A k \in Keys : Quiescent(k)' <=> Quiescent(k)
    BY <1>2 DEF Quiescent, InFlight
  <2>5. Distinct' /\ KeyIsMail'
    BY <1>2, <1>5, <2>1, <2>2, <2>3 DEF Core, Distinct, KeyIsMail
  <2>6. SingleAttempt' /\ ThreadsDiffer' /\ Undelivered'
    <3>1. \A k \in Keys : InFlight(k)' <=> InFlight(k)
      BY <1>2 DEF InFlight
    <3>2. SingleAttempt'
      BY <1>2, <1>5, <3>1 DEF Core, SingleAttempt
    <3>3. ThreadsDiffer'
      BY <1>2, <1>5 DEF Core, ThreadsDiffer
    <3>4. Undelivered'
      BY <1>2, <1>5 DEF Core, Undelivered
    <3>q. QED
      BY <3>2, <3>3, <3>4
  <2>7. AttemptLocks'
    BY <1>1, <1>5, <2>1, <2>4 DEF Core, AttemptLocks
  <2>8. StatusTrue'
    BY <1>2, <1>5, <2>1, <2>2 DEF Core, StatusTrue, Quiescent, Unsent, Sent
  <2>9. CheckIdle'
    BY <1>2, <1>5, <2>1, <2>4 DEF Core, CheckIdle, Shape, CheckShape
  <2>q. QED
    BY <2>5, <2>6, <2>7, <2>8, <2>9 DEF Core
<1>6. CASE clash'
  BY <1>6
<1>7. CASE ~clash'
  <2>1. \/ Same(n) /\ clash' = clash
        \/ /\ map_mail'[n].mail = m /\ map_mail'[n].status = Unsent
           /\ ~clash /\ n \notin Live /\ Quiescent(n)
    BY <1>1, <1>7, Zenon
  <2>2. Core
    BY <1>7, <2>1, Zenon
  <2>q. QED
    BY <1>4, <1>5, <2>1, <2>2, Zenon
<1>q. QED
  BY <1>6, <1>7, Zenon

(* Steps that touch neither attempts nor what entries say. *)
LEMMA CoreQuiet ==
  ASSUME Shape, Core, UNCHANGED <<worker, map_tmp, delivered>>,
         \A k \in Keys : Same(k),
         pc' = "checkwait" => pc = "checkwait" /\ cur' = cur
  PROVE  Core'
<1>1. \A k \in Keys : Quiescent(k)' <=> Quiescent(k)
  BY DEF Quiescent, InFlight
<1>2. pc = "checkwait" => cur \in Keys
  BY DEF Shape, CheckShape, Live
<1>3. CheckIdle'
  BY <1>1, <1>2 DEF Core, CheckIdle, Same
<1>q. QED
  BY <1>3, CoreStatus

LEMMA CoreInit == Init => Core
<1> SUFFICES ASSUME Init PROVE Core
  OBVIOUS
<1>1. /\ \A k \in Keys : map_mail[k].status = Absent /\ map_tmp[k] = 0
      /\ \A w \in Workers : worker[w] = NoParam
      /\ delivered = {} /\ pc = "request"
  BY DEF Init, NoNode
<1>2. Live = {}
  BY <1>1 DEF Live
<1>3. SingleAttempt
  BY <1>1 DEF SingleAttempt, NoParam, NoSeq, Keys
<1>4. ThreadsDiffer /\ Undelivered
  BY <1>1 DEF ThreadsDiffer, Undelivered
<1>q. QED
  BY <1>1, <1>2, <1>3, <1>4 DEF Core, Distinct, AttemptLocks, KeyIsMail,
    StatusTrue, CheckIdle

LEMMA CoreNext ==
  ASSUME Shape, Supply, Core, [Next]_vars,
         \A m \in Mails : ~MakeMailList(m)
  PROVE  Core'
<1> USE DEF Shape, TypeOK
<1>0. CASE UNCHANGED vars
  BY <1>0, CoreQuiet DEF vars, scanVars, attemptVars, Same
<1>1. CASE HandleNotify
  <2>1. \A k \in Keys : Quiescent(k)' <=> Quiescent(k)
    BY <1>1 DEF HandleNotify, attemptVars, Quiescent, InFlight
  <2>2. pc = "checkwait" => cur \in Keys
    BY DEF CheckShape, Live
  <2>3. CheckIdle'
    BY <1>1, <2>1, <2>2, NotifyNodes DEF HandleNotify, scanVars, Core, CheckIdle
  <2>q. QED
    BY <1>1, <2>3, NotifyNodes, CoreStatus DEF HandleNotify, attemptVars, Live, Same
<1>2. CASE MailListRequest
  BY <1>2, RequestNodes, CoreQuiet DEF MailListRequest, attemptVars
<1>3. CASE Response
  BY <1>3, CoreQuiet DEF Response, attemptVars, Same
<1>4. ASSUME NEW k \in Keys, ScanCached(k)
      PROVE  Core'
  <2>1. k \in Live /\ map_mail[k].status \in {Unsent, SoftFail}
    BY <1>4 DEF ScanCached, IsNext, Sendable
  <2>2. Quiescent(k) /\ map_mail[k].status # Sent
    BY <2>1 DEF Core, AttemptLocks, Unsent, SoftFail, Sending, Stopped, Sent
  <2>q. QED
    BY <1>4, <2>1, <2>2, CoreLaunch DEF ScanCached
<1>5. ASSUME NEW k \in Keys, ScanCheck(k)
      PROVE  Core'
  <2>1. k \in Live /\ map_mail[k].status \in {Unsent, SoftFail}
    BY <1>5 DEF ScanCheck, IsNext, Sendable
  <2>2. Quiescent(k)
    BY <2>1 DEF Core, AttemptLocks, Unsent, SoftFail, Sending, Stopped
  <2>3. Quiescent(k)'
    BY <1>5, <2>2 DEF ScanCheck, attemptVars, Quiescent, InFlight
  <2>4. CheckIdle'
    BY <1>5, <2>1, <2>3 DEF ScanCheck, CheckIdle
  <2>q. QED
    BY <1>5, <2>4, CoreStatus DEF ScanCheck, attemptVars, Same
<1>6. CASE CheckOk
  <2>1. cur \in Live /\ Quiescent(cur) /\ map_mail[cur].status # Sent
    BY <1>6 DEF CheckOk, CheckShape, Core, CheckIdle, Unsent, SoftFail, Stopped, Sent
  <2>2. CASE pc' = "scan" /\ UNCHANGED <<map_mail, worker>>
    BY <1>6, <2>2, CoreQuiet DEF CheckOk, Same
  <2>3. CASE Launch(cur, Head(toEng).task)
    BY <1>6, <2>1, <2>3, CoreLaunch DEF CheckOk
  <2>q. QED
    BY <1>6, <2>2, <2>3 DEF CheckOk
<1>7. CASE CheckFail
  <2>1. cur \in Live /\ Quiescent(cur) /\ map_mail[cur].status # Sent /\ cur \in Keys
    BY <1>7 DEF CheckFail, CheckShape, Core, CheckIdle, Unsent, SoftFail, Stopped,
      Sent, Live
  <2>2. CheckIdle'
    BY <1>7 DEF CheckFail, CheckIdle
  <2>q. QED
    BY <1>7, <2>1, <2>2, FailNodes, CoreStatus DEF CheckFail, attemptVars
<1>8. CASE CheckRetry
  BY <1>8, CoreQuiet DEF CheckRetry, attemptVars, Same
<1>9. ASSUME NEW w \in Workers, NEW flag \in {Sent, SoftFail, HardFail},
             Deliver(w, flag)
      PROVE  Core'
  BY <1>9, CoreDeliver DEF Supply
<1>10. CASE UpdateList
  BY <1>10, CoreUpdate
<1>11. CASE EraseReported
  <2>1. CheckIdle'
    BY <1>11 DEF EraseReported, CheckIdle
  <2>q. QED
    BY <1>11, <2>1, EraseNodes, CoreStatus DEF EraseReported, attemptVars
<1>12. ASSUME NEW k \in Keys, Ripen(k)
       PROVE  Core'
  BY <1>12, RipenNodes, CoreQuiet DEF Ripen, attemptVars, scanVars
<1>13. ASSUME NEW k \in Keys, ScanSkip(k)
       PROVE  Core'
  BY <1>13, CoreQuiet DEF ScanSkip, attemptVars, Same
<1>14. CASE ScanEnd \/ SkipReport \/ SendReport \/ SendReportFail \/ KeepReported
            \/ UpdateTotle \/ TickReport \/ Break
  BY <1>14, CoreQuiet DEF ScanEnd, SkipReport, SendReport, SendReportFail,
    KeepReported, UpdateTotle, TickReport, Break, scanVars, attemptVars, Same
<1>15. CASE Dispatcher
  BY <1>15, CoreQuiet DEF Dispatcher, DispMails, DispTemplate, DispResult,
    scanVars, attemptVars, Same
<1>q. QED
  BY <1>0, <1>1, <1>2, <1>3, <1>4, <1>5, <1>6, <1>7, <1>8, <1>9, <1>10, <1>11,
    <1>12, <1>13, <1>14, <1>15 DEF Next, MainThread, DeliveryThread

(* A clash of keys is remembered. *)
LEMMA ClashKept == clash /\ [Next]_vars => clash'
<1> SUFFICES ASSUME clash, [Next]_vars PROVE clash'
  OBVIOUS
<1>1. ASSUME NEW m \in Mails, MakeMailList(m)
      PROVE  clash'
  <2>1. clash' = clash \/ clash' = (clash \/ NextKey \in Live \/ ~Quiescent(NextKey))
    BY <1>1 DEF MakeMailList
  <2>q. QED
    BY <2>1, Zenon
<1>2. CASE UNCHANGED clash
  BY <1>2
<1>q. QED
  BY <1>1, <1>2 DEF Next, MainThread, DeliveryThread, Dispatcher, vars, histVars,
    HandleNotify, MailListRequest, Response, ScanSkip, ScanCached, ScanCheck,
    ScanEnd, CheckOk, CheckRetry, CheckFail, UpdateList, SkipReport, SendReport,
    SendReportFail, EraseReported, KeepReported, UpdateTotle, Deliver, Ripen,
    TickReport, DispMails, DispTemplate, DispResult, Break

(* The inductive invariant of the engine. *)
LEMMA EngineInvariant == Spec => []EngineInv
<1>1. Init => EngineInv
  BY ShapeInit, SupplyInit, CoreInit DEF EngineInv
<1>2. EngineInv /\ [Next]_vars => EngineInv'
  <2> SUFFICES ASSUME EngineInv, [Next]_vars PROVE EngineInv'
    OBVIOUS
  <2>1. Shape' /\ Supply'
    BY ShapeNext, SupplyNext DEF EngineInv
  <2>2. CASE clash
    BY <2>1, <2>2, ClashKept DEF EngineInv
  <2>3. ASSUME ~clash, NEW m \in Mails, MakeMailList(m)
        PROVE  clash' \/ Core'
    BY <2>3, CoreTake DEF EngineInv
  <2>4. ASSUME ~clash, \A m \in Mails : ~MakeMailList(m)
        PROVE  Core'
    BY <2>4, CoreNext DEF EngineInv
  <2>q. QED
    BY <2>1, <2>2, <2>3, <2>4 DEF EngineInv
<1>q. QED
  BY <1>1, <1>2, PTL DEF Spec

(* A mail that was delivered is never given to a thread again, as long as   *)
(* seq_no has not come round to a key in use: ScanList's test for status 2, *)
(* UpdateList, stop marks and reconnections keep it so.                     *)
THEOREM DeliveredAtMostOnce == Spec => []AtMostOnce
<1>1. EngineInv => AtMostOnce
  BY DEF EngineInv, Core, Undelivered, AtMostOnce
<1>q. QED
  BY <1>1, EngineInvariant, PTL

(* At most one thread or one waiting result per key of m_map_mail.          *)
THEOREM OneAttemptPerKey == Spec => []OneAttempt
<1>1. EngineInv => OneAttempt
  BY DEF EngineInv, Core, SingleAttempt, OneAttempt
<1>q. QED
  BY <1>1, EngineInvariant, PTL

-----------------------------------------------------------------------------
(* Status 2 has an attempt behind it, whatever the keys do. *)

LEMMA PendingKept ==
  ASSUME SendingIsPending, UNCHANGED <<worker, map_tmp>>,
         \A k \in Keys : map_mail'[k].status = Sending => map_mail[k].status = Sending
  PROVE  SendingIsPending'
<1>1. \A k \in Keys : Quiescent(k)' <=> Quiescent(k)
  BY DEF Quiescent, InFlight
<1>q. QED
  BY <1>1 DEF SendingIsPending

LEMMA PendingLaunch ==
  ASSUME Shape, SendingIsPending, NEW k \in Keys, NEW t, Launch(k, t),
         UNCHANGED map_tmp
  PROVE  SendingIsPending'
<1>1. CASE UNCHANGED <<map_mail, worker>>
  BY <1>1, PendingKept
<1>2. CASE FailHard(k) /\ UNCHANGED worker
  BY <1>2, FailNodes, PendingKept DEF Shape, TypeOK, Same, HardFail, Sending
<1>3. ASSUME NEW w \in Workers, StartThread(w, k, t)
      PROVE  SendingIsPending'
  <2>1. /\ worker'[w].seqno = k
        /\ worker[w] = NoParam
        /\ \A v \in Workers \ {w} : worker'[v] = worker[v]
    BY <1>3 DEF StartThread, Shape, TypeOK, ThreadsOK
  <2>2. \A j \in Keys : InFlight(j) => InFlight(j)'
    BY <2>1 DEF InFlight, NoParam, NoSeq, Keys
  <2>3. InFlight(k)'
    BY <2>1 DEF InFlight
  <2>4. \A j \in Keys \ {k} : map_mail'[j].status = map_mail[j].status
    BY <1>3, StartNodes DEF Shape, TypeOK, Same
  <2>q. QED
    BY <2>2, <2>3, <2>4 DEF SendingIsPending, Quiescent
<1>q. QED
  BY <1>1, <1>2, <1>3 DEF Launch

LEMMA PendingNext == Shape /\ SendingIsPending /\ [Next]_vars => SendingIsPending'
<1> SUFFICES ASSUME Shape, SendingIsPending, [Next]_vars PROVE SendingIsPending'
  OBVIOUS
<1> USE DEF Shape, TypeOK
<1>0. CASE UNCHANGED <<map_mail, worker, map_tmp>>
  BY <1>0, PendingKept
<1>1. CASE HandleNotify
  <2>1. \A k \in Keys : map_mail'[k].status = Sending => map_mail[k].status = Sending
    BY <1>1, NotifyNodes DEF Stopped, Sending
  <2>q. QED
    BY <1>1, <2>1, PendingKept DEF HandleNotify, attemptVars
<1>2. ASSUME NEW m \in Mails, MakeMailList(m)
      PROVE  SendingIsPending'
  <2>1. \A k \in Keys : map_mail'[k].status = Sending => map_mail[k].status = Sending
    BY <1>2, TakeNodes DEF Same, Unsent, Sending
  <2>q. QED
    BY <1>2, <2>1, PendingKept DEF MakeMailList, attemptVars
<1>3. CASE MailListRequest
  BY <1>3, RequestNodes, PendingKept DEF MailListRequest, attemptVars, Same
<1>4. ASSUME NEW k \in Keys, ScanCached(k)
      PROVE  SendingIsPending'
  BY <1>4, PendingLaunch DEF ScanCached
<1>5. CASE CheckOk
  <2>1. cur \in Keys
    BY <1>5 DEF CheckOk, CheckShape, Live
  <2>q. QED
    BY <1>5, <2>1, PendingLaunch, PendingKept DEF CheckOk
<1>6. CASE CheckFail
  <2>1. cur \in Keys
    BY <1>6 DEF CheckFail, CheckShape, Live
  <2>q. QED
    BY <1>6, <2>1, FailNodes, PendingKept DEF CheckFail, attemptVars, Same, HardFail,
      Sending
<1>7. ASSUME NEW w \in Workers, NEW flag \in {Sent, SoftFail, HardFail},
             Deliver(w, flag)
      PROVE  SendingIsPending'
  <2> DEFINE k == worker[w].seqno
  <2>1. /\ k \in Keys /\ map_mail' = map_mail
        /\ map_tmp'[k] # 0
        /\ \A j \in Keys \ {k} : map_tmp'[j] = map_tmp[j]
        /\ \A v \in Workers \ {w} : worker'[v] = worker[v]
    BY <1>7 DEF Deliver, NodesOK, ThreadsOK, Sent, SoftFail, HardFail
  <2>2. \A j \in Keys \ {k} : InFlight(j) => InFlight(j)'
    BY <2>1 DEF InFlight
  <2>q. QED
    BY <2>1, <2>2 DEF SendingIsPending, Quiescent
<1>8. CASE UpdateList
  <2>1. /\ \A k \in Keys : map_tmp'[k] = 0
        /\ UNCHANGED worker
    BY <1>8 DEF UpdateList
  <2>2. \A k \in Keys : InFlight(k)' <=> InFlight(k)
    BY <2>1 DEF InFlight
  <2>3. ASSUME NEW k \in Keys, map_mail'[k].status = Sending
        PROVE  InFlight(k)
    <3>1. map_mail[k].status = Sending /\ map_tmp[k] = 0
      BY <1>8, <2>3, UpdateNodes DEF NodesOK, Sent, SoftFail, HardFail, Sending, Live,
        Absent
    <3>q. QED
      BY <3>1 DEF SendingIsPending, Quiescent
  <2>q. QED
    BY <2>2, <2>3 DEF SendingIsPending, Quiescent
<1>9. CASE EraseReported
  <2>1. \A k \in Keys : map_mail'[k].status = Sending => map_mail[k].status = Sending
    BY <1>9, EraseNodes DEF Same, Absent, Sending
  <2>q. QED
    BY <1>9, <2>1, PendingKept DEF EraseReported, attemptVars
<1>10. ASSUME NEW k \in Keys, Ripen(k)
       PROVE  SendingIsPending'
  BY <1>10, RipenNodes, PendingKept DEF Ripen, attemptVars, Same
<1>q. QED
  BY <1>0, <1>1, <1>2, <1>3, <1>4, <1>5, <1>6, <1>7, <1>8, <1>9, <1>10
    DEF Next, MainThread, DeliveryThread, Dispatcher, vars, attemptVars, Response,
    ScanSkip, ScanCheck, ScanEnd, CheckRetry, SkipReport, SendReport,
    SendReportFail, KeepReported, UpdateTotle, TickReport, DispMails, DispTemplate,
    DispResult, Break

(* An entry in status 2, which ScanList and SendReport pass over, always    *)
(* has a thread or a waiting result, also when keys clash.                  *)
THEOREM SendingHasAttempt == Spec => []SendingIsPending
<1>1. Init => SendingIsPending
  BY DEF Init, SendingIsPending, NoNode, Absent, Sending
<1>2. Init => Shape
  BY ShapeInit
<1>3. Shape /\ [Next]_vars => Shape'
  BY ShapeNext
<1>4. Shape /\ SendingIsPending /\ [Next]_vars => SendingIsPending'
  BY PendingNext
<1>q. QED
  BY <1>1, <1>2, <1>3, <1>4, PTL DEF Spec
=============================================================================
