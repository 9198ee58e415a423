------------------------- MODULE SmtpSession_proofs -------------------------
(***************************************************************************)
(* Proofs about SmtpSession, for answers of any length and any number of   *)
(* attempts.  The argument is about what may be in the stream where the    *)
(* client stands: it can be out of step with the server up to DATA, whose  *)
(* answer 354 is like no other; what comes after that line in the stream   *)
(* can only be about the text.                                             *)
(***************************************************************************)
EXTENDS SmtpSession, TLAPS

(* The step DATA of the script *)
Data == IF box = "auth" THEN 8 ELSE 5

HasCode(c) == \E i \in 1 .. Len(stream) : stream[i].code = c
Only(C) == \A i \in 1 .. Len(stream) : stream[i].code \in C
Pending(s) == \E i \in 1 .. Len(sent) : sent[i] = s

Shape ==
  /\ box \in Boxes
  /\ flag \in {Running, Sent, SoftFail, HardFail}
  /\ pos \in 0 .. Data + 2
  /\ reads \in 0 .. 2
  /\ sent \in Seq(Steps)
  /\ stream \in Seq(Line)
  /\ expects \in 0 .. Data + 2
  /\ took \in BOOLEAN
  /\ copies \in Nat
  /\ lost \in Nat

(* Nothing is left of an earlier attempt. *)
Start == pos = 0 => reads = 0 /\ sent = <<>> /\ stream = <<>> /\ expects = 0

(* The answers of the authentication are over when its last one, 235, is    *)
(* read; their 334 would be taken for an answer to DATA.                    *)
AuthOrder ==
  /\ box # "auth" => ~HasCode("334")
  /\ box = "auth" =>
       /\ expects <= 5 => ~HasCode("235")
       /\ \A i, j \in 1 .. Len(stream) :
            i < j /\ stream[i].code = "235" => stream[j].code # "334"
       /\ pos > 5 => expects > 5 /\ ~HasCode("334")

BeforeData ==
  pos < Data \/ (pos = Data /\ reads = 0) =>
    ~Pending("data") /\ expects <= Data /\ ~HasCode("354")

(* When the server has said 354, it has read all commands. *)
AtData ==
  pos <= Data =>
    /\ ~Pending("text") /\ ~took /\ expects <= Data + 1
    /\ \A i \in 1 .. Len(sent) : sent[i] = "data" => i = Len(sent)
    /\ expects = Data + 1 => sent = <<>>
    /\ HasCode("354") => expects = Data + 1
    /\ \A i, j \in 1 .. Len(stream) :
         i < j /\ stream[i].code = "354" => stream[j].code = "354"

(* The text is to be sent, on its way, taken, or refused. *)
AtText ==
  pos = Data + 1 =>
    \/ /\ sent = <<>> /\ expects = Data + 1 /\ ~took /\ reads = 0
       /\ Only({"354"})
    \/ /\ sent = <<"text">> /\ expects = Data + 1 /\ ~took /\ reads > 0
       /\ Only({"354"})
    \/ /\ sent = <<>> /\ expects = Data + 2 /\ took /\ reads > 0
       /\ Only({"354", "2xx"})
    \/ /\ sent = <<>> /\ expects = Data + 1 /\ ~took /\ reads > 0
       /\ Only({"354", "4xx", "452", "5xx"})

AtQuit == pos = Data + 2 => took /\ expects = Data + 2 /\ ~Pending("text")

(* The copy a bounce may leave when the client took 354 for the answer to   *)
(* the text                                                                 *)
Slack == IF misread THEN 1 ELSE 0

(* The text that was taken, or still may be, is accounted for. *)
Account ==
  /\ flag = Running => copies <= lost + (IF took THEN 1 ELSE 0)
  /\ flag = Sent => took
  /\ flag = SoftFail => copies + (IF Pending("text") THEN 1 ELSE 0) <= lost
  /\ flag = Sent => copies + (IF Pending("text") THEN 1 ELSE 0) <= lost + 1
  /\ flag = HardFail => copies + (IF Pending("text") THEN 1 ELSE 0) <= lost + Slack

SmtpInv ==
  /\ Shape
  /\ Start
  /\ AuthOrder
  /\ BeforeData
  /\ AtData
  /\ AtText
  /\ AtQuit
  /\ Account

-----------------------------------------------------------------------------
(* The script *)

LEMMA ScriptSteps ==
  ASSUME box \in Boxes
  PROVE  /\ Data \in Nat
         /\ Len(Script(box)) = Data + 2
         /\ \A i \in 1 .. Data + 2 :
              /\ Script(box)[i] \in Steps
              /\ Script(box)[i] = "data" <=> i = Data
              /\ Script(box)[i] = "text" <=> i = Data + 1
              /\ Script(box)[i] = "quit" <=> i = Data + 2
              /\ Script(box)[i] \in AuthSteps <=> (box = "auth" /\ i \in 3 .. 5)
              /\ Script(box)[i] = "auth3" <=> (box = "auth" /\ i = 5)
  BY DEF Script, Steps, AuthSteps, Data, Boxes

-----------------------------------------------------------------------------
(* Lines and commands *)

LEMMA AnswersLines ==
  ASSUME Shape, NEW c \in Codes, NEW n \in Nat, Answers(c, n)
  PROVE  /\ stream' \in Seq(Line)
         /\ Len(stream') \in Nat /\ Len(stream) \in Nat
         /\ Len(stream') >= Len(stream) /\ Len(stream') <= Len(stream) + n
         /\ \A i \in 1 .. Len(stream) : stream'[i] = stream[i]
         /\ \A i \in 1 .. Len(stream') : i > Len(stream) => stream'[i].code = c
         /\ flag # Running => stream' = stream
<1>1. stream \in Seq(Line) /\ Len(stream) \in Nat
  BY DEF Shape
<1>2. /\ Answer(c, n) \in Seq(Line) /\ Len(Answer(c, n)) = n
      /\ \A i \in 1 .. n : Answer(c, n)[i].code = c
  BY DEF Answer, Line
<1>3. CASE flag = Running
  <2>1. stream' = stream \o Answer(c, n)
    BY <1>3 DEF Answers
  <2>q. QED
    BY <1>1, <1>2, <1>3, <2>1
<1>4. CASE flag # Running
  BY <1>1, <1>4 DEF Answers
<1>q. QED
  BY <1>3, <1>4

LEMMA AnswersCodes ==
  ASSUME Shape, NEW c \in Codes, NEW n \in Nat, Answers(c, n)
  PROVE  /\ \A x : HasCode(x)' => HasCode(x) \/ x = c
         /\ \A C : Only(C) /\ c \in C => Only(C)'
         /\ flag # Running => \A C : Only(C) => Only(C)'
  BY AnswersLines DEF HasCode, Only

LEMMA ReadLines ==
  ASSUME Shape, NEW n \in 1 .. Len(stream),
         stream' = SubSeq(stream, n + 1, Len(stream))
  PROVE  /\ stream' \in Seq(Line)
         /\ Len(stream') \in Nat /\ Len(stream) \in Nat
         /\ Len(stream') = Len(stream) - n
         /\ \A i \in 1 .. Len(stream') : stream'[i] = stream[n + i]
  BY DEF Shape

LEMMA ReadCodes ==
  ASSUME Shape, NEW n \in 1 .. Len(stream),
         stream' = SubSeq(stream, n + 1, Len(stream))
  PROVE  /\ \A x : HasCode(x)' => HasCode(x)
         /\ \A C : Only(C) => Only(C)'
<1>1. /\ Len(stream') \in Nat /\ Len(stream) \in Nat /\ n \in Nat
      /\ Len(stream') = Len(stream) - n
      /\ \A i \in 1 .. Len(stream') : stream'[i] = stream[n + i]
  BY ReadLines DEF Shape
<1>2. \A i \in 1 .. Len(stream') : n + i \in 1 .. Len(stream)
  BY <1>1
<1>q. QED
  BY <1>1, <1>2 DEF HasCode, Only

LEMMA SentAppend ==
  ASSUME Shape, NEW x \in Steps, sent' = Append(sent, x)
  PROVE  /\ sent' \in Seq(Steps)
         /\ Len(sent) \in Nat /\ Len(sent') = Len(sent) + 1
         /\ \A i \in 1 .. Len(sent) : sent'[i] = sent[i]
         /\ sent'[Len(sent')] = x
         /\ \A y : Pending(y)' => Pending(y) \/ y = x
<1>1. sent \in Seq(Steps) /\ Len(sent) \in Nat
  BY DEF Shape
<1>2. /\ sent' \in Seq(Steps)
      /\ Len(sent') = Len(sent) + 1
      /\ \A i \in 1 .. Len(sent) : sent'[i] = sent[i]
      /\ sent'[Len(sent')] = x
  BY <1>1
<1>q. QED
  BY <1>1, <1>2 DEF Pending

LEMMA SentTail ==
  ASSUME Shape, sent # <<>>, sent' = Tail(sent)
  PROVE  /\ sent' \in Seq(Steps)
         /\ Head(sent) \in Steps /\ Head(sent) = sent[1] /\ Pending(Head(sent))
         /\ Len(sent) \in Nat /\ Len(sent) > 0 /\ Len(sent') = Len(sent) - 1
         /\ \A i \in 1 .. Len(sent') : sent'[i] = sent[i + 1]
         /\ \A y : Pending(y)' => Pending(y)
<1>1. sent \in Seq(Steps) /\ Len(sent) \in Nat
  BY DEF Shape
<1>2. /\ sent' \in Seq(Steps)
      /\ Head(sent) = sent[1]
      /\ Len(sent) > 0 /\ Len(sent') = Len(sent) - 1
      /\ \A i \in 1 .. Len(sent') : sent'[i] = sent[i + 1]
  BY <1>1
<1>3. 1 \in 1 .. Len(sent) /\ \A i \in 1 .. Len(sent') : i + 1 \in 1 .. Len(sent)
  BY <1>1, <1>2
<1>4. Pending(Head(sent)) /\ Head(sent) \in Steps
  BY <1>1, <1>2, <1>3 DEF Pending
<1>5. \A y : Pending(y)' => Pending(y)
  BY <1>2, <1>3 DEF Pending
<1>q. QED
  BY <1>1, <1>2, <1>4, <1>5

LEMMA Empties ==
  /\ sent = <<>> => \A y : ~Pending(y)
  /\ sent' = <<>> => \A y : ~Pending(y)'
  /\ stream = <<>> => (\A x : ~HasCode(x)) /\ \A C : Only(C)
  BY DEF Pending, HasCode, Only

(* Where nothing but the flag changes *)
LEMMA Ended ==
  ASSUME SmtpInv, flag' \in {Sent, SoftFail, HardFail},
         UNCHANGED <<box, pos, reads, sent, stream, expects, took, copies>>,
         lost' \in Nat, Account'
  PROVE  SmtpInv'
<1>1. Data' = Data
  BY DEF Data
<1>2. (\A x : HasCode(x)' <=> HasCode(x)) /\ (\A C : Only(C)' <=> Only(C))
      /\ (\A y : Pending(y)' <=> Pending(y))
  BY DEF HasCode, Only, Pending
<1>3. Shape' /\ Start'
  BY <1>1 DEF SmtpInv, Shape, Start
<1>4. AuthOrder'
  BY <1>2 DEF SmtpInv, AuthOrder
<1>5. BeforeData' /\ AtQuit'
  BY <1>1, <1>2 DEF SmtpInv, BeforeData, AtQuit
<1>6. AtData'
  BY <1>1, <1>2 DEF SmtpInv, AtData
<1>7. AtText'
  BY <1>1, <1>2 DEF SmtpInv, AtText
<1>q. QED
  BY <1>3, <1>4, <1>5, <1>6, <1>7 DEF SmtpInv

LEMMA FlagsDiffer ==
  /\ Running # Sent /\ Running # SoftFail /\ Running # HardFail
  /\ Sent # SoftFail /\ Sent # HardFail /\ SoftFail # HardFail
  BY DEF Running, Sent, SoftFail, HardFail

LEMMA SlackRange == Slack \in {0, 1} /\ Slack' \in {0, 1}
  BY DEF Slack

(* A failure that leaves no text on its way, and none unaccounted for *)
LEMMA FailedAccount ==
  ASSUME flag' \in {SoftFail, HardFail}, UNCHANGED <<copies, lost>>,
         copies \in Nat, lost \in Nat, copies <= lost, ~Pending("text")'
  PROVE  Account'
<1>1. copies + 0 <= lost /\ \A x \in {0, 1} : copies + 0 <= lost + x
  OBVIOUS
<1>2. flag' # Running /\ flag' # Sent
  BY FlagsDiffer
<1>q. QED
  BY <1>1, <1>2, SlackRange DEF Account

LEMMA InitInv == Init => SmtpInv
<1> SUFFICES ASSUME Init PROVE SmtpInv
  OBVIOUS
<1>1. Data \in {5, 8}
  BY DEF Data
<1>2. (\A y : ~Pending(y)) /\ (\A x : ~HasCode(x)) /\ Len(stream) = 0 /\ Len(sent) = 0
  BY Empties DEF Init
<1>3. Shape /\ Start
  <2>1. flag \in {Running, Sent, SoftFail, HardFail} /\ took \in BOOLEAN
    BY DEF Init
  <2>2. sent \in Seq(Steps) /\ stream \in Seq(Line)
    BY DEF Init
  <2>q. QED
    BY <1>1, <2>1, <2>2 DEF Init, Shape, Start
<1>4. AuthOrder /\ BeforeData /\ AtData /\ AtText /\ AtQuit
  BY <1>1, <1>2 DEF Init, AuthOrder, BeforeData, AtData, AtText, AtQuit
<1>5. Account
  BY <1>2, FlagsDiffer DEF Init, Account
<1>q. QED
  BY <1>3, <1>4, <1>5 DEF SmtpInv

LEMMA ConnectInv == SmtpInv /\ Connect => SmtpInv'
<1> SUFFICES ASSUME SmtpInv, Connect PROVE SmtpInv'
  OBVIOUS
<1>0. /\ flag = Running /\ pos = 0 /\ sent = <<>> /\ stream = <<>> /\ expects = 0
      /\ UNCHANGED <<box, sent, stream, took, copies, lost>>
  BY DEF Connect, SmtpInv, Start
<1>1. Data' = Data /\ Data \in {5, 8} /\ Shape
  BY <1>0 DEF Data, SmtpInv
<1>2. ~took /\ copies <= lost
  BY <1>0, <1>1 DEF SmtpInv, AtData, Account, Shape
<1>3. CASE End(SoftFail) /\ UNCHANGED <<open, expects>>
  <2>1. Account'
    BY <1>0, <1>1, <1>2, <1>3, Empties, FlagsDiffer DEF End, Account, Pending, Shape
  <2>q. QED
    BY <1>0, <1>1, <1>3, <2>1, Ended DEF End, Shape
<1>4. CASE /\ pos' = 1 /\ reads' = IF box = "sohu" THEN 2 ELSE 1
           /\ expects' = 1 /\ UNCHANGED flag
  <2>1. (\A y : ~Pending(y)') /\ (\A x : ~HasCode(x)') /\ Len(stream') = 0 /\ Len(sent') = 0
    BY <1>0 DEF Pending, HasCode
  <2>2. Shape' /\ Start'
    BY <1>0, <1>1, <1>4 DEF Shape, Start
  <2>3. AuthOrder' /\ BeforeData' /\ AtData' /\ AtText' /\ AtQuit'
    BY <1>0, <1>1, <1>2, <1>4, <2>1 DEF AuthOrder, BeforeData, AtData, AtText, AtQuit
  <2>4. Account'
    BY <1>0, <1>1, <1>2, <1>4, FlagsDiffer DEF Account, Shape
  <2>q. QED
    BY <2>2, <2>3, <2>4 DEF SmtpInv
<1>q. QED
  BY <1>3, <1>4 DEF Connect

(* The client's step *)
LEMMA StepAt ==
  ASSUME SmtpInv, pos > 0
  PROVE  /\ Data \in {5, 8} /\ pos \in 1 .. Data + 2
         /\ Step \in Steps
         /\ Step = "data" <=> pos = Data
         /\ Step = "text" <=> pos = Data + 1
         /\ Step = "quit" <=> pos = Data + 2
         /\ Step \in AuthSteps <=> (box = "auth" /\ pos \in 3 .. 5)
         /\ Step = "auth3" <=> (box = "auth" /\ pos = 5)
<1>1. pos \in 1 .. Data + 2 /\ box \in Boxes /\ Data \in {5, 8}
  BY DEF SmtpInv, Shape, Data
<1>q. QED
  BY <1>1, ScriptSteps DEF Step

LEMMA WriteInv == SmtpInv /\ Write => SmtpInv'
<1> SUFFICES ASSUME SmtpInv, Write PROVE SmtpInv'
  OBVIOUS
<1>0. /\ flag = Running /\ pos > 0 /\ reads = 0
      /\ UNCHANGED <<box, stream, expects, took, copies, lost>>
  BY DEF Write, server
<1>1. Data' = Data /\ Shape
  BY <1>0 DEF Data, SmtpInv
<1>2. (\A x : HasCode(x)' <=> HasCode(x)) /\ (\A C : Only(C)' <=> Only(C))
  BY <1>0 DEF HasCode, Only
<1>3. /\ pos <= Data => ~Pending("text") /\ ~took
      /\ pos = Data + 1 => sent = <<>> /\ expects = Data + 1 /\ ~took /\ Only({"354"})
      /\ pos = Data + 2 => took /\ ~Pending("text")
  BY <1>0 DEF SmtpInv, AtData, AtText, AtQuit
<1>4. ~Pending("text")
  BY <1>0, <1>3, Empties, StepAt
<1>5. CASE UNCHANGED <<flag, pos>> /\ reads' = 1 /\ sent' = Append(sent, Step)
  <2>1. /\ sent' \in Seq(Steps)
        /\ Len(sent) \in Nat /\ Len(sent') = Len(sent) + 1
        /\ \A i \in 1 .. Len(sent) : sent'[i] = sent[i]
        /\ sent'[Len(sent')] = Step
        /\ \A y : Pending(y)' => Pending(y) \/ y = Step
    BY <1>0, <1>1, <1>5, StepAt, SentAppend
  <2>2. Shape' /\ Start'
    BY <1>0, <1>1, <1>5, <2>1 DEF Shape, Start
  <2>3. AuthOrder'
    BY <1>0, <1>2, <1>5 DEF SmtpInv, AuthOrder
  <2>4. BeforeData' /\ AtQuit'
    BY <1>0, <1>1, <1>2, <1>5, <2>1, StepAt DEF SmtpInv, BeforeData, AtQuit
  <2>5. AtData'
    <3> SUFFICES ASSUME pos <= Data PROVE AtData'
      BY <1>1, <1>5 DEF AtData
    <3>1. ~Pending("data") /\ expects <= Data /\ ~HasCode("354")
      BY <1>0, <1>1, StepAt DEF SmtpInv, BeforeData
    <3>2. \A i \in 1 .. Len(sent') : sent'[i] = "data" => i = Len(sent')
      BY <2>1, <3>1 DEF Pending
    <3>3. ~Pending("text")' /\ ~took'
      BY <1>0, <1>3, <2>1, StepAt
    <3>4. expects # Data + 1
      BY <1>0, <3>1, StepAt DEF SmtpInv, Shape
    <3>q. QED
      BY <1>0, <1>1, <1>2, <3>1, <3>2, <3>3, <3>4 DEF AtData, SmtpInv, HasCode
  <2>6. AtText'
    <3> SUFFICES ASSUME pos = Data + 1 PROVE AtText'
      BY <1>1, <1>5 DEF AtText
    <3>1. sent' = <<"text">>
      BY <1>0, <1>3, <1>5, StepAt
    <3>q. QED
      BY <1>0, <1>1, <1>2, <1>3, <1>5, <3>1 DEF AtText
  <2>7. Account'
    BY <1>0, <1>5, FlagsDiffer DEF SmtpInv, Account
  <2>q. QED
    BY <2>2, <2>3, <2>4, <2>5, <2>6, <2>7 DEF SmtpInv
<1>6. CASE Step = "quit" /\ UNCHANGED <<flag, pos, sent>> /\ reads' = 1
  <2>1. pos = Data + 2 /\ Data \in {5, 8}
    BY <1>0, <1>6, StepAt
  <2>2. (\A y : Pending(y)' <=> Pending(y))
    BY <1>6 DEF Pending
  <2>3. Shape' /\ Start'
    BY <1>0, <1>1, <1>6 DEF Shape, Start
  <2>4. AuthOrder'
    BY <1>0, <1>2, <1>6 DEF SmtpInv, AuthOrder
  <2>5. BeforeData' /\ AtData' /\ AtText'
    BY <1>1, <1>6, <2>1 DEF BeforeData, AtData, AtText
  <2>6. AtQuit' /\ Account'
    BY <1>0, <1>1, <1>6, <2>2, FlagsDiffer DEF SmtpInv, AtQuit, Account
  <2>q. QED
    BY <2>3, <2>4, <2>5, <2>6 DEF SmtpInv
<1>7. CASE /\ Step # "quit" /\ UNCHANGED sent
           /\ End(IF Step \in AuthSteps THEN HardFail ELSE SoftFail)
  <2>1. ~took /\ ~Pending("text")'
    BY <1>0, <1>3, <1>4, <1>7, StepAt DEF Pending
  <2>2. flag' \in {SoftFail, HardFail} /\ UNCHANGED <<pos, reads>>
    BY <1>7 DEF End
  <2>3. copies <= lost /\ copies \in Nat /\ lost \in Nat
    BY <1>0, <1>1, <2>1 DEF SmtpInv, Account, Shape
  <2>4. Account'
    BY <1>0, <2>1, <2>2, <2>3, FailedAccount
  <2>q. QED
    BY <1>0, <1>7, <2>2, <2>3, <2>4, Ended
<1>q. QED
  BY <1>5, <1>6, <1>7 DEF Write

-----------------------------------------------------------------------------
(* Reads *)

(* Lines are taken from the front of the stream. *)
Shortened ==
  /\ stream' \in Seq(Line)
  /\ \A x : HasCode(x)' => HasCode(x)
  /\ \A C : Only(C) => Only(C)'
  /\ \A i, j \in 1 .. Len(stream') : i < j =>
       \E k, m \in 1 .. Len(stream) :
         k < m /\ stream'[i] = stream[k] /\ stream'[j] = stream[m]

LEMMA ReadShortens ==
  ASSUME Shape, NEW n \in 1 .. Len(stream),
         stream' = SubSeq(stream, n + 1, Len(stream))
  PROVE  Shortened
<1>1. /\ stream' \in Seq(Line)
      /\ Len(stream') \in Nat /\ Len(stream) \in Nat /\ n \in Nat
      /\ Len(stream') = Len(stream) - n
      /\ \A i \in 1 .. Len(stream') : stream'[i] = stream[n + i]
  BY ReadLines
<1>2. ASSUME NEW i \in 1 .. Len(stream'), NEW j \in 1 .. Len(stream'), i < j
      PROVE  \E k, m \in 1 .. Len(stream) :
               k < m /\ stream'[i] = stream[k] /\ stream'[j] = stream[m]
  <2>1. /\ n + i \in 1 .. Len(stream) /\ n + j \in 1 .. Len(stream) /\ n + i < n + j
        /\ stream'[i] = stream[n + i] /\ stream'[j] = stream[n + j]
    BY <1>1, <1>2
  <2>q. QED
    BY <2>1
<1>q. QED
  BY <1>1, <1>2, ReadCodes DEF Shortened

LEMMA ShortenedOrder ==
  ASSUME Shortened
  PROVE  /\ (\A i, j \in 1 .. Len(stream) :
                i < j /\ stream[i].code = "235" => stream[j].code # "334")
             => \A i, j \in 1 .. Len(stream') :
                  i < j /\ stream'[i].code = "235" => stream'[j].code # "334"
         /\ (\A i, j \in 1 .. Len(stream) :
                i < j /\ stream[i].code = "354" => stream[j].code = "354")
             => \A i, j \in 1 .. Len(stream') :
                  i < j /\ stream'[i].code = "354" => stream'[j].code = "354"
<1>1. ASSUME NEW i \in 1 .. Len(stream'), NEW j \in 1 .. Len(stream'), i < j
      PROVE  \E k, m \in 1 .. Len(stream) :
               k < m /\ stream'[i] = stream[k] /\ stream'[j] = stream[m]
  BY <1>1 DEF Shortened
<1>2. ASSUME \A i, j \in 1 .. Len(stream) :
               i < j /\ stream[i].code = "235" => stream[j].code # "334",
             NEW i \in 1 .. Len(stream'), NEW j \in 1 .. Len(stream'), i < j,
             stream'[i].code = "235"
      PROVE  stream'[j].code # "334"
  <2>1. PICK k \in 1 .. Len(stream), m \in 1 .. Len(stream) :
               k < m /\ stream'[i] = stream[k] /\ stream'[j] = stream[m]
    BY <1>1, <1>2
  <2>q. QED
    BY <1>2, <2>1
<1>3. ASSUME \A i, j \in 1 .. Len(stream) :
               i < j /\ stream[i].code = "354" => stream[j].code = "354",
             NEW i \in 1 .. Len(stream'), NEW j \in 1 .. Len(stream'), i < j,
             stream'[i].code = "354"
      PROVE  stream'[j].code = "354"
  <2>1. PICK k \in 1 .. Len(stream), m \in 1 .. Len(stream) :
               k < m /\ stream'[i] = stream[k] /\ stream'[j] = stream[m]
    BY <1>1, <1>3
  <2>q. QED
    BY <1>3, <2>1
<1>q. QED
  BY <1>2, <1>3

(* What does not move the client on keeps the invariant. *)
LEMMA Shorter ==
  ASSUME SmtpInv, Shortened, flag' \in {Running, Sent, SoftFail, HardFail},
         UNCHANGED <<box, pos, sent, expects, took, copies, lost>>,
         reads > 0, reads' \in {1, reads}, pos > 0, Account'
  PROVE  SmtpInv'
<1>1. Data' = Data /\ Data \in {5, 8}
  BY DEF Data
<1>2. \A y : Pending(y)' <=> Pending(y)
  BY DEF Pending
<1>3. Shape' /\ Start'
  BY <1>1 DEF SmtpInv, Shape, Start, Shortened
<1>4. AuthOrder'
  <2>1. \A x : HasCode(x)' => HasCode(x)
    BY DEF Shortened
  <2>2. box = "auth" =>
          \A i, j \in 1 .. Len(stream') :
            i < j /\ stream'[i].code = "235" => stream'[j].code # "334"
    BY ShortenedOrder DEF SmtpInv, AuthOrder
  <2>3. AuthOrder
    BY DEF SmtpInv
  <2>q. QED
    BY <2>1, <2>2, <2>3 DEF AuthOrder
<1>5. BeforeData' /\ AtQuit'
  BY <1>1, <1>2 DEF SmtpInv, BeforeData, AtQuit, Shortened, Shape
<1>6. AtData'
  <2> SUFFICES ASSUME pos <= Data PROVE AtData'
    BY <1>1 DEF AtData
  <2>1. \A i, j \in 1 .. Len(stream') :
          i < j /\ stream'[i].code = "354" => stream'[j].code = "354"
    BY DEF SmtpInv, AtData, Shortened
  <2>q. QED
    BY <1>1, <1>2, <2>1 DEF SmtpInv, AtData, Shortened
<1>7. AtText'
  <2>1. reads' > 0 /\ reads # 0
    BY DEF SmtpInv, Shape
  <2>q. QED
    BY <1>1, <2>1 DEF SmtpInv, AtText, Shortened
<1>q. QED
  BY <1>3, <1>4, <1>5, <1>6, <1>7 DEF SmtpInv

(* A good answer *)
LEMMA AdvanceInv ==
  ASSUME SmtpInv, Shortened, NEW n \in 1 .. Len(stream),
         stream' = SubSeq(stream, n + 1, Len(stream)),
         pos > 0, Step # "quit", Good(Step, stream[1].code), Advance, flag = Running,
         UNCHANGED <<box, sent, expects, took, copies, lost>>
  PROVE  SmtpInv'
<1>0. Data' = Data /\ Shape
  BY DEF Data, SmtpInv
<1>1. \A y : Pending(y)' <=> Pending(y)
  BY DEF Pending
<1>2. /\ Data \in {5, 8} /\ pos \in 1 .. Data + 1
      /\ pos' = pos + 1 /\ reads' = 0 /\ flag' = flag
      /\ expects \in 0 .. Data + 2
  BY <1>0, StepAt DEF Advance, Shape
<1>3. /\ Len(stream) \in Nat /\ n \in Nat /\ 1 \in 1 .. Len(stream)
      /\ Len(stream') \in Nat
      /\ \A i \in 1 .. Len(stream') :
           n + i \in 1 .. Len(stream) /\ 1 < n + i /\ stream'[i] = stream[n + i]
  BY <1>0, ReadLines DEF Shape
<1>4. HasCode(stream[1].code)
  BY <1>3 DEF HasCode
<1>5. Shape' /\ Start'
  BY <1>0, <1>2 DEF Shape, Start, Shortened
<1>6. AuthOrder'
  <2>1. CASE box # "auth" \/ pos # 5
    BY <1>2, <2>1 DEF SmtpInv, AuthOrder, Shortened
  <2>2. CASE box = "auth" /\ pos = 5
    <3>1. stream[1].code = "235"
      BY <2>2, StepAt DEF Good
    <3>2. ~HasCode("334")'
      BY <1>3, <2>2, <3>1 DEF SmtpInv, AuthOrder, HasCode
    <3>3. expects > 5
      BY <1>2, <1>4, <2>2, <3>1 DEF SmtpInv, AuthOrder
    <3>4. \A i, j \in 1 .. Len(stream') :
            i < j /\ stream'[i].code = "235" => stream'[j].code # "334"
      BY <2>2, ShortenedOrder DEF SmtpInv, AuthOrder
    <3>5. expects' > 5 /\ ~(expects' <= 5) /\ box' = "auth"
      BY <1>2, <2>2, <3>3
    <3>q. QED
      BY <3>2, <3>4, <3>5 DEF AuthOrder
  <2>q. QED
    BY <2>1, <2>2
<1>7. Account'
  BY <1>1, <1>2, FlagsDiffer DEF SmtpInv, Account
<1>8. CASE pos < Data
  <2>1. BeforeData' /\ AtText' /\ AtQuit'
    BY <1>0, <1>1, <1>2, <1>8 DEF SmtpInv, BeforeData, AtText, AtQuit, Shortened
  <2>2. \A i, j \in 1 .. Len(stream') :
          i < j /\ stream'[i].code = "354" => stream'[j].code = "354"
    <3>1. pos <= Data
      BY <1>2, <1>8
    <3>q. QED
      BY <3>1, ShortenedOrder DEF SmtpInv, AtData
  <2>3. AtData /\ (HasCode("354")' => HasCode("354")) /\ pos <= Data
    BY <1>2, <1>8 DEF SmtpInv, Shortened
  <2>4. AtData'
    BY <1>0, <1>1, <1>2, <2>2, <2>3 DEF AtData
  <2>q. QED
    BY <1>5, <1>6, <1>7, <2>1, <2>4 DEF SmtpInv
<1>9. CASE pos = Data
  <2>1. ~HasCode("334")
    BY <1>2, <1>9 DEF SmtpInv, AuthOrder, Data
  <2>2. stream[1].code = "354"
    BY <1>4, <1>9, <2>1, StepAt DEF Good
  <2>3. sent = <<>> /\ expects = Data + 1 /\ ~took
    BY <1>2, <1>4, <1>9, <2>2 DEF SmtpInv, AtData
  <2>4. \A i, j \in 1 .. Len(stream) :
          i < j /\ stream[i].code = "354" => stream[j].code = "354"
    BY <1>2, <1>9 DEF SmtpInv, AtData
  <2>5. Only({"354"})'
    BY <1>3, <2>2, <2>4 DEF Only
  <2>6. AtText'
    BY <1>0, <1>2, <1>9, <2>3, <2>5 DEF AtText
  <2>7. BeforeData' /\ AtData' /\ AtQuit'
    BY <1>0, <1>2, <1>9 DEF BeforeData, AtData, AtQuit
  <2>q. QED
    BY <1>5, <1>6, <1>7, <2>6, <2>7 DEF SmtpInv
<1>10. CASE pos = Data + 1
  <2>1. stream[1].code \in {"2xx", "235"}
    BY <1>10, StepAt DEF Good, AuthSteps
  <2>2. sent = <<>> /\ expects = Data + 2 /\ took
    BY <1>3, <1>10, <2>1 DEF SmtpInv, AtText, Only
  <2>3. AtQuit'
    BY <1>0, <1>1, <2>2, Empties DEF AtQuit
  <2>4. BeforeData' /\ AtData' /\ AtText'
    BY <1>0, <1>2, <1>10 DEF BeforeData, AtData, AtText
  <2>q. QED
    BY <1>5, <1>6, <1>7, <2>3, <2>4 DEF SmtpInv
<1>q. QED
  BY <1>2, <1>8, <1>9, <1>10

LEMMA ReadInv ==
  ASSUME SmtpInv, NEW n \in 1 .. Len(stream), Read(n)
  PROVE  SmtpInv'
<1>0. /\ flag = Running /\ reads > 0
      /\ stream' = SubSeq(stream, n + 1, Len(stream))
      /\ UNCHANGED <<box, sent, expects, took, copies, lost>>
  BY DEF Read, server
<1>1. Shape /\ Shortened
  BY <1>0, ReadShortens DEF SmtpInv
<1>2. pos > 0
  <2>1. stream # <<>>
    OBVIOUS
  <2>q. QED
    BY <1>1, <2>1 DEF SmtpInv, Start, Shape
<1>3. \A y : Pending(y)' <=> Pending(y)
  BY <1>0 DEF Pending
<1>4. /\ copies \in Nat /\ lost \in Nat /\ took \in BOOLEAN
      /\ copies <= lost + (IF took THEN 1 ELSE 0)
  BY <1>0, <1>1 DEF SmtpInv, Account, Shape
<1>5. CASE reads' = 1 /\ UNCHANGED <<flag, pos>>
  <2>1. Account'
    BY <1>0, <1>3, <1>4, <1>5, FlagsDiffer DEF Account
  <2>q. QED
    BY <1>0, <1>1, <1>2, <1>5, <2>1, Shorter
<1>6. CASE Step = "quit" /\ End(Sent)
  <2>1. took /\ ~Pending("text")
    BY <1>2, <1>6, StepAt DEF SmtpInv, AtQuit
  <2>2. flag' = Sent /\ UNCHANGED <<pos, reads>>
    BY <1>6 DEF End
  <2>3. Account'
    BY <1>0, <1>3, <1>4, <2>1, <2>2, FlagsDiffer DEF Account
  <2>q. QED
    BY <1>0, <1>1, <1>2, <2>2, <2>3, Shorter
<1>7. CASE Step # "quit" /\ Good(Step, stream[1].code) /\ Advance
  BY <1>0, <1>1, <1>2, <1>7, AdvanceInv
<1>8. CASE Step # "quit" /\ ~Good(Step, stream[1].code)
           /\ End(Failure(Step, stream[1].code))
  <2>1. flag' \in {SoftFail, HardFail} /\ UNCHANGED <<pos, reads>>
    BY <1>8 DEF End, Failure
  <2>2. Account'
    <3>1. CASE pos <= Data
      <4>1. ~took /\ ~Pending("text")
        BY <3>1 DEF SmtpInv, AtData
      <4>q. QED
        BY <1>0, <1>3, <1>4, <2>1, <4>1, FailedAccount
    <3>2. CASE pos = Data + 1
      <4>1. Step = "text" /\ stream[1].code \notin {"2xx", "235"}
        BY <1>2, <1>8, <3>2, StepAt DEF Good, AuthSteps
      <4>2. 1 \in 1 .. Len(stream)
        BY <1>1 DEF Shape
      <4>3. CASE ~took /\ sent = <<>>
        BY <1>0, <1>3, <1>4, <2>1, <4>3, FailedAccount, Empties
      <4>4. CASE took \/ sent # <<>>
        <5>1. /\ stream[1].code = "354"
              /\ took => sent = <<>>
          BY <1>0, <3>2, <4>1, <4>2, <4>4 DEF SmtpInv, AtText, Only
        <5>2. flag' = HardFail
          BY <1>8, <4>1, <5>1 DEF End, Failure, AuthSteps
        <5>3. copies + (IF Pending("text") THEN 1 ELSE 0) <= lost + 1
          BY <1>4, <5>1, Empties
        <5>4. Slack' = 1
          <6>1. misread'
            BY <4>1, <5>1, Zenon DEF Read
          <6>q. QED
            BY <6>1 DEF Slack
        <5>q. QED
          BY <1>0, <1>3, <5>2, <5>3, <5>4, FlagsDiffer DEF Account
      <4>q. QED
        BY <4>3, <4>4
    <3>q. QED
      BY <1>2, <1>8, <3>1, <3>2, StepAt
  <2>q. QED
    BY <1>0, <1>1, <1>2, <2>1, <2>2, Shorter
<1>q. QED
  BY <1>5, <1>6, <1>7, <1>8 DEF Read

LEMMA ReadNothingInv == SmtpInv /\ ReadNothing => SmtpInv'
<1> SUFFICES ASSUME SmtpInv, ReadNothing PROVE SmtpInv'
  OBVIOUS
<1>0. /\ flag = Running /\ reads > 0
      /\ UNCHANGED <<box, pos, reads, sent, stream, expects, took, copies>>
  BY DEF ReadNothing, End, server
<1>1. pos > 0 /\ Shape
  BY <1>0 DEF SmtpInv, Start, Shape
<1>2. flag' = CASE Step = "quit" -> Sent
                [] Step \in AuthSteps -> HardFail
                [] OTHER -> SoftFail
  BY DEF ReadNothing, End
<1>3. lost' = IF Step = "text" THEN lost + 1 ELSE lost
  BY DEF ReadNothing
<1>4. \A y : Pending(y)' <=> Pending(y)
  BY <1>0 DEF Pending
<1>5. /\ copies \in Nat /\ lost \in Nat /\ lost' \in Nat /\ took \in BOOLEAN
      /\ copies <= lost + (IF took THEN 1 ELSE 0)
  BY <1>0, <1>1, <1>3 DEF SmtpInv, Account, Shape
<1>6. flag' \in {Sent, SoftFail, HardFail}
  BY <1>2
<1>7. Account'
  <2>1. CASE pos <= Data
    <3>1. ~took /\ ~Pending("text") /\ Step # "quit" /\ Step # "text"
      BY <1>1, <2>1, StepAt DEF SmtpInv, AtData
    <3>2. flag' \in {SoftFail, HardFail}
      BY <1>2, <3>1
    <3>q. QED
      BY <1>0, <1>3, <1>4, <1>5, <3>1, <3>2, FailedAccount
  <2>2. CASE pos = Data + 1
    <3>1. Step = "text" /\ Data \in {5, 8}
      BY <1>1, <2>2, StepAt
    <3>2. flag' = SoftFail /\ lost' = lost + 1
      BY <1>2, <1>3, <3>1 DEF AuthSteps
    <3>3. took => sent = <<>>
      BY <2>2 DEF SmtpInv, AtText
    <3>4. copies + (IF Pending("text") THEN 1 ELSE 0) <= lost'
      BY <1>5, <3>2, <3>3, Empties
    <3>q. QED
      BY <1>0, <1>4, <3>2, <3>4, FlagsDiffer DEF Account
  <2>3. CASE pos = Data + 2
    <3>1. Step = "quit" /\ took /\ ~Pending("text")
      BY <1>1, <2>3, StepAt DEF SmtpInv, AtQuit
    <3>2. flag' = Sent /\ lost' = lost
      BY <1>2, <1>3, <3>1 DEF AuthSteps
    <3>q. QED
      BY <1>0, <1>4, <1>5, <3>1, <3>2, FlagsDiffer DEF Account
  <2>q. QED
    BY <1>1, <2>1, <2>2, <2>3, StepAt
<1>q. QED
  BY <1>0, <1>5, <1>6, <1>7, Ended

LEMMA RetryInv == SmtpInv /\ Retry => SmtpInv'
<1> SUFFICES ASSUME SmtpInv, Retry PROVE SmtpInv'
  OBVIOUS
<1>0. /\ flag = SoftFail /\ flag' = Running /\ pos' = 0 /\ reads' = 0
      /\ sent' = <<>> /\ stream' = <<>> /\ expects' = 0 /\ took' = FALSE
      /\ UNCHANGED <<box, copies, lost>>
  BY DEF Retry
<1>1. Data' = Data /\ Data \in {5, 8} /\ Shape
  BY <1>0 DEF Data, SmtpInv
<1>2. /\ (\A y : ~Pending(y)') /\ (\A x : ~HasCode(x)')
      /\ Len(stream') = 0 /\ Len(sent') = 0
  BY <1>0 DEF Pending, HasCode
<1>3. Shape' /\ Start'
  <2>1. flag' \in {Running, Sent, SoftFail, HardFail} /\ took' \in BOOLEAN
    BY <1>0
  <2>2. sent' \in Seq(Steps) /\ stream' \in Seq(Line)
    BY <1>0
  <2>q. QED
    BY <1>0, <1>1, <2>1, <2>2 DEF Shape, Start
<1>4. AuthOrder' /\ BeforeData' /\ AtData' /\ AtText' /\ AtQuit'
  BY <1>0, <1>1, <1>2 DEF AuthOrder, BeforeData, AtData, AtText, AtQuit
<1>5. copies <= lost /\ copies \in Nat /\ lost \in Nat
  BY <1>0, <1>1, FlagsDiffer DEF SmtpInv, Account, Shape
<1>6. Account'
  BY <1>0, <1>5, FlagsDiffer DEF Account
<1>q. QED
  BY <1>3, <1>4, <1>6 DEF SmtpInv

-----------------------------------------------------------------------------
(* The server *)

LEMMA GreetInv ==
  ASSUME SmtpInv, NEW c \in {"2xx", "4xx", "5xx"}, NEW n \in 1 .. MaxLines, Greet(c, n)
  PROVE  SmtpInv'
<1>0. /\ expects = 1 /\ expects' = 2 /\ Answers(c, n)
      /\ UNCHANGED <<box, flag, pos, reads, sent, took, copies, lost, misread>>
  BY DEF Greet
<1>1. Shape /\ c \in Codes /\ n \in Nat
  BY SmtpAssumption DEF SmtpInv, Codes
<1>2. Data' = Data /\ Data \in {5, 8}
  BY <1>0 DEF Data
<1>3. \A y : Pending(y)' <=> Pending(y)
  BY <1>0 DEF Pending
<1>4. /\ stream' \in Seq(Line)
      /\ Len(stream') \in Nat /\ Len(stream) \in Nat
      /\ \A x : HasCode(x)' => HasCode(x) \/ x = c
  BY <1>0, <1>1, AnswersLines, AnswersCodes
<1>5. pos \in 1 .. Data
  BY <1>0, <1>1, <1>2 DEF SmtpInv, Start, AtText, AtQuit, Shape
<1>6. ~HasCode("354") /\ (box = "auth" => pos <= 5 /\ ~HasCode("235"))
  BY <1>0, <1>1, <1>2, <1>5 DEF SmtpInv, AtData, AuthOrder, Shape
<1>7. ~HasCode("354")' /\ (box = "auth" => ~HasCode("235")')
      /\ (box # "auth" => ~HasCode("334")')
  BY <1>4, <1>6 DEF SmtpInv, AuthOrder
<1>8. Shape' /\ Start'
  BY <1>0, <1>1, <1>2, <1>4, <1>5 DEF Shape, Start
<1>9. AuthOrder'
  BY <1>0, <1>2, <1>5, <1>6, <1>7 DEF AuthOrder, HasCode
<1>10. BeforeData' /\ AtText' /\ AtQuit'
  BY <1>0, <1>2, <1>3, <1>5, <1>7 DEF SmtpInv, BeforeData, AtText, AtQuit
<1>11. AtData'
  <2>1. \A i, j \in 1 .. Len(stream') :
          i < j /\ stream'[i].code = "354" => stream'[j].code = "354"
    BY <1>7 DEF HasCode
  <2>q. QED
    BY <1>0, <1>2, <1>3, <1>5, <1>7, <2>1 DEF SmtpInv, AtData
<1>12. Account'
  BY <1>0, <1>3 DEF SmtpInv, Account, Slack
<1>q. QED
  BY <1>8, <1>9, <1>10, <1>11, <1>12 DEF SmtpInv

(* The lines of an answer come after all others in the stream. *)
LEMMA AnswersOrder ==
  ASSUME Shape, NEW c \in Codes, NEW n \in Nat, Answers(c, n)
  PROVE  /\ (c # "334" /\ \A i, j \in 1 .. Len(stream) :
                i < j /\ stream[i].code = "235" => stream[j].code # "334")
             => \A i, j \in 1 .. Len(stream') :
                  i < j /\ stream'[i].code = "235" => stream'[j].code # "334"
         /\ ~HasCode("235") => \A i, j \in 1 .. Len(stream') :
              i < j /\ stream'[i].code = "235" => stream'[j].code # "334"
         /\ ~HasCode("354") => \A i, j \in 1 .. Len(stream') :
              i < j /\ stream'[i].code = "354" => stream'[j].code = "354"
<1>1. /\ Len(stream') \in Nat /\ Len(stream) \in Nat
      /\ \A i \in 1 .. Len(stream) : stream'[i] = stream[i]
      /\ \A i \in 1 .. Len(stream') : i > Len(stream) => stream'[i].code = c
  BY AnswersLines
<1>2. \A i \in 1 .. Len(stream') : i \in 1 .. Len(stream) \/ i > Len(stream)
  BY <1>1
<1>3. ASSUME ~HasCode("235"), NEW i \in 1 .. Len(stream'), NEW j \in 1 .. Len(stream'),
             i < j, stream'[i].code = "235"
      PROVE  stream'[j].code # "334"
  <2>1. i > Len(stream)
    BY <1>1, <1>2, <1>3 DEF HasCode
  <2>2. j > Len(stream)
    BY <1>1, <1>3, <2>1
  <2>q. QED
    BY <1>1, <1>3, <2>1, <2>2
<1>4. ASSUME ~HasCode("354"), NEW i \in 1 .. Len(stream'), NEW j \in 1 .. Len(stream'),
             i < j, stream'[i].code = "354"
      PROVE  stream'[j].code = "354"
  <2>1. i > Len(stream)
    BY <1>1, <1>2, <1>4 DEF HasCode
  <2>2. j > Len(stream)
    BY <1>1, <1>4, <2>1
  <2>q. QED
    BY <1>1, <1>4, <2>1, <2>2
<1>5. ASSUME c # "334",
             \A i, j \in 1 .. Len(stream) :
               i < j /\ stream[i].code = "235" => stream[j].code # "334",
             NEW i \in 1 .. Len(stream'), NEW j \in 1 .. Len(stream'),
             i < j, stream'[i].code = "235"
      PROVE  stream'[j].code # "334"
  <2>1. CASE j > Len(stream)
    BY <1>1, <1>5, <2>1
  <2>2. CASE j \in 1 .. Len(stream)
    <3>1. i \in 1 .. Len(stream)
      BY <1>1, <1>5, <2>2
    <3>q. QED
      BY <1>1, <1>5, <2>2, <3>1
  <2>q. QED
    BY <1>2, <2>1, <2>2
<1>q. QED
  BY <1>3, <1>4, <1>5

(* Where the server reads a command, the client has not gone past it. *)
LEMMA ReplyWhere ==
  ASSUME SmtpInv, expects > 1, sent # <<>>
  PROVE  /\ Data \in {5, 8} /\ pos \in 1 .. Data + 2 /\ expects \in 2 .. Data + 2
         /\ pos <= Data => expects <= Data /\ ~HasCode("354")
         /\ pos = Data + 1 =>
              /\ sent = <<"text">> /\ expects = Data + 1 /\ ~took /\ reads > 0
              /\ Only({"354"})
         /\ pos = Data + 2 => expects = Data + 2 /\ took
         /\ Pending("text") => pos = Data + 1
<1>1. Shape /\ Data \in {5, 8}
  BY DEF SmtpInv, Data
<1>2. pos # 0
  BY <1>1 DEF SmtpInv, Start, Shape
<1>3. pos \in 1 .. Data + 2 /\ expects \in 2 .. Data + 2
  BY <1>1, <1>2 DEF Shape
<1>4. pos <= Data => expects <= Data /\ ~HasCode("354") /\ ~Pending("text")
  BY <1>1, <1>3 DEF SmtpInv, AtData
<1>5. pos = Data + 1 => /\ sent = <<"text">> /\ expects = Data + 1 /\ ~took /\ reads > 0
                        /\ Only({"354"})
  BY <1>3 DEF SmtpInv, AtText
<1>6. pos = Data + 2 => expects = Data + 2 /\ took /\ ~Pending("text")
  BY DEF SmtpInv, AtQuit
<1>q. QED
  BY <1>1, <1>3, <1>4, <1>5, <1>6

LEMMA AccountKept ==
  ASSUME SmtpInv, UNCHANGED <<flag, took, copies, lost, misread>>,
         Pending("text")' => Pending("text")
  PROVE  Account'
<1>0. Slack' = Slack /\ Slack \in {0, 1}
  BY DEF Slack
<1>1. copies \in Nat /\ lost \in Nat /\ took \in BOOLEAN
  BY DEF SmtpInv, Shape
<1>2. CASE Pending("text")'
  BY <1>0, <1>1, <1>2 DEF SmtpInv, Account
<1>3. CASE ~Pending("text")'
  <2>1. /\ flag = SoftFail => copies <= lost
        /\ flag = Sent => copies <= lost + 1
        /\ flag = HardFail => copies <= lost + Slack
    BY <1>1, <1>0 DEF SmtpInv, Account
  <2>q. QED
    BY <1>0, <1>1, <1>3, <2>1 DEF SmtpInv, Account
<1>q. QED
  BY <1>2, <1>3

LEMMA DataLast ==
  ASSUME SmtpInv, pos <= Data,
         Len(sent) \in Nat /\ Len(sent) > 0 /\ Len(sent') = Len(sent) - 1,
         \A i \in 1 .. Len(sent') : sent'[i] = sent[i + 1]
  PROVE  \A i \in 1 .. Len(sent') : sent'[i] = "data" => i = Len(sent')
<1>1. \A i \in 1 .. Len(sent) : sent[i] = "data" => i = Len(sent)
  BY DEF SmtpInv, AtData
<1>3. ASSUME NEW i \in 1 .. Len(sent'), sent'[i] = "data"
      PROVE  i = Len(sent')
  <2>1. i + 1 \in 1 .. Len(sent) /\ i \in Int
    OBVIOUS
  <2>2. sent[i + 1] = "data"
    BY <1>3
  <2>3. i + 1 = Len(sent)
    BY <1>1, <2>1, <2>2
  <2>q. QED
    BY <2>1, <2>3
<1>q. QED
  BY <1>3

(* No: the client stands where it stood. *)
LEMMA RefuseInv ==
  ASSUME SmtpInv, NEW c \in {"4xx", "452", "5xx"}, NEW n \in Nat, Answers(c, n),
         expects > 1, sent # <<>>, sent' = Tail(sent),
         UNCHANGED <<box, flag, pos, reads, expects, took, copies, lost, misread>>
  PROVE  SmtpInv'
<1>0. c \in Codes /\ Shape
  BY DEF Codes, SmtpInv
<1>1. Data' = Data
  BY DEF Data
<1>2. /\ sent' \in Seq(Steps)
      /\ Len(sent) \in Nat /\ Len(sent) > 0 /\ Len(sent') = Len(sent) - 1
      /\ \A i \in 1 .. Len(sent') : sent'[i] = sent[i + 1]
      /\ \A y : Pending(y)' => Pending(y)
  BY <1>0, SentTail
<1>3. /\ stream' \in Seq(Line)
      /\ \A x : HasCode(x)' => HasCode(x) \/ x = c
      /\ \A C : Only(C) /\ c \in C => Only(C)'
  BY <1>0, AnswersLines, AnswersCodes
<1>4. /\ Data \in {5, 8} /\ pos \in 1 .. Data + 2 /\ expects \in 2 .. Data + 2
      /\ pos <= Data => expects <= Data /\ ~HasCode("354")
      /\ pos = Data + 1 =>
           /\ sent = <<"text">> /\ expects = Data + 1 /\ ~took /\ reads > 0
           /\ Only({"354"})
  BY ReplyWhere
<1>5. Shape' /\ Start'
  BY <1>0, <1>1, <1>2, <1>3, <1>4 DEF Shape, Start
<1>6. AuthOrder'
  <2>1. c # "334" /\ c # "235"
    OBVIOUS
  <2>2. box = "auth" => \A i, j \in 1 .. Len(stream') :
          i < j /\ stream'[i].code = "235" => stream'[j].code # "334"
    BY <1>0, <2>1, AnswersOrder DEF SmtpInv, AuthOrder
  <2>q. QED
    BY <1>3, <2>1, <2>2 DEF SmtpInv, AuthOrder
<1>7. BeforeData' /\ AtQuit'
  BY <1>1, <1>2, <1>3 DEF SmtpInv, BeforeData, AtQuit
<1>8. AtData'
  <2> SUFFICES ASSUME pos <= Data PROVE AtData'
    BY <1>1 DEF AtData
  <2>1. ~HasCode("354") /\ expects <= Data /\ ~HasCode("354")'
    BY <1>3, <1>4
  <2>2. \A i, j \in 1 .. Len(stream') :
          i < j /\ stream'[i].code = "354" => stream'[j].code = "354"
    BY <1>0, <2>1, AnswersOrder
  <2>3. \A i \in 1 .. Len(sent') : sent'[i] = "data" => i = Len(sent')
    BY <1>2, DataLast
  <2>4. expects' # Data + 1 /\ expects' <= Data + 1
    BY <1>4, <2>1
  <2>q. QED
    BY <1>1, <1>2, <2>1, <2>2, <2>3, <2>4 DEF SmtpInv, AtData
<1>9. AtText'
  <2> SUFFICES ASSUME pos = Data + 1 PROVE AtText'
    BY <1>1 DEF AtText
  <2>1. sent' = <<>>
    BY <1>4
  <2>2. Only({"354", "4xx", "452", "5xx"})
    BY <1>4 DEF Only
  <2>3. Only({"354", "4xx", "452", "5xx"})'
    BY <1>3, <2>2
  <2>q. QED
    BY <1>1, <1>4, <2>1, <2>3 DEF AtText
<1>10. Account'
  BY <1>2, AccountKept
<1>q. QED
  BY <1>5, <1>6, <1>7, <1>8, <1>9, <1>10 DEF SmtpInv

(* Yes to a command before DATA *)
LEMMA AcceptBefore ==
  ASSUME SmtpInv, NEW c \in {"2xx", "235", "334"}, NEW n \in Nat, Answers(c, n),
         expects > 1, expects < Data, sent # <<>>, sent' = Tail(sent),
         c = "334" => box = "auth" /\ expects <= 4,
         c = "235" => expects = 5,
         expects' = expects + 1,
         UNCHANGED <<box, flag, pos, reads, took, copies, lost, misread>>
  PROVE  SmtpInv'
<1>0. c \in Codes /\ Shape
  BY DEF Codes, SmtpInv
<1>1. Data' = Data
  BY DEF Data
<1>2. /\ sent' \in Seq(Steps)
      /\ Len(sent) \in Nat /\ Len(sent) > 0 /\ Len(sent') = Len(sent) - 1
      /\ \A i \in 1 .. Len(sent') : sent'[i] = sent[i + 1]
      /\ \A y : Pending(y)' => Pending(y)
  BY <1>0, SentTail
<1>3. /\ stream' \in Seq(Line)
      /\ \A x : HasCode(x)' => HasCode(x) \/ x = c
  BY <1>0, AnswersLines, AnswersCodes
<1>4. /\ Data \in {5, 8} /\ pos \in 1 .. Data + 2 /\ expects \in 2 .. Data + 2
      /\ pos <= Data => expects <= Data /\ ~HasCode("354")
      /\ pos = Data + 1 => expects = Data + 1
      /\ pos = Data + 2 => expects = Data + 2
  BY ReplyWhere
<1>5. pos \in 1 .. Data /\ ~HasCode("354") /\ ~HasCode("354")' /\ expects' <= Data
      /\ expects' \in 3 .. Data
  BY <1>3, <1>4
<1>6. Shape' /\ Start'
  BY <1>0, <1>1, <1>2, <1>3, <1>4, <1>5 DEF Shape, Start
<1>7. AuthOrder'
  <2>1. CASE box # "auth"
    BY <1>3, <2>1 DEF SmtpInv, AuthOrder
  <2>2. CASE box = "auth"
    <3>1. expects <= 5 => ~HasCode("235")
      BY <2>2 DEF SmtpInv, AuthOrder
    <3>2. \A i, j \in 1 .. Len(stream') :
            i < j /\ stream'[i].code = "235" => stream'[j].code # "334"
      <4>1. CASE expects <= 5
        BY <1>0, <3>1, <4>1, AnswersOrder
      <4>2. CASE ~(expects <= 5)
        <5>1. c # "334"
          BY <1>4, <4>2
        <5>q. QED
          BY <1>0, <2>2, <5>1, AnswersOrder DEF SmtpInv, AuthOrder
      <4>q. QED
        BY <4>1, <4>2
    <3>3. expects' <= 5 => ~HasCode("235")'
      BY <1>3, <1>4, <3>1
    <3>4. pos > 5 => expects' > 5 /\ ~HasCode("334")'
      BY <1>3, <1>4, <2>2 DEF SmtpInv, AuthOrder
    <3>q. QED
      BY <2>2, <3>2, <3>3, <3>4 DEF AuthOrder
  <2>q. QED
    BY <2>1, <2>2
<1>8. BeforeData' /\ AtText' /\ AtQuit'
  BY <1>1, <1>2, <1>4, <1>5 DEF SmtpInv, BeforeData, AtText, AtQuit
<1>9. AtData'
  <2>1. \A i, j \in 1 .. Len(stream') :
          i < j /\ stream'[i].code = "354" => stream'[j].code = "354"
    BY <1>0, <1>5, AnswersOrder
  <2>2. \A i \in 1 .. Len(sent') : sent'[i] = "data" => i = Len(sent')
    <3>1. pos <= Data
      BY <1>4, <1>5
    <3>q. QED
      BY <1>2, <3>1, DataLast
  <2>3. expects' # Data + 1 /\ expects' <= Data + 1 /\ pos <= Data
    BY <1>4, <1>5
  <2>q. QED
    BY <1>1, <1>2, <1>5, <2>1, <2>2, <2>3 DEF SmtpInv, AtData
<1>10. Account'
  BY <1>2, AccountKept
<1>q. QED
  BY <1>6, <1>7, <1>8, <1>9, <1>10 DEF SmtpInv
(* Yes to DATA: the server has read all that was sent. *)
LEMMA AcceptData ==
  ASSUME SmtpInv, NEW n \in Nat, Answers("354", n),
         expects = Data, sent # <<>>, Head(sent) = "data", sent' = Tail(sent),
         expects' = expects + 1,
         UNCHANGED <<box, flag, pos, reads, took, copies, lost, misread>>
  PROVE  SmtpInv'
<1>0. "354" \in Codes /\ Shape /\ Data \in {5, 8}
  BY DEF Codes, SmtpInv, Data
<1>1. Data' = Data
  BY DEF Data
<1>2. /\ sent' \in Seq(Steps)
      /\ Head(sent) = sent[1] /\ Pending("data")
      /\ Len(sent) \in Nat /\ Len(sent) > 0 /\ Len(sent') = Len(sent) - 1
      /\ \A i \in 1 .. Len(sent') : sent'[i] = sent[i + 1]
      /\ \A y : Pending(y)' => Pending(y)
  BY <1>0, SentTail
<1>3. /\ stream' \in Seq(Line)
      /\ \A x : HasCode(x)' => HasCode(x) \/ x = "354"
  BY <1>0, AnswersLines, AnswersCodes
<1>4. /\ pos \in 1 .. Data + 2
      /\ pos <= Data => ~HasCode("354")
      /\ pos = Data + 1 => expects = Data + 1
      /\ pos = Data + 2 => expects = Data + 2
  BY <1>0, ReplyWhere
<1>5. pos = Data /\ reads # 0
  BY <1>0, <1>2, <1>4 DEF SmtpInv, BeforeData
<1>6. sent' = <<>>
  <2>0. \A i \in 1 .. Len(sent) : sent[i] = "data" => i = Len(sent)
    BY <1>0, <1>5 DEF SmtpInv, AtData
  <2>1. 1 \in 1 .. Len(sent) /\ sent[1] = "data"
    BY <1>2
  <2>2. Len(sent) = 1
    BY <2>0, <2>1
  <2>3. Len(sent') = 0
    BY <1>2, <2>2
  <2>q. QED
    BY <1>2, <2>3
<1>7. Shape' /\ Start'
  BY <1>0, <1>1, <1>2, <1>3, <1>5 DEF Shape, Start
<1>8. AuthOrder'
  <2>1. box = "auth" => \A i, j \in 1 .. Len(stream') :
          i < j /\ stream'[i].code = "235" => stream'[j].code # "334"
    BY <1>0, AnswersOrder DEF SmtpInv, AuthOrder
  <2>2. box = "auth" => expects' > 5 /\ ~(expects' <= 5)
    BY DEF Data
  <2>q. QED
    BY <1>3, <2>1, <2>2 DEF SmtpInv, AuthOrder
<1>9. BeforeData' /\ AtText' /\ AtQuit'
  BY <1>0, <1>1, <1>5 DEF BeforeData, AtText, AtQuit
<1>10. AtData'
  <2>1. \A i, j \in 1 .. Len(stream') :
          i < j /\ stream'[i].code = "354" => stream'[j].code = "354"
    BY <1>0, <1>4, <1>5, AnswersOrder
  <2>2. \A i \in 1 .. Len(sent') : sent'[i] = "data" => i = Len(sent')
    <3>1. pos <= Data
      BY <1>0, <1>5
    <3>q. QED
      BY <1>2, <3>1, DataLast
  <2>3. ~Pending("text") /\ ~took
    BY <1>0, <1>5 DEF SmtpInv, AtData
  <2>4. ~Pending("text")' /\ ~took' /\ expects' = Data + 1 /\ expects' <= Data + 1
    BY <1>0, <1>2, <2>3
  <2>q. QED
    BY <1>1, <1>6, <2>1, <2>2, <2>4 DEF AtData
<1>11. Account'
  BY <1>2, AccountKept
<1>q. QED
  BY <1>7, <1>8, <1>9, <1>10, <1>11 DEF SmtpInv

(* Yes to the text *)
LEMMA AcceptText ==
  ASSUME SmtpInv, NEW n \in Nat, Answers("2xx", n),
         expects = Data + 1, sent # <<>>, Head(sent) = "text", sent' = Tail(sent),
         expects' = expects + 1, took' = TRUE, copies' = copies + 1,
         UNCHANGED <<box, flag, pos, reads, lost, misread>>
  PROVE  SmtpInv'
<1>0. "2xx" \in Codes /\ Shape /\ Data \in {5, 8}
  BY DEF Codes, SmtpInv, Data
<1>1. Data' = Data
  BY DEF Data
<1>2. Pending("text") /\ sent' \in Seq(Steps)
  BY <1>0, SentTail
<1>3. /\ stream' \in Seq(Line)
      /\ \A x : HasCode(x)' => HasCode(x) \/ x = "2xx"
      /\ \A C : Only(C) /\ "2xx" \in C => Only(C)'
  BY <1>0, AnswersLines, AnswersCodes
<1>4. pos = Data + 1 /\ sent = <<"text">> /\ ~took /\ reads > 0 /\ Only({"354"})
  BY <1>0, <1>2, ReplyWhere
<1>5. sent' = <<>>
  BY <1>4
<1>6. Shape' /\ Start'
  <2>1. took' \in BOOLEAN /\ copies' \in Nat
    BY <1>0 DEF Shape
  <2>q. QED
    BY <1>0, <1>1, <1>2, <1>3, <1>4, <2>1 DEF Shape, Start
<1>7. AuthOrder'
  <2>1. box = "auth" => \A i, j \in 1 .. Len(stream') :
          i < j /\ stream'[i].code = "235" => stream'[j].code # "334"
    BY <1>0, AnswersOrder DEF SmtpInv, AuthOrder
  <2>2. box = "auth" => expects' > 5 /\ ~(expects' <= 5)
    BY DEF Data
  <2>q. QED
    BY <1>3, <2>1, <2>2 DEF SmtpInv, AuthOrder
<1>8. BeforeData' /\ AtData' /\ AtQuit'
  BY <1>0, <1>1, <1>4 DEF BeforeData, AtData, AtQuit
<1>9. AtText'
  <2>1. Only({"354", "2xx"})
    BY <1>4 DEF Only
  <2>2. Only({"354", "2xx"})'
    BY <1>3, <2>1
  <2>q. QED
    BY <1>0, <1>1, <1>4, <1>5, <2>2 DEF AtText
<1>10. Account'
  <2>1. ~Pending("text")'
    BY <1>5, Empties
  <2>2. copies \in Nat /\ lost \in Nat
    BY <1>0 DEF Shape
  <2>3. /\ flag = Running => copies <= lost
        /\ flag = SoftFail => copies + 1 <= lost
        /\ flag # Sent
        /\ flag = HardFail => copies + 1 <= lost + Slack
    BY <1>2, <1>4, <2>2 DEF SmtpInv, Account
  <2>4. Slack' = Slack /\ Slack \in {0, 1}
    BY DEF Slack
  <2>q. QED
    BY <2>1, <2>2, <2>3, <2>4, FlagsDiffer DEF Account
<1>q. QED
  BY <1>6, <1>7, <1>8, <1>9, <1>10 DEF SmtpInv

(* Yes to QUIT *)
LEMMA AcceptQuit ==
  ASSUME SmtpInv, NEW n \in Nat, Answers("2xx", n),
         expects = Data + 2, sent # <<>>, sent' = Tail(sent),
         UNCHANGED <<box, flag, pos, reads, expects, took, copies, lost, misread>>
  PROVE  SmtpInv'
<1>0. "2xx" \in Codes /\ Shape /\ Data \in {5, 8}
  BY DEF Codes, SmtpInv, Data
<1>1. Data' = Data
  BY DEF Data
<1>2. sent' \in Seq(Steps) /\ \A y : Pending(y)' => Pending(y)
  BY <1>0, SentTail
<1>3. /\ stream' \in Seq(Line)
      /\ \A x : HasCode(x)' => HasCode(x) \/ x = "2xx"
  BY <1>0, AnswersLines, AnswersCodes
<1>4. pos = Data + 2
  BY <1>0, ReplyWhere
<1>5. Shape' /\ Start'
  BY <1>0, <1>1, <1>2, <1>3, <1>4 DEF Shape, Start
<1>6. AuthOrder'
  <2>1. box = "auth" => \A i, j \in 1 .. Len(stream') :
          i < j /\ stream'[i].code = "235" => stream'[j].code # "334"
    BY <1>0, AnswersOrder DEF SmtpInv, AuthOrder
  <2>q. QED
    BY <1>3, <2>1 DEF SmtpInv, AuthOrder
<1>7. BeforeData' /\ AtData' /\ AtText' /\ AtQuit'
  BY <1>0, <1>1, <1>2, <1>4 DEF SmtpInv, BeforeData, AtData, AtText, AtQuit
<1>8. Account'
  BY <1>2, AccountKept
<1>q. QED
  BY <1>5, <1>6, <1>7, <1>8 DEF SmtpInv

LEMMA ReplyInv ==
  ASSUME SmtpInv, NEW c \in Codes, NEW n \in 1 .. MaxLines, Reply(c, n)
  PROVE  SmtpInv'
<1>0. /\ expects > 1 /\ sent # <<>> /\ sent' = Tail(sent) /\ Answers(c, n)
      /\ UNCHANGED <<box, flag, pos, reads, lost, misread>>
  BY DEF Reply
<1>1. n \in Nat /\ Shape /\ box \in Boxes
  BY SmtpAssumption DEF SmtpInv, Shape
<1>2. CASE /\ c \in (IF Head(sent) = "text" THEN {"4xx", "452", "5xx"}
                     ELSE {"4xx", "5xx"})
           /\ UNCHANGED <<expects, took, copies>>
  <2>1. c \in {"4xx", "452", "5xx"}
    BY <1>2
  <2>q. QED
    BY <1>0, <1>1, <1>2, <2>1, RefuseInv
<1>3. CASE /\ Script(box)[expects] = Head(sent)
           /\ c = Yes(Head(sent))
           /\ expects' = IF Head(sent) = "quit" THEN expects ELSE expects + 1
           /\ took' = (took \/ Head(sent) = "text")
           /\ copies' = IF Head(sent) = "text" THEN copies + 1 ELSE copies
  <2>1. Data \in {5, 8} /\ expects \in 2 .. Data + 2
    BY <1>0, ReplyWhere
  <2>2. /\ Head(sent) = "data" <=> expects = Data
        /\ Head(sent) = "text" <=> expects = Data + 1
        /\ Head(sent) = "quit" <=> expects = Data + 2
        /\ Head(sent) \in AuthSteps <=> (box = "auth" /\ expects \in 3 .. 5)
        /\ Head(sent) = "auth3" <=> (box = "auth" /\ expects = 5)
    BY <1>1, <1>3, <2>1, ScriptSteps
  <2>3. Head(sent) # "text" => took' = took
    BY <1>1, <1>3, Zenon DEF Shape
  <2>4. CASE expects < Data
    <3>1. Head(sent) \notin {"data", "text", "quit"}
      BY <2>1, <2>2, <2>4
    <3>2. /\ c \in {"2xx", "235", "334"}
          /\ c = "334" => Head(sent) \in {"auth1", "auth2"}
          /\ c = "235" => Head(sent) = "auth3"
      BY <1>3, <3>1 DEF Yes
    <3>3. c = "334" => box = "auth" /\ expects <= 4
      BY <2>1, <2>2, <3>2 DEF AuthSteps
    <3>4. c = "235" => expects = 5
      BY <2>2, <3>2
    <3>q. QED
      BY <1>0, <1>1, <1>3, <2>3, <2>4, <3>1, <3>2, <3>3, <3>4, AcceptBefore
  <2>5. CASE expects = Data
    <3>1. Head(sent) = "data"
      BY <2>2, <2>5
    <3>2. c = "354"
      BY <1>3, <3>1 DEF Yes
    <3>q. QED
      BY <1>0, <1>1, <1>3, <2>3, <2>5, <3>1, <3>2, AcceptData
  <2>6. CASE expects = Data + 1
    <3>1. Head(sent) = "text"
      BY <2>2, <2>6
    <3>2. c = "2xx"
      BY <1>3, <3>1 DEF Yes
    <3>3. took' = TRUE
      BY <1>3, <3>1, Zenon
    <3>q. QED
      BY <1>0, <1>1, <1>3, <2>6, <3>1, <3>2, <3>3, AcceptText
  <2>7. CASE expects = Data + 2
    <3>1. Head(sent) = "quit"
      BY <2>2, <2>7
    <3>2. c = "2xx"
      BY <1>3, <3>1 DEF Yes
    <3>q. QED
      BY <1>0, <1>1, <1>3, <2>3, <2>7, <3>1, <3>2, AcceptQuit
  <2>q. QED
    BY <2>1, <2>4, <2>5, <2>6, <2>7
<1>q. QED
  BY <1>2, <1>3 DEF Reply

(* Nothing the invariant is about changes. *)
LEMMA StillInv ==
  ASSUME SmtpInv,
         UNCHANGED <<box, flag, pos, reads, sent, stream, expects, took, copies, lost,
                     misread>>
  PROVE  SmtpInv'
  BY DEF SmtpInv, Shape, Start, AuthOrder, BeforeData, AtData, AtText, AtQuit, Account,
         Data, Slack, HasCode, Only, Pending

LEMMA NextInv == SmtpInv /\ [Next]_vars => SmtpInv'
<1> SUFFICES ASSUME SmtpInv, [Next]_vars PROVE SmtpInv'
  OBVIOUS
<1>1. CASE Connect
  BY <1>1, ConnectInv
<1>2. CASE Write
  BY <1>2, WriteInv
<1>3. CASE ReadNothing
  BY <1>3, ReadNothingInv
<1>4. CASE Retry
  BY <1>4, RetryInv
<1>5. CASE \E n \in 1 .. Len(stream) : Read(n)
  BY <1>5, ReadInv
<1>6. CASE \E c \in {"2xx", "4xx", "5xx"}, n \in 1 .. MaxLines : Greet(c, n)
  BY <1>6, GreetInv
<1>7. CASE \E c \in Codes, n \in 1 .. MaxLines : Reply(c, n)
  BY <1>7, ReplyInv
<1>8. CASE Drop
  BY <1>8, StillInv DEF Drop
<1>9. CASE UNCHANGED vars
  BY <1>9, StillInv DEF vars, server
<1>q. QED
  BY <1>1, <1>2, <1>3, <1>4, <1>5, <1>6, <1>7, <1>8, <1>9 DEF Next, Client, Server

LEMMA SmtpInvariant == Spec => []SmtpInv
<1>1. Init => SmtpInv
  BY InitInv
<1>2. SmtpInv /\ [Next]_vars => SmtpInv'
  BY NextInv
<1>q. QED
  BY <1>1, <1>2, PTL DEF Spec

-----------------------------------------------------------------------------
(* Theorems *)

(* A mail counted as sent was taken by its server, however many lines its   *)
(* answers have and however they are cut by SocketReadLine.                 *)
THEOREM SentMailIsTaken == Spec => []SentIsTaken
<1>1. SmtpInv => SentIsTaken
  BY DEF SmtpInv, Account, SentIsTaken
<1>q. QED
  BY <1>1, SmtpInvariant, PTL

(* The text is sent only where the server has asked for it: the client that *)
(* has read 354 is in step again.                                           *)
THEOREM TextIsInStep == Spec => []TextInStep
<1>1. SmtpInv => TextInStep
  <2> SUFFICES ASSUME SmtpInv, TextPending PROVE Script(box)[expects] = "text"
    BY DEF TextInStep
  <2>1. Pending("text") /\ box \in Boxes /\ Data \in {5, 8} /\ pos \in 0 .. Data + 2
    BY DEF Pending, TextPending, SmtpInv, Shape, Data
  <2>2. pos = Data + 1
    BY <2>1 DEF SmtpInv, AtData, AtQuit
  <2>3. expects = Data + 1
    BY <2>1, <2>2, Empties DEF SmtpInv, AtText
  <2>q. QED
    BY <2>1, <2>3, ScriptSteps
<1>q. QED
  BY <1>1, SmtpInvariant, PTL

(* Every copy of a mail but one comes from an attempt that was given up     *)
(* without an answer to the text, whatever the number of attempts.          *)
THEOREM CopiesAreExplained == Spec => []CopiesExplained
<1>1. SmtpInv => CopiesExplained
  <2> SUFFICES ASSUME SmtpInv PROVE CopiesExplained
    OBVIOUS
  <2>1. /\ copies \in Nat /\ lost \in Nat
        /\ flag \in {Running, Sent, SoftFail, HardFail}
    BY DEF SmtpInv, Shape
  <2>q. QED
    BY <2>1, SlackRange DEF SmtpInv, Account, CopiesExplained
<1>q. QED
  BY <1>1, SmtpInvariant, PTL

(* A mail that is reported as a bounce is at its server, or on its way, in  *)
(* no more copies than attempts were given up without an answer to the      *)
(* text, but for the copy whose answer the client took from a line left     *)
(* over of the answer to DATA.                                              *)
THEOREM BouncesAreRefused == Spec => []HardIsRefused
<1>1. SmtpInv => HardIsRefused
  BY DEF SmtpInv, Account, Slack, Pending, HardIsRefused, TextPending
<1>q. QED
  BY <1>1, SmtpInvariant, PTL

=============================================================================
