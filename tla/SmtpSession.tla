---------------------------- MODULE SmtpSession ----------------------------
(***************************************************************************)
(* The delivery of one mail by EmlSender::Send2Domain, attempt after       *)
(* attempt: the client's steps, and a mail server that answers each        *)
(* command with one or more lines.                                         *)
(*                                                                         *)
(* The client takes the lines that have arrived for the answer to its last *)
(* command: SocketReadLine returns at any end of a line, so that the rest  *)
(* of an answer is left for the next read.  Both sides may fall silent or  *)
(* lose the connection at any time.  The server is external: it keeps to   *)
(* the order of SMTP, and answers 5xx to a command out of order.           *)
(*                                                                         *)
(* A line is reduced to its code and to whether it ends the answer         *)
(* ("250 " and not "250-").                                                *)
(***************************************************************************)
EXTENDS Integers, Sequences

CONSTANTS
  ManyLines,  \* the steps a server may answer with more than one line
  MaxLines,   \* bound: lines of such an answer
  MaxTries    \* bound: attempts after a soft failure

(* The mailboxes Send2Domain tells apart *)
Boxes == {"plain", "sohu", "auth"}

(* The dialogue of SendAuth2DP, with the delivery platform of 139.com only. *)
AuthSteps == {"auth1", "auth2", "auth3"}

(* The steps of a session *)
Script(b) ==
  IF b = "auth"
  THEN <<"greet", "helo", "auth1", "auth2", "auth3", "mail", "rcpt", "data", "text",
         "quit">>
  ELSE <<"greet", "helo", "mail", "rcpt", "data", "text", "quit">>

Steps == {"greet", "helo", "auth1", "auth2", "auth3", "mail", "rcpt", "data",
          "text", "quit"}

ASSUME SmtpAssumption ==
  /\ ManyLines \subseteq Steps
  /\ MaxLines \in Nat \ {0} /\ MaxTries \in Nat \ {0}

Codes == {"2xx", "235", "334", "354", "4xx", "452", "5xx"}

Line == [code : Codes, last : BOOLEAN]

(* s_flag *)
Running  == 0
Sent     == 1
SoftFail == 4
HardFail == 5

VARIABLES
  box,      \* which of the mailboxes the mail is for
  flag,     \* s_flag, Running during an attempt
  pos,      \* the client's step of the script, 0 before it is connected
  reads,    \* reads until the step's answer is taken, 0 before its command is sent
  sent,     \* commands the server has not read
  stream,   \* lines the client has not read
  open,     \* the server takes part
  expects,  \* the server's step of the script
  took,     \* the server has taken the text of this attempt
  tries,    \* attempts
  copies,   \* history: texts taken in all attempts
  lost,     \* history: attempts given up without an answer to the text
  misread   \* history: a line left of DATA's answer was read as the text's

server == <<open, expects, took, copies>>
vars == <<box, flag, pos, reads, sent, stream, server, tries, lost, misread>>

Step == Script(box)[pos]

Init ==
  /\ box \in Boxes
  /\ flag = Running
  /\ pos = 0
  /\ reads = 0
  /\ sent = <<>>
  /\ stream = <<>>
  /\ open = FALSE
  /\ expects = 0
  /\ took = FALSE
  /\ tries = 1
  /\ copies = 0
  /\ lost = 0
  /\ misread = FALSE

-----------------------------------------------------------------------------
(* The client *)

End(f) == flag' = f /\ UNCHANGED <<pos, reads>>

Advance == pos' = pos + 1 /\ reads' = 0 /\ UNCHANGED flag

(* TcpConnect.  The greeting of sohu may take two reads. *)
Connect ==
  /\ flag = Running
  /\ pos = 0
  /\ \/ /\ pos' = 1 /\ reads' = IF box = "sohu" THEN 2 ELSE 1
        /\ open' = TRUE /\ expects' = 1
        /\ UNCHANGED flag
     \/ End(SoftFail) /\ UNCHANGED <<open, expects>>
  /\ UNCHANGED <<box, sent, stream, took, copies, tries, lost, misread>>

(* SocketWrite; QUIT may fail. *)
Write ==
  /\ flag = Running
  /\ pos > 0 /\ reads = 0
  /\ \/ /\ reads' = 1
        /\ sent' = Append(sent, Step)
        /\ UNCHANGED <<flag, pos>>
     \/ /\ IF Step = "quit" THEN reads' = 1 /\ UNCHANGED <<flag, pos>>
           ELSE End(IF Step \in AuthSteps THEN HardFail ELSE SoftFail)
        /\ UNCHANGED sent
  /\ UNCHANGED <<box, stream, server, tries, lost, misread>>

(* Fault: the code that asks for the text is not looked at. *)
GoodAny(s, c) ==
  CASE s = "greet" -> TRUE
    [] s \in {"auth1", "auth2"} -> c = "334"
    [] s = "auth3" -> c = "235"
    [] s = "data" -> c \in {"2xx", "235", "334", "354"}
    [] OTHER -> c \in {"2xx", "235"}

(* Fault: every answer to the text is taken for a yes. *)
GoodText(s, c) ==
  CASE s \in {"greet", "text"} -> TRUE
    [] s \in {"auth1", "auth2"} -> c = "334"
    [] s = "auth3" -> c = "235"
    [] s = "data" -> c \in {"334", "354"}
    [] OTHER -> c \in {"2xx", "235"}

(* The answer to step s the client goes on with: its first digit, or the    *)
(* three digits of SendAuth2DP.                                             *)
Good(s, c) ==
  CASE s = "greet" -> TRUE
    [] s \in {"auth1", "auth2"} -> c = "334"
    [] s = "auth3" -> c = "235"
    [] s = "data" -> c \in {"334", "354"}
    [] OTHER -> c \in {"2xx", "235"}

(* ... and the failure it makes of any other. *)
Failure(s, c) ==
  CASE s \in AuthSteps -> HardFail
    [] c = "452" /\ s = "text" -> HardFail
    [] c \in {"4xx", "452"} -> SoftFail
    [] OTHER -> HardFail

(* Fault: the answer to QUIT is tested like the others. *)
ReadQuitTested(n) ==
  LET c == stream[1].code IN
  /\ flag = Running
  /\ reads > 0
  /\ n <= Len(stream)
  /\ Step = "helo" => stream[n].last \/ n = Len(stream)
  /\ stream' = SubSeq(stream, n + 1, Len(stream))
  /\ \/ reads = 2 /\ reads' = 1 /\ UNCHANGED <<flag, pos>>
     \/ Step = "quit" /\ Good(Step, c) /\ End(Sent)
     \/ Step # "quit" /\ Good(Step, c) /\ Advance
     \/ ~Good(Step, c) /\ End(Failure(Step, c))
  /\ misread' = (misread \/ (Step = "text" /\ c = "354"))
  /\ UNCHANGED <<box, sent, server, tries, lost>>

(* The client takes n lines.  SocketReadSmtp, after HELO, waits for the     *)
(* last line of an answer, and times out with what it has.  What it reads   *)
(* first from sohu may lack "220 sohu": it then reads once more.            *)
Read(n) ==
  LET c == stream[1].code IN
  /\ flag = Running
  /\ reads > 0
  /\ n <= Len(stream)
  /\ Step = "helo" => stream[n].last \/ n = Len(stream)
  /\ stream' = SubSeq(stream, n + 1, Len(stream))
  /\ \/ reads = 2 /\ reads' = 1 /\ UNCHANGED <<flag, pos>>
     \/ Step = "quit" /\ End(Sent)
     \/ Step # "quit" /\ Good(Step, c) /\ Advance
     \/ Step # "quit" /\ ~Good(Step, c) /\ End(Failure(Step, c))
  /\ misread' = (misread \/ (Step = "text" /\ c = "354"))
  /\ UNCHANGED <<box, sent, server, tries, lost>>

(* Fault: the client waits for the answer to QUIT. *)
ReadNothingWait ==
  /\ flag = Running
  /\ reads > 0
  /\ stream = <<>>
  /\ Step # "quit"
  /\ End(IF Step \in AuthSteps THEN HardFail ELSE SoftFail)
  /\ lost' = IF Step = "text" THEN lost + 1 ELSE lost
  /\ UNCHANGED <<box, sent, stream, server, tries, misread>>

(* Nothing comes in time, or the connection is closed. *)
ReadNothing ==
  /\ flag = Running
  /\ reads > 0
  /\ stream = <<>>
  /\ End(CASE Step = "quit" -> Sent
           [] Step \in AuthSteps -> HardFail
           [] OTHER -> SoftFail)
  /\ lost' = IF Step = "text" THEN lost + 1 ELSE lost
  /\ UNCHANGED <<box, sent, stream, server, tries, misread>>

(* Fault: a mail that was sent is tried again. *)
RetryAll ==
  /\ flag \in {Sent, SoftFail}
  /\ sent = <<>> \/ ~open
  /\ tries < MaxTries
  /\ tries' = tries + 1
  /\ flag' = Running /\ pos' = 0 /\ reads' = 0
  /\ sent' = <<>> /\ stream' = <<>>
  /\ open' = FALSE /\ expects' = 0 /\ took' = FALSE
  /\ UNCHANGED <<box, copies, lost, misread>>

(* A mail in status 4 is given to another thread.  The old session's server *)
(* shares nothing with the new one's: it is let finish first.               *)
Retry ==
  /\ flag = SoftFail
  /\ sent = <<>> \/ ~open
  /\ tries < MaxTries
  /\ tries' = tries + 1
  /\ flag' = Running /\ pos' = 0 /\ reads' = 0
  /\ sent' = <<>> /\ stream' = <<>>
  /\ open' = FALSE /\ expects' = 0 /\ took' = FALSE
  /\ UNCHANGED <<box, copies, lost, misread>>

-----------------------------------------------------------------------------
(* The server *)

Yes(s) ==
  CASE s \in {"auth1", "auth2"} -> "334"
    [] s = "auth3" -> "235"
    [] s = "data" -> "354"
    [] OTHER -> "2xx"

Answer(c, n) == [i \in 1 .. n |-> [code |-> c, last |-> i = n]]

LinesOf(s) == IF s \in ManyLines THEN 1 .. MaxLines ELSE {1}

(* An answer that arrives at a client that has gone is of no account. *)
Answers(c, n) == stream' = IF flag = Running THEN stream \o Answer(c, n) ELSE stream

Greet(c, n) ==
  /\ open
  /\ expects = 1
  /\ n \in LinesOf("greet")
  /\ Answers(c, n)
  /\ expects' = 2
  /\ UNCHANGED <<box, flag, pos, reads, sent, open, took, tries, copies, lost,
                 misread>>

(* The next command in its place: yes or no; out of place: no. *)
Reply(c, n) ==
  LET s == Head(sent) IN
  /\ open
  /\ expects > 1 /\ sent # <<>>
  /\ n \in LinesOf(s)
  /\ sent' = Tail(sent)
  /\ Answers(c, n)
  /\ \/ /\ Script(box)[expects] = s
        /\ c = Yes(s)
        /\ expects' = IF s = "quit" THEN expects ELSE expects + 1
        /\ took' = (took \/ s = "text")
        /\ copies' = IF s = "text" THEN copies + 1 ELSE copies
     \/ /\ c \in (IF s = "text" THEN {"4xx", "452", "5xx"} ELSE {"4xx", "5xx"})
        /\ UNCHANGED <<expects, took, copies>>
  /\ UNCHANGED <<box, flag, pos, reads, open, tries, lost, misread>>

(* The server, or the network, drops the connection. *)
Drop ==
  /\ open
  /\ open' = FALSE
  /\ UNCHANGED <<box, flag, pos, reads, sent, stream, expects, took, tries, copies,
                 lost, misread>>

-----------------------------------------------------------------------------
Client ==
  \/ Connect \/ Write \/ ReadNothing \/ Retry
  \/ \E n \in 1 .. Len(stream) : Read(n)

Server ==
  \/ \E c \in {"2xx", "4xx", "5xx"}, n \in 1 .. MaxLines : Greet(c, n)
  \/ \E c \in Codes, n \in 1 .. MaxLines : Reply(c, n)
  \/ Drop

Next == Client \/ Server

(* Every wait of the client has a timeout.  Nothing is assumed of a server. *)
Spec == Init /\ [][Next]_vars /\ WF_vars(Client)

-----------------------------------------------------------------------------
(* Properties *)

(* Every variable has its type; an attempt has one of four states.          *)
TypeOK ==
  /\ box \in Boxes
  /\ flag \in {Running, Sent, SoftFail, HardFail}
  /\ pos \in 0 .. Len(Script(box))
  /\ reads \in 0 .. 2
  /\ \A i \in 1 .. Len(sent) : sent[i] \in Steps
  /\ \A i \in 1 .. Len(stream) : stream[i] \in Line
  /\ open \in BOOLEAN
  /\ expects \in 0 .. Len(Script(box))
  /\ took \in BOOLEAN
  /\ tries \in 1 .. MaxTries
  /\ copies \in 0 .. MaxTries
  /\ lost \in 0 .. MaxTries
  /\ misread \in BOOLEAN

TextPending == \E i \in 1 .. Len(sent) : sent[i] = "text"

(* A mail counted as sent was taken by its server, although answers of      *)
(* several lines can be read as answers to later commands.                  *)
SentIsTaken == flag = Sent => took

(* A mail that fails for good, and is reported as a bounce, was not taken   *)
(* by its server in any attempt, and will not be, but for one copy for each *)
(* attempt that got no answer to the text, and for the present one if a     *)
(* line left over of the answer to DATA was read as the answer to the text. *)
HardIsRefused ==
  flag = HardFail =>
    copies + (IF TextPending THEN 1 ELSE 0) <= lost + (IF misread THEN 1 ELSE 0)

(* The text is only sent to a server that has asked for it: client and      *)
(* server agree on where they are again at DATA.                            *)
TextInStep == TextPending => Script(box)[expects] = "text"

(* A recipient gets a second copy only after a session that ended without   *)
(* an answer to the text.                                                   *)
CopiesExplained == copies <= lost + 1

(* Every session ends, whatever the server does: no thread of the pool is   *)
(* lost to a silent server, as each wait is bounded (SelectSocket2).        *)
SessionEnds == []<>(flag # Running)
=============================================================================
