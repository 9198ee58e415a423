------------------------------ MODULE Recover ------------------------------
(***************************************************************************)
(* What survives a crash of the dispatcher (service/maillist).  The side   *)
(* side hands a task over as a file; the dispatcher keeps the file until   *)
(* the task is finished or stopped, and logs every report of the engines.  *)
(* Started with -r it rebuilds its lists from the files, and the status of *)
(* every mailbox from the log.                                             *)
(*                                                                         *)
(* A crash may come between any two steps here.  The lists, the round      *)
(* robin and the locks are those of MailList; here a task is one list.     *)
(*                                                                         *)
(* The log only grows, and the replay goes through it line by line; so the *)
(* log is kept as what its replay leads to (logged).                       *)
(***************************************************************************)
EXTENDS Integers, Sequences, FiniteSets, MailStatus

CONSTANTS
  Tasks,       \* task ids
  Size,        \* Size[t]: number of mailboxes in the file of t
  RoundNum,    \* CONFIGURE.nRoundNum
  Sessions,    \* the sessions that answer requests for mailboxes
  Reporters,   \* the sessions that receive reports
  Kinds,       \* bound: what engines report: <<letter, text>>
  MaxHeld,     \* bound: results engines hold at a time
  MaxBatch,    \* bound: reports in a package
  MayStop,     \* bound: tasks the user stops
  MaxTries,    \* attempts of the side side to hand over a file (100)
  MaxCrashes   \* bound: crashes

(* What is in the directory of task files: nothing, a file that does not    *)
(* come to the template, or the template and the first n mailboxes.         *)
NoFile == -2
Stub   == -1

NoTask == "none"

(* nRound after a STOP request *)
Ended == 1000

ASSUME RecoverAssumption ==
  /\ Size \in [Tasks -> Nat]
  /\ RoundNum \in 1 .. 999
  /\ NoTask \notin Tasks
  /\ MaxHeld \in Nat /\ MaxBatch \in Nat /\ MaxTries \in Nat /\ MaxCrashes \in Nat
  /\ MayStop \subseteq Tasks
  /\ Kinds \subseteq Letters \X Texts

Boxes(t) == 1 .. Size[t]

VARIABLES
  file,      \* the task files: NoFile, Stub, 0 .. Size[t]
  tmp,       \* tasks with a file "<name>.tmp"
  bak,       \* tasks whose file was moved to sTaskBakDir
  logged,    \* what the replay of the log leads to
  up,        \* the dispatcher runs
  queue,     \* tasks in its queue
  list,      \* number of mailboxes in the list
  finish,    \* why tFinishTime is set, if it is
  round, pos,\* nRound, nNowPos
  book,      \* status bytes, and nCount of the list
  ses,       \* the sessions that answer requests for mailboxes
  recv,      \* the session that receives the file
  rep,       \* the sessions that receive reports
  stopping,  \* the session of the STOP request
  side,      \* the side side: where it is with the file
  tries,     \* nFail
  failed,    \* nSuccess was set to 0
  out,       \* copies of a mail at engines
  results,   \* <<t, i, k>>: results engines hold, not answered
  crashes,   \* bound: number of crashes
  gave,      \* history: mailboxes handed out
  acked,     \* history: last result that was answered
  hurt,      \* history: results the log cannot give back as they were
  torn,      \* history: tasks taken up from a file that is not whole
  unmoved    \* history: tasks that are over and whose file could not be moved

diskVars == <<file, tmp, bak, logged>>
listVars == <<queue, list, finish, round, pos, book, ses>>
sideVars == <<side, tries, failed>>
engVars  == <<out, results>>
histVars == <<gave, acked, hurt, torn, unmoved>>
vars == <<diskVars, up, listVars, recv, rep, stopping, sideVars, engVars, crashes,
          histVars>>

(* The status bytes, by how much nCount went down, and for which mailboxes  *)
Blank(t) == [stat |-> [i \in Boxes(t) |-> "new"], done |-> 0, won |-> {}]

Idle == [pc |-> "idle", task |-> NoTask, next |-> 0]

Quiet == [pc |-> "idle", batch |-> <<>>, todo |-> <<>>, line |-> <<>>]

Init ==
  /\ file = [t \in Tasks |-> NoFile]
  /\ tmp = {} /\ bak = {}
  /\ logged = [t \in Tasks |-> Blank(t)]
  /\ up = TRUE
  /\ queue = {}
  /\ list = [t \in Tasks |-> 0]
  /\ finish = [t \in Tasks |-> "no"]
  /\ round = [t \in Tasks |-> 0] /\ pos = [t \in Tasks |-> 0]
  /\ book = [t \in Tasks |-> Blank(t)]
  /\ ses = [s \in Sessions |-> Idle]
  /\ recv = [t \in Tasks |-> "idle"]
  /\ rep = [p \in Reporters |-> Quiet]
  /\ stopping = [t \in Tasks |-> "no"]
  /\ side = [t \in Tasks |-> "send"]
  /\ tries = [t \in Tasks |-> 0]
  /\ failed = [t \in Tasks |-> FALSE]
  /\ out = [t \in Tasks |-> [i \in Boxes(t) |-> 0]]
  /\ results = {}
  /\ crashes = 0
  /\ gave = {}
  /\ acked = [t \in Tasks |-> [i \in Boxes(t) |-> "new"]]
  /\ hurt = {}
  /\ torn = {}
  /\ unmoved = {}

(* pLockRWTask can be taken for writing. *)
NoReader ==
  /\ \A s \in Sessions : ses[s].pc = "idle"
  /\ \A p \in Reporters : rep[p].pc # "batch"
  /\ \A t \in Tasks : stopping[t] \in {"no", "told"}

-----------------------------------------------------------------------------
(* The hand-over of the task file: the side side tries again and again, the *)
(* dispatcher answers GO, HH (known), or something else.                    *)

(* The side side is through with the file; nFail and nSuccess are gone. *)
Through(t, how) ==
  /\ side' = [side EXCEPT ![t] = how]
  /\ tries' = [tries EXCEPT ![t] = 0]
  /\ failed' = [failed EXCEPT ![t] = FALSE]

(* One more failure; nSuccess stays as it is if no connection was made. *)
NotYet(t, connected) ==
  IF tries[t] + 1 < MaxTries
  THEN /\ side' = [side EXCEPT ![t] = "send"]
       /\ tries' = [tries EXCEPT ![t] = @ + 1]
       /\ failed' = [failed EXCEPT ![t] = @ \/ connected]
  ELSE Through(t, "gaveup")

(* The dispatcher is down, or the transfer is not finished (DD). *)
Refused(t) ==
  /\ side[t] = "send"
  /\ ~up \/ t \in tmp
  /\ NotYet(t, up)
  /\ UNCHANGED <<diskVars, up, listVars, recv, rep, stopping, engVars, crashes, histVars>>

(* HH: the file, or its copy in sTaskBakDir, exists. *)
Known(t) ==
  /\ side[t] = "send"
  /\ up /\ t \notin tmp
  /\ file[t] # NoFile \/ t \in bak
  /\ Through(t, "done")
  /\ UNCHANGED <<diskVars, up, listVars, recv, rep, stopping, engVars, crashes, histVars>>

(* GO: the file "<name>.tmp" says that the transfer is under way. *)
Go(t) ==
  /\ side[t] = "send"
  /\ up /\ t \notin tmp
  /\ file[t] = NoFile /\ t \notin bak
  /\ tmp' = tmp \cup {t}
  /\ recv' = [recv EXCEPT ![t] = "go"]
  /\ side' = [side EXCEPT ![t] = "wait"]
  /\ UNCHANGED <<file, bak, logged, up, listVars, rep, stopping, tries, failed, engVars,
                 crashes, histVars>>

(* The file is written as the packages come, ... *)
Receive(t) ==
  /\ recv[t] = "go"
  /\ file[t] < Size[t]
  /\ file' = [file EXCEPT ![t] = @ + 1]
  /\ UNCHANGED <<tmp, bak, logged, up, listVars, recv, rep, stopping, sideVars, engVars,
                 crashes, histVars>>

(* Fault: the file stays. *)
BrokenKept(t) ==
  /\ recv[t] = "go"
  /\ file[t] < Size[t]
  /\ tmp' = tmp \ {t}
  /\ recv' = [recv EXCEPT ![t] = "idle"]
  /\ IF side[t] = "wait" THEN NotYet(t, TRUE) ELSE UNCHANGED sideVars
  /\ UNCHANGED <<file, bak, logged, up, listVars, rep, stopping, engVars, crashes,
                 histVars>>

(* ... and removed when the connection breaks. *)
Broken(t) ==
  /\ recv[t] = "go"
  /\ file[t] < Size[t]
  /\ tmp' = tmp \ {t}
  /\ file' = [file EXCEPT ![t] = NoFile]
  /\ recv' = [recv EXCEPT ![t] = "idle"]
  /\ IF side[t] = "wait" THEN NotYet(t, TRUE) ELSE UNCHANGED sideVars
  /\ UNCHANGED <<bak, logged, up, listVars, rep, stopping, engVars, crashes, histVars>>

(* All of it is there: the .tmp file goes, and the task file is read. *)
Received(t) ==
  /\ recv[t] = "go"
  /\ file[t] = Size[t]
  /\ tmp' = tmp \ {t}
  /\ recv' = [recv EXCEPT ![t] = "read"]
  /\ UNCHANGED <<file, bak, logged, up, listVars, rep, stopping, sideVars, engVars,
                 crashes, histVars>>

(* AddTaskQueue, and the answer OK.  The side side takes it for a success   *)
(* only if no attempt failed before: then it asks once more.                *)
AddTask(t) ==
  /\ recv[t] = "read"
  /\ NoReader
  /\ queue' = queue \cup {t}
  /\ list' = [list EXCEPT ![t] = file[t]]
  /\ recv' = [recv EXCEPT ![t] = "idle"]
  /\ IF side[t] # "wait" THEN UNCHANGED sideVars
     ELSE IF failed[t] THEN NotYet(t, TRUE)
     ELSE Through(t, "done")
  /\ UNCHANGED <<diskVars, up, finish, round, pos, book, ses, rep, stopping, engVars,
                 crashes, histVars>>

(* The side side waits 5 s for the answer. *)
NoAnswer(t) ==
  /\ side[t] = "wait"
  /\ NotYet(t, TRUE)
  /\ UNCHANGED <<diskVars, up, listVars, recv, rep, stopping, engVars, crashes, histVars>>

-----------------------------------------------------------------------------
(* The lists *)

(* nCount *)
Remain(t) == list[t] - book[t].done

Candidates(t) ==
  {i \in Boxes(t) : i <= list[t] /\ i > pos[t] /\ book[t].stat[i] # "success"}

(* The list has mailboxes to hand out. *)
Open(t) == Remain(t) # 0 /\ round[t] < RoundNum

Locked(t) == \E s \in Sessions : ses[s].pc \in {"give", "wrap"} /\ ses[s].task = t

(* AnswerMailboxRequestWithLevel: the task a session has chosen is running. *)
(* (If nothing is left to hand out the session changes nothing.)            *)
Ask(s, t) ==
  /\ ses[s].pc = "idle"
  /\ t \in queue /\ finish[t] = "no"
  /\ Open(t)
  /\ ses' = [ses EXCEPT ![s] = [pc |-> "asked", task |-> t, next |-> 0]]
  /\ UNCHANGED <<diskVars, up, queue, list, finish, round, pos, book, recv, rep, stopping,
                 sideVars, engVars, crashes, histVars>>

(* It has the lock of the list and looks for a mailbox, or for the end.     *)
(* tFinishTime is not tested again.                                         *)
Look(s) ==
  LET t == ses[s].task IN
  /\ ses[s].pc = "asked"
  /\ ~Locked(t)
  /\ Open(t)
  /\ \/ \E i \in Candidates(t) :
          /\ \A j \in Candidates(t) : i <= j
          /\ ses' = [ses EXCEPT ![s] = [pc |-> "give", task |-> t, next |-> i]]
     \/ /\ Candidates(t) = {}
        /\ ses' = [ses EXCEPT ![s] = [pc |-> "wrap", task |-> t, next |-> round[t]]]
  /\ UNCHANGED <<diskVars, up, queue, list, finish, round, pos, book, recv, rep, stopping,
                 sideVars, engVars, crashes, histVars>>

(* The mailbox goes into the answer; the task may be stopped by now. *)
HandOut(s) ==
  LET t == ses[s].task
      i == ses[s].next
  IN
  /\ ses[s].pc = "give"
  /\ pos' = [pos EXCEPT ![t] = i]
  /\ out' = [out EXCEPT ![t][i] = @ + 1]
  /\ gave' = gave \cup {<<t, i>>}
  /\ ses' = [ses EXCEPT ![s] = [pc |-> "asked", task |-> t, next |-> 0]]
  /\ UNCHANGED <<diskVars, up, queue, list, finish, round, book, recv, rep, stopping,
                 sideVars, results, crashes, acked, hurt, torn, unmoved>>

(* ... and at the end of the list.  The mark of a STOP request is written   *)
(* over if it came in between.                                              *)
NextRound(s) ==
  LET t == ses[s].task IN
  /\ ses[s].pc = "wrap"
  /\ pos' = [pos EXCEPT ![t] = 0]
  /\ round' = [round EXCEPT ![t] = ses[s].next + 1]
  /\ ses' = [ses EXCEPT ![s] = Idle]
  /\ UNCHANGED <<diskVars, up, queue, list, finish, book, recv, rep, stopping, sideVars,
                 engVars, crashes, histVars>>

(* The answer is sent. *)
EndSession(s) ==
  /\ ses[s].pc = "asked"
  /\ ses' = [ses EXCEPT ![s] = Idle]
  /\ UNCHANGED <<diskVars, up, queue, list, finish, round, pos, book, recv, rep, stopping,
                 sideVars, engVars, crashes, histVars>>

(* The file of a task that is over is moved.  If that fails, it stays where *)
(* it is; a warning is logged, and nothing else is done about it.           *)
MoveFile(t) ==
  \/ /\ bak' = bak \cup {t}
     /\ file' = [file EXCEPT ![t] = NoFile]
     /\ unmoved' = unmoved \ {t}
  \/ /\ unmoved' = unmoved \cup {t}
     /\ UNCHANGED <<bak, file>>

(* The main thread finds the task finished. *)
Finish(t) ==
  /\ t \in queue /\ finish[t] = "no"
  /\ NoReader
  /\ ~Open(t)
  /\ finish' = [finish EXCEPT ![t] = "self"]
  /\ MoveFile(t)
  /\ UNCHANGED <<tmp, logged, up, queue, list, round, pos, book, ses, recv, rep, stopping,
                 sideVars, engVars, crashes, gave, acked, hurt, torn>>

(* nTaskRemoveTime after that the task leaves the queue and is freed. *)
Remove(t) ==
  /\ t \in queue /\ finish[t] # "no"
  /\ NoReader
  /\ queue' = queue \ {t}
  /\ list' = [list EXCEPT ![t] = 0]
  /\ finish' = [finish EXCEPT ![t] = "no"]
  /\ round' = [round EXCEPT ![t] = 0]
  /\ pos' = [pos EXCEPT ![t] = 0]
  /\ book' = [book EXCEPT ![t] = Blank(t)]
  /\ UNCHANGED <<diskVars, up, ses, recv, rep, stopping, sideVars, engVars, crashes,
                 histVars>>

(* The session of a STOP request: tFinishTime is set and nRound ends, ... *)
StopTask(t) ==
  /\ t \in MayStop
  /\ t \in queue /\ finish[t] = "no"
  /\ finish' = [finish EXCEPT ![t] = "stop"]
  /\ round' = [round EXCEPT ![t] = Ended]
  /\ stopping' = [stopping EXCEPT ![t] = "marked"]
  /\ UNCHANGED <<diskVars, up, queue, list, pos, book, ses, recv, rep, sideVars, engVars,
                 crashes, histVars>>

(* ... the file is moved, or not, ... *)
StopMove(t) ==
  /\ stopping[t] = "marked"
  /\ stopping' = [stopping EXCEPT ![t] = "moved"]
  /\ MoveFile(t)
  /\ UNCHANGED <<tmp, logged, up, listVars, recv, rep, sideVars, engVars, crashes, gave,
                 acked, hurt, torn>>

(* Fault: the answer does not wait for the file. *)
StopToldEarly(t) ==
  /\ stopping[t] = "marked"
  /\ stopping' = [stopping EXCEPT ![t] = "told"]
  /\ UNCHANGED <<diskVars, up, listVars, recv, rep, sideVars, engVars, crashes, histVars>>

(* ... and then the answer is sent, which says 200 in either case. *)
StopTold(t) ==
  /\ stopping[t] = "moved"
  /\ stopping' = [stopping EXCEPT ![t] = "told"]
  /\ UNCHANGED <<diskVars, up, listVars, recv, rep, sideVars, engVars, crashes, histVars>>

-----------------------------------------------------------------------------
(* Reports *)

(* An engine has a result for a mail it got. *)
Deliver(t, i, k) ==
  /\ out[t][i] > 0
  /\ <<t, i, k>> \notin results
  /\ Cardinality(results) < MaxHeld
  /\ out' = [out EXCEPT ![t][i] = @ - 1]
  /\ results' = results \cup {<<t, i, k>>}
  /\ UNCHANGED <<diskVars, up, listVars, recv, rep, stopping, sideVars, crashes, histVars>>

InBatch(p) == {rep[p].batch[j] : j \in 1 .. Len(rep[p].batch)}

Boxed(R) == {<<r[1], r[2]>> : r \in R}

(* A package of reports: results of an engine, in the order of its map.     *)
(* Two sessions that have reports about the same mailbox at a time change   *)
(* its status in one order and may log them in the other.                   *)
Package(p, B) ==
  LET now == {B[j] : j \in 1 .. Len(B)}
      others == UNION {InBatch(q) : q \in Reporters \ {p}}
  IN
  /\ up
  /\ rep[p].pc = "idle"
  /\ now \cap others = {}
  /\ rep' = [rep EXCEPT ![p] = [pc |-> "batch", batch |-> B, todo |-> B, line |-> <<>>]]
  /\ hurt' = hurt \cup (Boxed(now) \cap Boxed(others))
  /\ UNCHANGED <<diskVars, up, listVars, recv, stopping, sideVars, engVars, crashes, gave,
                 acked, torn, unmoved>>

(* A new status: ChangeMailboxStatWithLevel *)
Changed(b, i, new) ==
  [stat |-> [b.stat EXCEPT ![i] = new],
   done |-> b.done + One(new = "success"),
   won  |-> IF new = "success" THEN b.won \cup {i} ELSE b.won]

(* One report: it goes into the line of the log, and changes the status if  *)
(* the task is found; if not, the line says so: "[NOT FIND]".               *)
Report(p) ==
  LET r == rep[p].todo[1]
      found == r[1] \in queue
      new == StatusOf(r[3])
  IN
  /\ rep[p].pc = "batch"
  /\ rep[p].todo # <<>>
  /\ found => ~Locked(r[1])
  /\ rep' = [rep EXCEPT ![p].todo = Tail(@),
                        ![p].line = Append(@, [what |-> r, found |-> found])]
  /\ book' = IF found THEN [book EXCEPT ![r[1]] = Changed(@, r[2], new)] ELSE book
  /\ UNCHANGED <<diskVars, up, queue, list, finish, round, pos, ses, recv, stopping,
                 sideVars, engVars, crashes, histVars>>

(* The replay of a line takes the letter, and of the text what it finds; it *)
(* takes "Domain not exist" for an unknown user without a code, and does    *)
(* not read a text with a bracket to its end.                               *)
LetterStat(letter) ==
  CASE letter = "s" -> "success" [] letter = "d" -> "delay" [] letter = "f" -> "fail"

ReplayStat(k) ==
  CASE k[2] = "nouser5" -> "notfound"
    [] k[2] = "step1"   -> "dns"
    [] k[2] = "spam"    -> "spam"
    [] OTHER            -> LetterStat(k[1])

(* ... and ends at "[NOT FIND]", or at a bracket that is not a letter's. *)
Reads(line, j) ==
  \A h \in 1 .. j - 1 : line[h].found /\ line[h].what[3][2] # "bracket"

ReplayOne(l, r) == [l EXCEPT ![r[1]] = Changed(@, r[2], ReplayStat(r[3]))]

Replayed(l, line) ==
  LET n == Cardinality({j \in 1 .. Len(line) : Reads(line, j)})
      after[j \in 0 .. n] ==
        IF j = 0 THEN l ELSE ReplayOne(after[j - 1], line[j].what)
  IN after[n]

Unread(line) ==
  {line[j].what : j \in {h \in 1 .. Len(line) :
     ~Reads(line, h) \/ ReplayStat(line[h].what[3]) # StatusOf(line[h].what[3])}}

(* WriteLog, with fflush *)
WriteLine(p) ==
  /\ logged' = Replayed(logged, rep[p].line)
  /\ hurt' = hurt \cup Boxed(Unread(rep[p].line))
  /\ UNCHANGED <<file, tmp, bak, up, listVars, recv, stopping, sideVars, engVars, crashes,
                 gave, acked, torn, unmoved>>

(* The line is long enough. *)
LogPart(p) ==
  /\ rep[p].pc = "batch"
  /\ rep[p].line # <<>> /\ rep[p].todo # <<>>
  /\ rep' = [rep EXCEPT ![p].line = <<>>]
  /\ WriteLine(p)

(* The package is at its end; the lock is released. *)
LogRest(p) ==
  /\ rep[p].pc = "batch"
  /\ rep[p].todo = <<>>
  /\ rep' = [rep EXCEPT ![p].pc = "answer", ![p].line = <<>>]
  /\ WriteLine(p)

(* Fault: the answer is sent before the log is written. *)
AnswerEarly(p) ==
  LET B == rep[p].batch
      last(t, i) == {j \in 1 .. Len(B) : B[j][1] = t /\ B[j][2] = i}
  IN
  /\ rep[p].pc = "batch" /\ rep[p].todo = <<>> /\ B # <<>>
  /\ rep' = [rep EXCEPT ![p].batch = <<>>]
  /\ results' = results \ InBatch(p)
  /\ acked' = [t \in Tasks |-> [i \in Boxes(t) |->
       IF last(t, i) = {} THEN acked[t][i]
       ELSE StatusOf(B[CHOOSE j \in last(t, i) : \A h \in last(t, i) : h <= j][3])]]
  /\ UNCHANGED <<diskVars, up, listVars, recv, stopping, sideVars, out, crashes, gave,
                 hurt, torn, unmoved>>

(* The engine drops the results that were answered. *)
Answer(p) ==
  LET B == rep[p].batch
      last(t, i) == {j \in 1 .. Len(B) : B[j][1] = t /\ B[j][2] = i}
  IN
  /\ rep[p].pc = "answer"
  /\ rep' = [rep EXCEPT ![p] = Quiet]
  /\ results' = results \ InBatch(p)
  /\ acked' = [t \in Tasks |-> [i \in Boxes(t) |->
       IF last(t, i) = {} THEN acked[t][i]
       ELSE StatusOf(B[CHOOSE j \in last(t, i) : \A h \in last(t, i) : h <= j][3])]]
  /\ UNCHANGED <<diskVars, up, listVars, recv, stopping, sideVars, out, crashes, gave,
                 hurt, torn, unmoved>>

-----------------------------------------------------------------------------
(* A crash, and the restart with -r *)

Crash ==
  /\ up
  /\ crashes < MaxCrashes
  /\ crashes' = crashes + 1
  /\ up' = FALSE
  /\ queue' = {}
  /\ list' = [t \in Tasks |-> 0]
  /\ finish' = [t \in Tasks |-> "no"]
  /\ round' = [t \in Tasks |-> 0]
  /\ pos' = [t \in Tasks |-> 0]
  /\ book' = [t \in Tasks |-> Blank(t)]
  /\ ses' = [s \in Sessions |-> Idle]
  /\ recv' = [t \in Tasks |-> "idle"]
  /\ rep' = [p \in Reporters |-> Quiet]
  /\ stopping' = [t \in Tasks |-> IF stopping[t] = "told" THEN "told" ELSE "no"]
  /\ UNCHANGED <<diskVars, sideVars, engVars, histVars>>

(* Fault: only failures are taken up again. *)
RecoveredFailures(t) ==
  LET over == {i \in Boxes(t) : logged[t].stat[i] # "fail"} IN
  [logged[t] EXCEPT !.done = Cardinality(over), !.won = over]

(* The replay of the log for a task in the queue *)
Recovered(t) == logged[t]

(* RunRecover: every file of the directory is read as a task file; those    *)
(* without a template are removed, the .tmp files with them.                *)
RunRecover ==
  LET read == {t \in Tasks : file[t] >= 0} IN
  /\ ~up
  /\ up' = TRUE
  /\ queue' = read
  /\ list' = [t \in Tasks |-> IF t \in read THEN file[t] ELSE 0]
  /\ book' = [t \in Tasks |-> IF t \in read THEN Recovered(t) ELSE Blank(t)]
  /\ file' = [t \in Tasks |-> IF t \in read THEN file[t] ELSE NoFile]
  /\ tmp' = {}
  /\ torn' = torn \cup {t \in read : file[t] < Size[t]}
  /\ UNCHANGED <<bak, logged, finish, round, pos, ses, recv, rep, stopping, sideVars,
                 engVars, crashes, gave, acked, hurt, unmoved>>

-----------------------------------------------------------------------------
(* The packages an engine may send *)
Packages ==
  {B \in UNION {[1 .. n -> results] : n \in 1 .. MaxBatch} :
     \A j, h \in DOMAIN B : j # h => B[j] # B[h]}

Handover(t) ==
  \/ Refused(t) \/ Known(t) \/ Go(t)
  \/ Receive(t) \/ Broken(t) \/ Received(t) \/ AddTask(t) \/ NoAnswer(t)

StopSession(t) == StopMove(t) \/ StopTold(t)

Reporting(p) == Report(p) \/ LogPart(p) \/ LogRest(p) \/ Answer(p)

Answering(s) ==
  (\E t \in Tasks : Ask(s, t)) \/ Look(s) \/ HandOut(s) \/ NextRound(s) \/ EndSession(s)

Next ==
  \/ \E t \in Tasks : \/ Handover(t) \/ Finish(t) \/ Remove(t)
                      \/ StopTask(t) \/ StopSession(t)
  \/ \E s \in Sessions : Answering(s)
  \/ \E t \in Tasks : \E i \in Boxes(t), k \in Kinds : Deliver(t, i, k)
  \/ \E p \in Reporters : Reporting(p) \/ \E B \in Packages : Package(p, B)
  \/ Crash
  \/ RunRecover

Spec == Init /\ [][Next]_vars

-----------------------------------------------------------------------------
(* Properties *)

(* Every variable has its type; in particular a list is never longer than   *)
(* its file says, and what is on its way is known to some actor.            *)
TypeOK ==
  /\ \A t \in Tasks : file[t] \in NoFile .. Size[t] /\ list[t] \in 0 .. Size[t]
  /\ tmp \cup bak \cup queue \cup torn \cup unmoved \subseteq Tasks
  /\ up \in BOOLEAN
  /\ finish \in [Tasks -> {"no", "self", "stop"}]
  /\ round \in [Tasks -> 0 .. RoundNum \cup {Ended}]
  /\ ses \in [Sessions -> [pc : {"idle", "asked", "give", "wrap"},
                            task : Tasks \cup {NoTask}, next : Nat]]
  /\ \A t \in Tasks : pos[t] \in 0 .. list[t]
  /\ \A t \in Tasks : {book[t].done, logged[t].done} \subseteq Nat
  /\ \A t \in Tasks : \A b \in {book[t].stat, logged[t].stat, acked[t]} :
       b \in [Boxes(t) -> Status]
  /\ recv \in [Tasks -> {"idle", "go", "read"}]
  /\ stopping \in [Tasks -> {"no", "marked", "moved", "told"}]
  /\ side \in [Tasks -> {"send", "wait", "done", "gaveup"}]
  /\ tries \in [Tasks -> 0 .. MaxTries]
  /\ \A r \in results : r[1] \in Tasks /\ r[2] \in Boxes(r[1]) /\ r[3] \in Kinds
  /\ crashes \in 0 .. MaxCrashes

(* A result that was answered is not forgotten, wherever the dispatcher     *)
(* crashes: the status is that of the last answered report, unless a later  *)
(* one is on its way, or the log does not give the result back.             *)
AnsweredKept ==
  \A t \in queue : \A i \in 1 .. list[t] :
    \/ book[t].stat[i] = acked[t][i]
    \/ <<t, i>> \in Boxed(results)
    \/ <<t, i>> \in hurt

(* When the main thread finishes a task, all of its mailboxes were handed   *)
(* out, before or after a crash, unless the success of a mailbox, reported  *)
(* or replayed again, took nCount down more than once.                      *)
FinishedTried ==
  \A t \in queue :
    finish[t] = "self" /\ book[t].done = Cardinality(book[t].won) =>
      \A i \in 1 .. list[t] : <<t, i>> \in gave

(* A task the side side was told is known is whole: in the directory, or    *)
(* moved when it was finished.  The exception is a file whose transfer a    *)
(* crash cut: it is read as it is, and the next attempt is answered HH.     *)
KnownIsWhole ==
  \A t \in Tasks : up /\ side[t] = "done" =>
    t \in bak \/ file[t] = Size[t] \/ t \in torn

(* Once a STOP request is answered, no session takes the task up any more,  *)
(* after a crash neither, and a mailbox is handed out only by a session     *)
(* that had found the task running before it was stopped.  The exception is *)
(* a task whose file could not be moved, which the answer does not say.     *)
StopIsKept ==
  [][\A t \in Tasks : stopping[t] = "told" /\ t \notin unmoved =>
       /\ \A s \in Sessions : ses'[s].task = t => ses[s].task = t
       /\ (\E i \in Boxes(t) : out'[t][i] > out[t][i]) =>
            \E s \in Sessions : ses[s].task = t]_vars
=============================================================================
