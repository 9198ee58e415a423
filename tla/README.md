# Verification of the edm mail delivery services

TLA+ models, model-checking runs and machine-checked proofs for the part of
this repository that decides which mail is sent, when, how often, and what is
reported about it: the web application that makes and hands over a task
(`webadmin`), the dispatcher (`service/maillist`) and the delivery engine
(`service/deliver_engine`).

## The system

| Component | State | Operations | Modelled in |
|---|---|---|---|
| Dispatcher: tasks and lists (`maillist_daemon7.c`, `maillist7.c`, `yxlist.c`) | queue of tasks; per task and domain a list of mailboxes with status bytes, cursor, round, counters; preferred tasks; water mode | new task, pause, restart, stop; hand out mailboxes; take results; finish and remove tasks | `MailList` |
| Dispatcher: stop notifications (`maillist_daemon7.c`) | `g_stop_tasks`, a table of recent stops | enter a stop; collect the pending ones in the next session of an engine; send them | `StopNotify` |
| Delivery engine (`deliverengine.cpp`, `requestmail.cpp`) | send list `m_map_mail` by key `seq_no`, results `m_map_mail_tmp`, template cache, connection | request mails, scan the list, ask for templates, start delivery threads, fetch results, report | `DeliverEngine` |
| Engine: SMTP session (`emlsender.cpp`) | one connection to a mail server | the steps of an SMTP session, with authentication for one domain; retry | `SmtpSession` |
| Engine: MX cache (`mxmgr.cpp`) | MX records by domain, with an expiry | look up, query DNS | planned |
| Engine: domain ability (`deliverengine.cpp`, `requestmail.cpp`) | counters per domain and period | how many mails to ask for | planned |
| Dispatcher: recovery (`maillist_daemon7.c`, `commuteother7.c`, `writelog.c`), with the side of the sender (`sideside`) | task files, their `.tmp` and moved copies, the log of reports | receive a task file, log reports, move the file at the end, rebuild the lists after a crash | `Recover` |
| Web application: task page (`mailing.task.add.js`, `mailing.task.common.js`, `TaskAction.java`) | fields, hidden fields and disabled controls of a form; task and plan tables | pick tags, files, campaign and send code; select recipients; save, send, change, copy | `TaskForm` |
| Web application: task life cycle (`TaskAction.java`, `AuditAction.java`, `TaskJob.java`, `Api.java`) | the task's row, its entry in `scanMap`, its scan file, the runnables of the executor | review, cancel, pause, restart, stop, delete, change; scan, queue, write, post, save; confirmations | `TaskLife` |
| Dispatcher: triger database | a database of triggered mails | retry triggered mails | planned |
| Delivery helper, label manager | bounded queues, thread pools, Berkeley DB | put, get, deactivate | planned |
| Cache database, SMTP receiver, bounce receiver, face side, log scanners, FTP interface, the other pages of the web applications, SQL | files, databases | request by request, batch or forms | not modelled |

A task is made on a page of the web application, stored as a row and marked by a
scan file.  A job of the application finds it, writes its recipients to a file
and posts that to the side side, which passes it on to the dispatcher; the
dispatcher's confirmations come back through the side side.

An engine opens a session with the dispatcher and sends requests without a
number: *ability* (asks for mailboxes), *check* (asks for a template), *result*
(a report).  The dispatcher runs a thread per session.  At the start of an
answer it may send a *stop* notification first.  In the engine, one main thread
goes round: request, scan, update, report; for each attempt it starts a detached
thread, which leaves its result in a second map under a lock.

What is hard here:

* answers are matched to requests by order alone, and the engine waits at most
  60 s for one;
* delivery threads, stop notifications, reports and key reuse touch the same
  entry in any order, and `ScanList` keeps its iterator while it waits for a
  template;
* the connection can break between a report and its answer, so that reports
  are repeated;
* in the dispatcher a STOP request writes `nRound` without the list's lock;
* a mail server answers in one or more lines, late or not at all, and the client
  takes whatever line it reads for the answer to its last command;
* the table of stops has a fixed size, and each stop is sent once;
* a task is finished by comparing counters that sessions and reports change;
* after a crash only task files and log lines are left, and the replay reads the
  lines less exactly than the sessions treated the reports;
* the web application's handlers, its job and the runnables of the executor save
  whole rows they have read earlier, and `synchronized (taskId)` locks an
  `Integer` object that handlers and job do not share;
* the task page keeps what the server needs in hidden fields and in disabled
  controls that many handlers change.

`PROJECT.json` lists these hazards at their lines, with the properties aimed at
them.

## Modules

### DeliverEngine

One step per handler of the main thread, from one wait for the dispatcher to the
next.  `pc` says where the main thread is: `MailListRequest` sends the request
for mails, `Response` takes the answer (`MakeMailList` enters one mail at a
time, `HandleNotify` a stop), `ScanSkip`, `ScanCached` and `ScanCheck` treat the
entry the iterator has reached, `CheckOk`, `CheckRetry` and `CheckFail` are the
outcomes of `CheckTemplate`, `UpdateList` fetches results, `SendReport`,
`SendReportFail`, `SkipReport`, `EraseReported` and `KeepReported` are the
report.  `Deliver` is the end of a delivery thread, `DispMails`, `DispTemplate`
and `DispResult` the dispatcher's answers, `Break` a broken connection, `Ripen`
and `TickReport` the passing of the two intervals.

The data is reduced to what outcomes depend on.  A mail is a *hand-out*: one
mailbox in one round of its task (`nRoundNum` is 2 by default), so that
"at most once" means once per hand-out.  A template is the task it belongs to.  The
outcome of an SMTP session is one choice: delivered, soft or hard failure.
`delivered` records that the engine saw the server's acceptance; a text that is
accepted while the answer is lost counts as a soft failure here, as it does in
the code.  Attempts are not bounded: `failtimes` goes on past `SoftLimit` (3), and
all counts above it are one value (`Counted`), since the code only asks whether
the count *is* 3.  A reconnection drops the requests the dispatcher has not read.

Variables after `breaks` are histories the properties use; no guard reads them.

### StopNotify

The table of stops: `StopTask`, `AnswerStop` and `EnterStop` are the three parts
of a STOP session (the last under the table's lock), `Collect` is
`make_stop_delivery_notify`, `Notify` and `NotifyFail` the sending.  `SlotFor`
is the search for a slot with its bounds as in the code.

`StopOnce` is the abstract specification: a task ends, and after that at most one
engine hears of it, once; a notification may name several tasks.  `StopNotify`
implements it with `ended` the tasks whose `tFinishTime` is set and `heard` the
notifications sent (`ImplementsOnce`, checked by TLC and proved).  This is what
`DeliverEngine` assumes of the stop notifications it receives.

### MailList

The queue and the lists.  A session that hands out mailboxes goes through
`Choose` (under `pLockTask`), and per domain `Ask`, `Lock`, `Loop`, `Give` or
`Wrap`; the steps between `Lock` and the end hold the list's lock, as `Report`
does.  `StopTask` and `StopList` take no such lock, and `Wrap` reads `nRound`
one step before it writes it, so that the race in the code is one in the model:
the number it writes can replace the mark a STOP request has just set.  `undone`
records the lists this has happened to, and `StopIsPrompt` excepts their tasks,
because a session that waits for the list's lock may then go on with them.
`MainPass` and `AddTask` need the write lock (`NoReader`).  Reports carry a
letter and a text, reduced to the phrases the dispatcher searches for;
`StatusOf` is the status they lead to (in `MailStatus`, with the counters, which
`Recover` shares).  A repeated report is what an engine
sends again after a missed answer.  `nSend` and the water-mode sums, which only feed
statistics, are left out.

### Recover

What is on disk and what a crash leaves of it.  The side side hands the task file
over: `Refused`, `Known` (HH) and `Go` are the answers of `ReadTaskFromJava`,
`Receive`, `Broken` and `Received` the transfer, `AddTask` the entry into the
queue with the answer OK, `NoAnswer` the end of the sender's patience.  After a
failed attempt the sender keeps `nSuccess` at 0 and asks once more even when it
is answered OK (`failed`).  A session that answers a request for mailboxes goes
through `Ask`, `Look`, `HandOut` or `NextRound`, and `EndSession`, as in `MailList`
but with one list per task: a STOP request may come between any two of them, and
what was chosen before is still handed out.  `Finish` and the STOP session (`StopTask`,
`StopMove`, `StopTold`) move the file (`MoveFile`); when that fails the code logs a
warning and goes on, to the answer 200 in the case of STOP, and `unmoved` records it.
A session that receives a package of
reports changes the status of one mailbox after the other (`Report`), writes the
log when a line is long (`LogPart`) and at the end (`LogRest`; `WriteLog` flushes
every line), and only then answers (`Answer`), upon which the engine forgets the
results.  `Crash` may come between any two of these steps; `RunRecover` reads
every file of the directory, removes what has no template (the `.tmp` files that
say "do not delete this file" too), and replays the log.  `Replayed` is what the
replay makes of a line: it stops at `[NOT FIND]` and at a bracket in a text, and
takes "Domain not exist" by its letter only.  Because the log only grows and is
replayed from its start, the model keeps its replay (`logged`) in place of its
text.  `RoundNum` is at least 1, as the configuration takes no other number
(`daemon_conf.c:241`).  The dispatcher is taken to be restarted with `-r`; a pause is not
on disk, so a paused task goes on after a restart.  `gave`, `acked`, `hurt`, `torn`
and `unmoved` are histories.

### TaskForm

One action per event handler of the page, or per answer of the server with the
callback that takes it; `drafted`, `getAjaxSum` and `confirmSend` send requests,
`selection`, `draftStored`, `taskStored` and `refused` end them.  At the server a
request to save takes two steps, since nothing keeps others out in between:
`checkTask` looks the name up, `Store` saves the row.  When the page gives up
waiting (`answerLost`) or leaves (`redirect`), the request goes on at the server
(`Abandon`, `late`) and ends whenever it does (`checkLate`, `lateStored`,
`lateRefused`), while the user opens the page and tries again; `raced` records the
names that two requests were about at one time.  One page at a time is open: a
second one replaces the token of the first, whose requests are then refused
(`cn/edm/utils/web/CSRF.java`).
`testSendCode` and its callers decide which controls are disabled (`off`), and
`Submitted` is what the form plugin then sends.  Tag lists arrive at any time
after the page is opened (`initTag`).  `loading()` and the dialog cover the page,
so the user acts on it only when it is uncovered; the keyboard, which a cover
does not stop, is not modelled.  A recipient file is named by what it holds.

### TaskLife

One task after it is stored.  A handler (`Operations`: from which status, which
mark in `scanMap`, which new status, what becomes of the scan file) takes the
steps `opRead`, `opMark`, `opSave`, `opFile`, or `opAsk` when the dispatcher has
the task.  `jobScan`, `jobApply`, `jobPut`, `jobSubmit` and `jobSkip` are a round of
`TaskJob`, `runRead` to `runSave` a runnable; `runFail`, `runRefused` and `crash`
are faults.  A look at the map and the put that follows are two steps (`jobApply` and
`jobPut`, `runCheck` and `runTake`).  The keys of `scanMap` are `Integer` objects:
runnables made from one entry, and the job at that entry, lock the same one
(`Locked`, `Held`); handlers, and the job when it makes an entry, lock another.
`opSave`, `runFail` and `runSave` write the copy of the row that was read before.

Such a design has windows in which the row, the map and the dispatcher part.  The
model notes when one was entered (`why`).  The map is no longer right
(`MapKept` is false) after a mark of a handler or the put of the job came *over* the
entry of a runnable at work, or after runnables of two entries looked at the map at
the same time (*split*).  The row is no longer right (`RowKept` is false) after a
handler saved a copy that was *stale* over a task handed over, after an answer was in
*doubt*, or after a runnable *failed* for a task handed over before.  *Unfiled* is a
task to be sent without a scan file.  These are conditions on the run so far, not
guards; each property excepts only the windows it depends on, and fails in the model
if one of them is no longer excepted.  `HandedIsShown` allows every status of a task at
the dispatcher, so that it does not depend on `taskCallback` never changing one.

Left out: periodical tasks; other tasks but for keeping the job from this one
(`jobSkip`); failures of the database (a save that throws after the dispatcher's
answer 200 turns a task that is sent into a draft, and one that throws in the `catch`
block leaves the entry PROCESSING for ever, `TaskJob.java:275-281`); the call of
the dispatcher that never returns (`Apis.get` sets no read timeout);
`TaskAction.clear`, which saves the whole row it has read with an unchanged status.

### SmtpSession

One mail, session after session while it fails softly.  The client follows
`Script`, the order of the commands in `Send2Domain` (for 139.com with the
dialogue of `SendAuth2DP`): `Connect`, then per step `Write` and `Read` or
`ReadNothing`.  `Good` and `Failure` are the tests of an answer: the first digit
of what was read, three digits during authentication, "452 filter blocked" after
the text.  The greeting is not tested, and for sohu.com may take two reads.  The
server is external: it answers each command in its place with yes or no, any
other with no, in one or more lines, and may disconnect or fall silent.  A line
is read whole: that `recv` may return part of one is left out, and so is the
limit of the buffer.  Any answer may have several lines, that to DATA too: the
client may then take a line left over of it for the answer to the text, which is no
success, and report a bounce of a mail that is taken (`misread`).  `copies` counts
what the server took over all attempts, `lost` the attempts that got no answer to the
text; `HardIsRefused` and `CopiesExplained` compare the two.
`DeliverEngine` sees a session as its result.

## Runs

| Run | Question | Result |
|---|---|---|
| `engine_safety` | two mails of two tasks, two threads, stops, one break | no double delivery, no loss, true results, idle stop marks stay |
| `engine_edge` | answers later than 60 s, read by later requests; `seq_no` meets a key in use; an over-limit task | the right template unless `CheckTemplate` gave up, true results until a key clashes, nothing lost but what `MakeMailList` drops |
| `engine_live` | fair scheduling, soft failures without limit, a bad template, a break | every usable mail is reported, unless its count has passed 3 and it fails softly for ever |
| `stop_table` | four stops, three slots, two engines, expiry, a lost message | announced once, best slot taken; implements `StopOnce`, so after the finish; a stop that is not pushed out, too old, lost or in the last slot reaches an engine |
| `list_rounds` | two sessions, two rounds, results of all groups, one repeated, pause, stop | every round covers the list once; stop is prompt; failure counters exact; `nCount` and `nSuccess` err to one side |
| `list_queue` | two tasks, two domains, one list of two mailboxes, successes reported, water mode, pause, removal | a task counts as finished only when each mailbox was handed out |
| `list_live` | three tasks, one preferred, two delayed for good, one paused and restarted | every task that may run is finished |
| `smtp_session` | answers of up to three lines to every command, silence, lost connections, three sessions | what counts as sent was taken; of what bounces no copy was taken but for answers lost or misread; the text is sent only when asked for; a second copy only after a lost answer; sessions end |
| `web_form` | a tag, a ready-made file, campaigns, plans; tasks of two names made, changed, copied, sent; late tag lists, failed selections, lost answers, requests that go on without a page | the stored task goes to the recipients that were selected, with the send code that was shown; no name is stored twice unless two requests for it overlapped |
| `web_task` | two users' operations, two runnables, one fault or restart | one runnable prepares the task at a time; it is handed over once, and shown so, outside the named windows |
| `web_live` | one operation, one fault | a task to be sent is handed over or taken out of sending, unless its scan file was lost |
| `recover` | a file of two mailboxes, a session that hands out, two reporting sessions, packages of two, a stop, failed moves, a crash anywhere, a retried transfer | answered results survive; finished means tried; what is "known" is whole; after an answered stop no session takes the task up, unless its file could not be moved |

`AtMostOnce` and `SendingIsPending` are checked in `engine_safety` only.  The
`TypeOK` of `MailList`, `SmtpSession`, `Recover`, `TaskForm` and `TaskLife`
documents the types; no run lists it, and what the proofs need of it is in their
own invariants (`Shape`, `Typed`).

### Disagreements between code and comments

These were met while modelling.  The models do what the code does, and the
properties except the cases.

* A stop mark ("stop: marked as deleted", `requestmail.cpp:224`) is overwritten
  by the result of a running attempt (`deliverengine.cpp:984`) and by a scan that
  was waiting for a template (`deliverengine.cpp:1450`): the mail is sent, or
  sent again.  `IdleStopIsFinal` states what is left.
* "A soft bounce is reported after 3 retries" (`requestmail.cpp:499`) is tested
  with `failtimes == 3`, which the count can pass between two reports; the mail is
  then retried until it ends in another way, and never reported if it does not
  (`Overshot`, the exception of `EventuallyTold`).
* The last slot of the table of stops is entered (`maillist_daemon7.c:1850`) but
  never read (1517): with the table full, that stop is answered "200 stop task
  successfully" and reaches no engine (`Dropped`).
* A task file that cannot be moved at a STOP is only a line of the log, and the answer
  is "200" all the same (`maillist_daemon7.c:1818-1838`): after a restart the task is
  sent again (`unmoved`, the exception of `StopIsKept`).
* `nCount`, "the number that remains" (`maillist7.c:2418`), is decremented again
  for a success that is reported again (3514), by a repeated report or by the
  replay of the log; the task may be finished with mailboxes never handed out
  (the exceptions of the two `FinishedTried`).
* After `CheckTemplate` gives up, a late template is stored for another task,
  although the log says "reconnect" (`gaveUp`); a double key replaces the old
  mail, although the log says the new one cannot be added (`clash`); a stop
  reaches one engine only (`AnnouncedOnce`).
* A file whose transfer a crash cut is taken for a task, and the next attempt is
  answered "accepted before" (`torn`): the rest of its mailboxes is never sent.
* The replay stops a line of the log at `[NOT FIND]` and at a bracket in a text
  (`maillist_daemon7.c:3485-3505`): later results of the line are lost and the
  mailboxes are sent again (`hurt`).
* A draft saved as periodical and then sent ("add: really send",
  `TaskAction.java:1239`) keeps `planId` and `planReferer` "None" (1494), which
  `Task.scan` leaves out (`Task.xml:308`): no job sends it.
* A task's name is to be unique (`TaskAction.java:1373` refuses one that is taken), but
  check and save (1511) are apart and the table has no unique key on it
  (`edm_v3_A001.sql:2158-2188`): two requests under way at one time store it twice
  (`raced`, the exception of `NamesUnique`).
* A line left over of the answer to DATA is read as the answer to the text: a mail that
  is taken is reported as a bounce (`misread`, the exception of `HardIsRefused`); so is
  one whose answer was lost and whose next attempt is refused.
* The mark of a cancel or pause is there to end the runnable (`TaskJob.java:305-314`),
  but the job's next round removes it (155): the runnable that looks after that hands
  the task over, although the user saw the cancel succeed.
* A task that was handed over can be shown as a draft, as waiting or as cancelled: a later
  runnable fails and saves its copy (`failed`), or a handler saves a copy it read before
  (`stale`).
* `Api.taskCallback` tests `info.equals(0)` with a `String` (`Api.java:195`, "the
  file exists and the operation succeeded"): no confirmation of the dispatcher
  changes a status, and a task it has paused stays "processing"
  (`infoEquals`).

Bounds.  Two mails of two tasks suffice for one entry to interfere with another
(template of the wrong task, key of the wrong mail); two threads for two
attempts on one key; one break lets any single report or answer get lost, and
the state after it is one the model reaches anyway.  There are more keys than mails, so that keys
come round only in `engine_edge`.
`SoftLimit` is the 3 of the code, and counts pass it in `engine_live`.  The table of
stops has three slots, two of them usable, for four stops: it fills, overflows
and expires.  In `MailList` two mailboxes make a list in which the cursor can be
before, between and after them, and two rounds have both a next and a last one;
`notfound` and `dns` stand for the statuses that count as failure and as delay.
In `Recover` one mailbox can be answered, logged or neither while the other is
elsewhere, and two packages can hold results of one mailbox; a success and a
failure whose text has a bracket are the two kinds the replay tells apart.  `MaxHeld` 3
results at engines fill both packages.  One
crash suffices, since what it leaves is what a second one finds; two attempts of
the sender are a first and a repeated one.  In `TaskForm` one tag, one file and
one campaign make every combination of the three that a handler tests, and limits
of two and one are reached; with a second tag, lists that differ in one tag are
outside the instance.  One request without a page (`Slots`) and the page's own are two
that overlap.  States with two stored tasks or such a request are checked, and
continued while all that is in them is plain (`Followed`): names and overlaps are what
is asked there.  In `TaskLife` two runnables are a pair that meets; a run is continued
while the row is kept, and after a disturbance of the map with one operation or one
fault (`Followed`), since the properties say nothing, or only this, of what comes
after.  In `SmtpSession` lines left over put
client and server out of step by up to two answers per command, and by more as
the steps go on; three tries are a copy taken, another one taken, and a refusal.
`MaxLag`, `MaxBreaks`, `MaxTicks`, `MaxFails`, `MaxAsk`, `MaxAgain`, `MaxHeld`,
`MaxLines`, `MaxTries`, `MaxWater`, `MaxBatch`, `MaxCrashes`, `MaxTasks`,
`MaxPlans`, `MaxOps` and `MaxFaults` bound counters only.  Symmetry is used for threads, sessions,
runnables, users and names, in runs without liveness.

`StopNotify` may stop: when all tasks are stopped and told there is nothing left
to do, hence `CHECK_DEADLOCK FALSE`; so may `SmtpSession`, when the mail has its
result, and `Recover`, when the task is over or the sender gave up.  Everywhere else deadlock is checked.

Fairness.  `DeliverEngine`: the main thread and the delivery threads are
scheduled, clocks advance, and the dispatcher answers (`WF` each); breaks and
stops are not fair.  `StopNotify`: engines keep opening sessions.  `MailList`:
threads are scheduled; a session that wants a list's lock gets it (`SF`, a mutex
others take and release); engines ask for every domain they serve again and
again (`SF` on `Asked`), and an answer ends; the main thread gets the write lock although sessions
come and go, since `pLockRWTask` is created to prefer writers.  `TaskLife`:
handlers and runnables run to their end, the job is called again and again, time
passes; users, faults and restarts are not fair.  That the job now and then gets to
this task's entry (`SF` on `jobSubmit`) is an assumption the code does not guarantee:
`queue()` walks a `HashMap` and stops after about ten entries, so that with many
waiting tasks it may never come to one of them.  `SmtpSession`: each wait of the client has a timeout (`WF`); nothing is assumed of the server.

## Proofs

Every safety property the runs check is proved for every value of the constants
that satisfies the assumption of its module (`EngineAssumption`,
`StopAssumption`, `ListAssumption`, `SmtpAssumption`, `RecoverAssumption`,
`FormAssumption`, `LifeAssumption`): any number of mails, tasks, lists, threads,
sessions and faults, tables and packages of any size.  The assumptions say no more
than that bounds are natural numbers, that sets are finite where the code counts
them, and that the configuration is sensible: `RoundNum` is at least 1, which the
code enforces, and less than 1000, which it does not; 1000 is the value of `nRound`
that means "stopped", and the default is 2.

| Module | Theorems |
|---|---|
| `DeliverEngine_proofs` | `TypeCorrect`, `DeliveredAtMostOnce`, `OneAttemptPerKey`, `SendingHasAttempt` |
| `DeliverReport_proofs` | `ResultsAreTrue`, `NothingIsLost`, `TemplateIsRight`, `StopMarkStays` |
| `StopNotify_proofs` | `StopTypeCorrect`, `StopAnnouncedOnce`, `ToldAfterFinish`, `FreshStopKept`, `StopsImplementOnce` |
| `MailList_proofs` | `RoundsCover`, `FailuresAreCounted`, `RemainIsBounded`, `FinishedAreTried`, `StopsArePrompt` |
| `SmtpSession_proofs` | `SentMailIsTaken`, `TextIsInStep`, `CopiesAreExplained`, `BouncesAreRefused` |
| `Recover_proofs` | `KnownTasksAreWhole`, `StopsAreKept`, `RecoveredAreTried`, `AnswersAreKept` |
| `TaskForm_proofs` | `SentIsSelected`, `SendCodeIsKept`, `SendCodeIsAllowed`, `ExcludesHaveEffect`, `NamesAreUnique` |
| `TaskLife_proofs` | `TypesAreRight`, `OneRunnablePrepares`, `TaskIsHandedOnce`, `HandedTaskIsShown` |

The inductive invariants were checked with TLC on the instances of the runs before
they were proved.  None of the properties is inductive as it stands; what follows
says what had to be added, and why.

**Engine, at most once.**  `EngineInv == Shape /\ Supply /\ (clash \/ Core)`.
`Shape` is the types, with what ties entries and threads to real mails.  `Supply`
says where a mail can be: not handed out, in one answer on its way, or received; a
mail is entered once because these exclude each other.  `Core` is the heart:
entries have different mails, a key has one attempt, an attempt's entry is in
status 2 or marked as stopped, thread and entry agree on the mail exactly if they
agree on the key, and the status together with a waiting result tells whether the
mail was delivered.  `AtMostOnce` alone is not inductive: that `ScanList` does not
start a second thread follows from the status, and that the status is right from
the way results are matched by key.

**Engine, reports.**  `ResultTrue` needs that what is in a report on its way is
true too, and that a mail reported with 'f' is over: it has no attempt and its
entry is not sent again (`Truthful`).  `NoLoss` needs the order of the
conversation: as long as no answer is late, requests and answers alternate
(`InTurn`), and an entry that the awaited answer will erase is in the report under
way or was heard of (`ReportInTurn`).  `TemplateRight` needs that a request for a
template is the last request, a template the last answer on its way, and both for
the task `CheckTemplate` waits for (`Channels`), that this is the task of its entry
(`WaitsForOwn`), and that the cache holds no other task's template.

**Stops.**  `StopInv` adds to `AnnouncedOnce` that a pending slot names a task and
that only entered stops are in the table.  The refinement needs it in one step:
`Notify` is the abstract `Hear` because what is in a message is in no other message
and was told to nobody; `StopTask` is `End`, and every other step leaves `ended`
and `heard` as they are (`OnceStep`).

**Rounds.**  `RoundInv`: one session holds a list at a time (`LockAlone`), only a
STOP request sets `nRound` to 1000 (`StopMarks`), a list that is not marked was
handed out `nRound` times, and once more up to the cursor, at most (`Cover`), and
what a session in `give` or `wrap` has tested still holds of the mailbox or the
round it carries (`InHand`).  The last is what the missing lock makes necessary: a
STOP request can change `nRound` under the session.  `CountInv` adds the counters; each report
moves one mailbox from one group to another, and cardinalities follow
(`Having`).  `TriedInv` adds that in the first round `nCount` is exact as long as
no report is repeated: a task with `nCount` 0 then has every mailbox delivered,
hence handed out.  `PromptInv` says that a list of a stopped
task is marked, yet to be, or in `undone`, and bounds `late` plus the sessions
about to give by the number of sessions: once all marks are set none comes to
`give`.  The provers know nothing of
`SelectSeq`, by which tasks leave the queue, so the proofs assume nothing of the
queue's elements; that they are tasks is left to TLC.

**SMTP.**  The client may take a line left over for the answer to a later command,
so before DATA the invariant says only what can be in the stream where it stands.
The answer 354 is like no other: when it is in the stream the server has read every
command, and what comes after it is more of it or is about the text (`AtData`,
`AtText`); for 139.com, 334 would pass for it, but no 334 is left once 235 is read
(`AuthOrder`).  That is why `Sent` is right although the steps before may be out of
step.  `Account` counts the copies over all attempts: every text that was taken or is
under way is the present one or belongs to an attempt in `lost`.  A bounce leaves one
copy unaccounted for exactly if the present answer was misread (`Slack`); nothing is
assumed of `ManyLines`.

**Recovery.**  `FileInv` relates files, queue, transfers and stops in every state
of the process, down included: a file that is answered for is whole, the task a session
has chosen is in the queue (`AtWork`), and a task that is over was moved, is noted in
`unmoved`, or its STOP session is about to move it (`Over`).  `StopIsKept` follows
from the last: an answered stop leaves no file to read again.  `BookInv` adds that reports
and successes, in a list, in the log or in a session's hands, are of mailboxes handed
out, that each success was counted at least once, and that what a session carries
from `Look` to its next step is still so then, whatever STOP does meanwhile
(`Looking`).  `KeepInv` adds the position
of each session in its package: the list follows what it has applied, the log what
it has logged; two sessions share no report, and no mailbox unless that is noted in
`hurt`; a mailbox with no report on its way has its answered status in both.  What the replay of a line does is a
recursion over the line.  Induction over data is out of the provers' reach as a
scheme, but the least-number principle is not (`Least`, from the well-foundedness
of `<`): if the lists after some prefix of the line were not as claimed there would
be a first such prefix (`ReplayedSolves`, `ReplayedSound`, `ReplayedStat`).

**Task page.**  `FormInv`: form and rows obey the same rules (`Stored`), the
controls that are off keep them so (`Switches`), what a request carries agrees with
the form it was made from, but for the tags `initTag` takes out meanwhile
(`Waiting`, and `Running` for requests without a page), and the name the form came
with is that of its own task or of none (`Owned`).  The server checks little of this,
so that the properties of rows rest on the page's controls.  `NamesUnique` rests on
`Owned` and `Claims`: the one name the check lets pass unseen belongs to the row that is
overwritten, a request that has passed the check finds no other row of its name when
it comes to save (`Claimed`), and no two requests have one name (`Rivals`), unless the
name is in `raced`.

**Task life.**  `LifeInv` keeps the map and the row apart.  As long as the map is kept
(`MapInv`), at most one runnable is at work (`Alone`) and the entry says so (`Taken`); one
that has looked at the map and not yet put its entry finds it as it was (`Free`), and no
two look at a time (`OneChecks`).  This uses *split* in `runRead`, where the second one
would begin to look, and *over* in `opMark` and `jobPut`, which lock another `Integer`.
As long as the row is kept, what was handed over is shown or a runnable is about to save
it (`Shown`), however many runnables there are; this uses *stale* in `opSave`, *failed* in
`runFail`, *doubt* in `runRefused` and `crash`, and nothing of `infoEquals`: whatever a
confirmation sets is a status of a task at the dispatcher.  When both are kept, a runnable
that has looked up the row again finds the task not handed over (`Once`): a task that was
is no longer scanned, and no other runnable is about to save it.
The proof also shows what the model needs of its names for `Integer` objects: with one
more name than runnables there is always a first unused one (`FirstKey`, by the
pigeonhole principle).

Only model-checked: liveness (`EventuallyTold`, `EventuallyAnnounced`,
`EventuallyFinished`, `SessionEnds`, `EventuallySent`), which needs fairness and
`ENABLED`, and is out of the prover's reach.

## Plan

1. The MX cache, with failed lookups and expiry; the outcomes `DeliverEngine`
   chooses from as the abstract specification of `SmtpSession`.
2. The engine's ability per domain: the counters per minute, quarter, hour and day,
   and the number of mails asked for.
3. The triger database; `Sync_Queue` and the thread pools of the delivery helper
   and the label manager, with shutdown.
4. A composition of `MailList` and `DeliverEngine` through an abstract
   specification of a hand-out (handed out, reported at least once).
5. Proofs: the types of `SmtpSession`, `Recover` and `TaskForm`; that the step
   from `SmtpSession` to its outcome is a refinement.

## Not modelled

Formatting and encoding of mail texts, statistics files and configuration
parsing: I/O and presentation without a protocol of their own.  The pages of the
web applications other than the task page are forms over single tables, lists and
charts; nearly all of the repository's JavaScript (some 125,000 lines) is vendored
(highcharts, kindeditor, jquery and its plugins, ztree), and the
first-party part, about 10,000 lines, is forms and reports of that kind.
Integer overflow of counters, memory management and the
protocol's byte layout are not part of the models.
