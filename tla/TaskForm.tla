------------------------------ MODULE TaskForm ------------------------------
(***************************************************************************)
(* The page on which a user of the web application makes a mailing task    *)
(* (mailing.task.add.js, mailing.task.common.js and the helpers of base.js *)
(* and jquery.edm.search.js) together with the handlers of TaskAction that *)
(* answer it: "selection", which writes the recipients of the chosen tags  *)
(* to a file, and "add", which stores the task.                            *)
(*                                                                         *)
(* One action is one event handler of the page, or one answer of the       *)
(* server with the callback that receives it.  The cover that loading()    *)
(* and openCover() put over the page keeps the pointer from it, so the     *)
(* user acts only on an uncovered page; the mandatory text fields other    *)
(* than the task's name are taken as filled in.                            *)
(*                                                                         *)
(* There is one page: the token that loading it puts into the session      *)
(* makes the server refuse what an earlier one sends.  But a request that  *)
(* no page waits for any more goes on at the server, and "add" looks the   *)
(* name up long before it saves the row, with no lock and no unique index. *)
(***************************************************************************)
EXTENDS Naturals, Sequences, FiniteSets

CONSTANTS
    Tags,           \* the recipients' tags of the company
    Files,          \* ready-made recipient files ("EXPORT...")
    TempFiles,      \* those of Files that are listed among the tags too
    Names,          \* task names
    IncludeLimit,   \* includeLimit of the page
    ExcludeLimit,   \* excludeLimit of the page
    MaxTasks,       \* bound: tasks stored
    MaxPlans,       \* bound: rows of the plan table
    Slots,          \* bound: requests under way that no page waits for
    None            \* an empty field

ASSUME FormAssumption ==
    /\ Tags \cap Files = {}
    /\ TempFiles \subseteq Files
    /\ IncludeLimit \in Nat /\ ExcludeLimit \in Nat
    /\ MaxTasks \in Nat /\ MaxPlans \in Nat
    /\ None \notin Names \cup Nat

VARIABLES
    page,       \* "list": elsewhere; "loading": tag lists awaited; "ready"
    form,       \* the values of the fields, hidden ones included
    picked,     \* data('subArr') of the two tag fields
    off,        \* the disabled controls
    cover,      \* TRUE while loading() lies over the page
    dialog,     \* #remindCustom: "closed", "waiting", "ok" or "failed"
    request,    \* the request under way, or NoRequest
    leaving,    \* the redirection after a stored task is pending
    tasks,      \* the task table with its condition and setting rows
    plans,      \* how many rows the plan table has
    late,       \* the requests that go on without a page
    raced       \* history: names two requests were about at one time

vars == <<page, form, picked, off, cover, dialog, request, leaving, tasks,
          plans, late, raced>>
pageVars == <<page, form, picked, off>>
server == <<tasks, plans, late, raced>>

SendCodes == {"current", "schedule", "plan"}
Controls == SendCodes \cup {"exclude", "camp"}
Items == Tags \cup Files
Statuses == {"drafted", "reviewing", "return", "waited", "queueing"}

NoRequest == [kind |-> "none"]
Adds(q) == q.kind \in {"drafted", "add"}
Free == ~cover /\ dialog = "closed"
HasFile(ids) == ids \cap Files # {}

\* Those of the names that a request without a page is about to give.
Racing(names) == {late[s].form.name : s \in {x \in Slots : Adds(late[x])}}
                    \cap names

BlankForm ==
    [task |-> None, plan |-> None, file |-> None, name |-> None,
     org |-> None, inc |-> {}, exc |-> {}, camp |-> FALSE,
     code |-> "current"]

(***************************************************************************)
(* The page.                                                               *)
(***************************************************************************)

\* Wrong: a campaign forbids scheduled sending too.
testSendCodeStrict(disabled, camp, ids) ==
    (disabled \ {"schedule", "plan"})
        \cup (IF camp \/ HasFile(ids) THEN {"plan", "schedule"} ELSE {})

\* Wrong: a campaign forbids nothing.
testSendCodeLax(disabled, camp, ids) ==
    (disabled \ {"schedule", "plan"})
        \cup (IF HasFile(ids) THEN {"plan", "schedule"} ELSE {})

\* The send codes that a campaign or a file in the form forbids.
testSendCode(disabled, camp, ids) ==
    (disabled \ {"schedule", "plan"})
        \cup (IF camp \/ HasFile(ids) THEN {"plan"} ELSE {})
        \cup (IF HasFile(ids) THEN {"schedule"} ELSE {})

\* Loading the page: the template writes the stored values and disables
\* controls; then the ready handlers drop a campaign that is no longer in
\* the list, call testSendCode and ask for the tag lists.
Load(f, disabled) ==
    \E camp \in {f.camp, FALSE} :
        /\ page' = "loading"
        /\ form' = [f EXCEPT !.camp = camp]
        /\ off' = testSendCode(disabled, camp, f.inc)
        /\ picked' = [inc |-> {}, exc |-> {}]
        /\ cover' = FALSE
        /\ dialog' = "closed"
        /\ leaving' = FALSE

\* What the template disables for a stored task.
TemplateOff(code) ==
    IF code = "plan" THEN {"camp", "current", "schedule"} ELSE {"plan"}

\* A user may come back to the list at any time no answer is awaited, and
\* opens the page for a new task, filled with the name and the campaign that
\* the cookie has from an earlier one ...
OpenNew ==
    /\ request = NoRequest
    /\ \E n \in Names \cup {None}, camp \in BOOLEAN :
         Load([BlankForm EXCEPT !.name = n, !.camp = camp], {})
    /\ UNCHANGED <<request, server>>

\* ... to change a stored task ...
OpenEdit(t) ==
    /\ request = NoRequest
    /\ LET r == tasks[t]
       IN  Load([task |-> t, plan |-> r.plan, file |-> r.file,
                 name |-> r.name, org |-> r.name, inc |-> r.inc,
                 exc |-> r.exc, camp |-> r.camp, code |-> r.code],
                TemplateOff(r.code))
    /\ raced' = raced \cup Racing({tasks[t].name})
    /\ UNCHANGED <<request, tasks, plans, late>>

\* ... or for a copy of one.
OpenCopy(t) ==
    /\ request = NoRequest
    /\ LET r == tasks[t]
       IN  Load([task |-> None, plan |-> None, file |-> r.file,
                 name |-> None, org |-> None, inc |-> r.inc,
                 exc |-> r.exc, camp |-> r.camp, code |-> r.code],
                TemplateOff(r.code))
    /\ UNCHANGED <<request, server>>

\* The first answer of refreshTag: initTag makes the tag fields from the
\* stored ids; ids none of which is in the lists are dropped.
initTag(files) ==
    /\ page = "loading"
    /\ LET inc == form.inc \cap (Tags \cup files)
       IN  /\ picked' = [inc |-> inc, exc |-> form.exc]
           /\ form' = [form EXCEPT !.inc = IF inc = {} THEN {} ELSE @]
           /\ off' = off \cup (IF HasFile(inc) THEN {"exclude"} ELSE {})
    /\ page' = "ready"
    /\ UNCHANGED <<cover, dialog, request, leaving, server>>

EditName(n) ==
    /\ page # "list" /\ Free
    /\ form' = [form EXCEPT !.name = n]
    /\ UNCHANGED <<page, picked, off, cover, dialog, request, leaving,
                   server>>

\* A choice in the list of tags to include.  A file comes alone, shuts the
\* list of tags to exclude and needs immediate sending.  (The refresh link
\* fetches the lists anew at any time, so every item may be on offer.)
pickIncludes(i) ==
    /\ page = "ready" /\ Free
    /\ Cardinality(picked.inc) < IncludeLimit
    /\ i \in Files => form.code = "current"
    /\ LET inc == IF i \in Files THEN {i}
                  ELSE (picked.inc \ Files) \cup {i}
           shut == IF i \in Files THEN off \cup {"exclude"}
                   ELSE off \ {"exclude"}
       IN  /\ picked' = [picked EXCEPT !.inc = inc]
           /\ form' = [form EXCEPT !.inc = inc,
                                   !.exc = IF i \in Files THEN {} ELSE @]
           /\ off' = testSendCode(shut, form.camp, inc)
    /\ UNCHANGED <<page, cover, dialog, request, leaving, server>>

\* Backspace on an included tag or file.
deleteInclude(i) ==
    /\ page = "ready" /\ Free
    /\ LET inc == picked.inc \ {i}
       IN  /\ picked' = [picked EXCEPT !.inc = inc]
           /\ form' = [form EXCEPT !.inc = inc]
           /\ off' = IF inc = {}
                     THEN testSendCode(off \ {"exclude"}, form.camp, inc)
                     ELSE off
    /\ UNCHANGED <<page, cover, dialog, request, leaving, server>>

\* Wrong: the list stays open next to a file.
pickExcludesOpen(i) ==
    /\ page = "ready" /\ Free
    /\ Cardinality(picked.exc) < ExcludeLimit
    /\ picked' = [picked EXCEPT !.exc = @ \cup {i}]
    /\ form' = [form EXCEPT !.exc = picked'.exc]
    /\ UNCHANGED <<page, off, cover, dialog, request, leaving, server>>

\* A choice in the list of tags to exclude.
pickExcludes(i) ==
    /\ page = "ready" /\ Free
    /\ "exclude" \notin off
    /\ Cardinality(picked.exc) < ExcludeLimit
    /\ picked' = [picked EXCEPT !.exc = @ \cup {i}]
    /\ form' = [form EXCEPT !.exc = picked'.exc]
    /\ UNCHANGED <<page, off, cover, dialog, request, leaving, server>>

\* Backspace on an excluded tag.
deleteExclude(i) ==
    /\ page = "ready" /\ Free
    /\ "exclude" \notin off
    /\ picked' = [picked EXCEPT !.exc = @ \ {i}]
    /\ form' = [form EXCEPT !.exc = picked'.exc]
    /\ UNCHANGED <<page, off, cover, dialog, request, leaving, server>>

\* A click on one of the send codes.
changeSendCode(c) ==
    /\ page # "list" /\ Free
    /\ c \notin off
    /\ form' = [form EXCEPT !.code = c]
    /\ off' = IF c = "plan" THEN off \cup {"camp"} ELSE off \ {"camp"}
    /\ UNCHANGED <<page, picked, cover, dialog, request, leaving,
                   server>>

\* A campaign is chosen ...
disPeriod ==
    /\ page # "list" /\ Free
    /\ "camp" \notin off
    /\ form' = [form EXCEPT !.camp = TRUE]
    /\ off' = off \cup {"plan"}
    /\ UNCHANGED <<page, picked, cover, dialog, request, leaving,
                   server>>

\* ... or deleted.
deleteCamp ==
    /\ page # "list" /\ Free
    /\ "camp" \notin off
    /\ form.camp
    /\ form' = [form EXCEPT !.camp = FALSE]
    /\ off' = testSendCode(off, FALSE, form.inc)
    /\ UNCHANGED <<page, picked, cover, dialog, request, leaving,
                   server>>

\* The checks that drafted() and getAjaxSum() make before they ask.
FormComplete == form.name # None /\ form.inc # {}

\* What the form plugin sends: disabled controls are left out, and the
\* server takes "current" for a missing send code.
Submitted(kind, blind) ==
    [kind |-> kind, form |-> form, blind |-> blind,
     code |-> IF form.code \in off THEN "current" ELSE form.code,
     checked |-> FALSE, plan |-> None]

\* "Save draft".
drafted ==
    /\ page # "list" /\ Free
    /\ FormComplete
    /\ request' = Submitted("drafted", FALSE)
    /\ cover' = TRUE
    /\ raced' = raced \cup Racing({form.name})
    /\ UNCHANGED <<pageVars, dialog, leaving, tasks, plans, late>>

\* "Send": first the recipients of the tags are asked for.
getAjaxSum ==
    /\ page # "list" /\ Free
    /\ FormComplete
    /\ request' = [kind |-> "selection", inc |-> form.inc, exc |-> form.exc]
    /\ cover' = TRUE
    /\ dialog' = "waiting"
    /\ UNCHANGED <<pageVars, leaving, server>>

\* The two buttons of the dialog; both work after a failure too.
confirmSend ==
    /\ dialog \in {"ok", "failed"}
    /\ request' = Submitted("add", dialog = "failed")
    /\ dialog' = "closed"
    /\ cover' = TRUE
    /\ raced' = raced \cup Racing({form.name})
    /\ UNCHANGED <<pageVars, leaving, tasks, plans, late>>

closeDialog ==
    /\ dialog \in {"ok", "failed"}
    /\ dialog' = "closed"
    /\ UNCHANGED <<pageVars, cover, request, leaving, server>>

\* A message about a refused choice or an incomplete form; it stops the
\* timer of the message before.
error_message ==
    /\ page = "ready" /\ Free
    /\ leaving
    /\ \/ ~FormComplete
       \/ Cardinality(picked.inc) >= IncludeLimit
       \/ Files # {} /\ form.code # "current"
    /\ leaving' = FALSE
    /\ UNCHANGED <<pageVars, cover, dialog, request, server>>

(***************************************************************************)
(* The server's answers and the callbacks that take them.                  *)
(***************************************************************************)

\* What a recipient file holds: a ready-made file is copied, tags to exclude
\* count only next to tags to include.
Recipients(inc, exc) == [inc |-> inc, exc |-> IF HasFile(inc) THEN {} ELSE exc]

\* The checks on tags that "selection" and "add" share.
TagsAccepted(inc, exc) ==
    /\ exc \cap Files = {}
    /\ HasFile(inc) \/ inc \notin {{}, exc}

\* Wrong: the form keeps a file it has.
selectionOnce ==
    /\ request.kind = "selection"
    /\ TagsAccepted(request.inc, request.exc)
    /\ form' = [form EXCEPT !.file =
                  IF @ # None THEN @ ELSE Recipients(request.inc, request.exc)]
    /\ dialog' = "ok"
    /\ cover' = FALSE
    /\ request' = NoRequest
    /\ UNCHANGED <<page, picked, off, leaving, server>>

\* "selection" writes the file and its name goes into the form.  A file is
\* written once, under a new name: the model names it by what it holds.
selection ==
    /\ request.kind = "selection"
    /\ TagsAccepted(request.inc, request.exc)
    /\ form' = [form EXCEPT !.file = Recipients(request.inc, request.exc)]
    /\ dialog' = "ok"
    /\ cover' = FALSE
    /\ request' = NoRequest
    /\ UNCHANGED <<page, picked, off, leaving, server>>

\* "selection" refuses, or no answer comes: the form keeps the file it had.
selectionFailed ==
    /\ request.kind = "selection"
    /\ dialog' = "failed"
    /\ cover' = FALSE
    /\ request' = NoRequest
    /\ UNCHANGED <<pageVars, leaving, server>>

\* Wrong: drafts do not count.
uniqueSent(name, org) ==
    \/ name = org
    \/ \A t \in DOMAIN tasks :
         tasks[t].status # "drafted" => tasks[t].name # name

\* TaskService.unique
unique(name, org) ==
    \/ name = org
    \/ \A t \in DOMAIN tasks : tasks[t].name # name

\* The checks of createTask that depend on what is modelled.
Accepted(q) ==
    LET f == q.form
    IN  /\ q.code = "plan" => ~HasFile(f.inc)
        /\ q.kind = "add" => f.file # None
        /\ TagsAccepted(f.inc, f.exc)
        /\ unique(f.name, f.org)
        /\ f.task # None =>
             tasks[f.task].status \in {"drafted", "return", "waited"}

\* The plan a periodical task gets: the one the form names, or a new one.
PlanOf(q) == IF q.form.plan # None THEN q.form.plan ELSE plans + 1

\* createTask saves the plan before the other checks.
SavePlan(q) ==
    /\ PlanOf(q) <= MaxPlans
    /\ plans' = IF q.code = "plan" /\ q.form.plan = None THEN plans + 1
                ELSE plans

\* A request past the checks, with the plan its row will have: a task that
\* was periodical keeps the one of the row createTask has read.
Checked(q) ==
    [q EXCEPT !.checked = TRUE,
              !.plan = IF q.code = "plan" THEN PlanOf(q)
                       ELSE IF q.form.task # None
                       THEN tasks[q.form.task].plan ELSE None]

Check(q) == Adds(q) /\ ~q.checked /\ Accepted(q) /\ SavePlan(q)

\* createTask up to the checks, for the request of the page ...
checkTask ==
    /\ Check(request)
    /\ request' = Checked(request)
    /\ UNCHANGED <<pageVars, cover, dialog, leaving, tasks, late, raced>>

\* ... and for one that no page waits for.
checkLate(s) ==
    /\ Check(late[s])
    /\ late' = [late EXCEPT ![s] = Checked(@)]
    /\ UNCHANGED <<pageVars, cover, dialog, request, leaving, tasks, raced>>

\* Audits.moderate: the status of a task that is to be sent.
moderate(code, review) ==
    IF review THEN "reviewing"
    ELSE IF code \in {"schedule", "plan"} THEN "waited" ELSE "queueing"

\* The row createTask writes.
Row(q, review) ==
    LET f == q.form
    IN  [name |-> f.name, inc |-> f.inc, exc |-> f.exc, file |-> f.file,
         camp |-> f.camp, code |-> q.code, plan |-> q.plan,
         status |-> IF q.kind = "drafted" THEN "drafted"
                    ELSE moderate(q.code, review)]

\* The rest of createTask: whatever the checks saw, the row is saved whole.
Store(q, review) ==
    /\ q.checked
    /\ tasks' = IF q.form.task # None
                THEN [tasks EXCEPT ![q.form.task] = Row(q, review)]
                ELSE Append(tasks, Row(q, review))
    /\ Len(tasks') <= MaxTasks
    /\ UNCHANGED <<plans, raced>>

\* The draft is stored; the form now names the stored task.
draftStored ==
    /\ request.kind = "drafted"
    /\ Store(request, FALSE)
    /\ form' = [form EXCEPT
                  !.task = IF @ # None THEN @ ELSE Len(tasks'),
                  !.plan = IF request.code = "plan" THEN request.plan
                           ELSE None,
                  !.org = request.form.name]
    /\ cover' = FALSE
    /\ leaving' = FALSE
    /\ request' = NoRequest
    /\ UNCHANGED <<page, picked, off, dialog, late>>

\* The task is stored; the page says so and leaves after a second.
taskStored ==
    /\ request.kind = "add"
    /\ \E review \in BOOLEAN : Store(request, review)
    /\ cover' = FALSE
    /\ leaving' = TRUE
    /\ request' = NoRequest
    /\ UNCHANGED <<pageVars, dialog, late>>

\* A task is stored, and the answer finds no page.
lateStored(s) ==
    /\ Adds(late[s])
    /\ \E review \in BOOLEAN : Store(late[s], review)
    /\ late' = [late EXCEPT ![s] = NoRequest]
    /\ UNCHANGED <<pageVars, cover, dialog, request, leaving>>

\* "add" refuses (one of the checks above, or the balance, the license, the
\* lock of a scheduled task, an empty or missing recipient file) or fails; a
\* plan may be saved all the same.
Refuse(q) ==
    /\ Adds(q)
    /\ \/ UNCHANGED plans
       \/ /\ q.code = "plan" /\ ~HasFile(q.form.inc)
          /\ ~q.checked
          /\ SavePlan(q)

refused ==
    /\ Refuse(request)
    /\ cover' = FALSE
    /\ leaving' = FALSE
    /\ request' = NoRequest
    /\ UNCHANGED <<pageVars, dialog, tasks, late, raced>>

lateRefused(s) ==
    /\ Refuse(late[s])
    /\ late' = [late EXCEPT ![s] = NoRequest]
    /\ UNCHANGED <<pageVars, cover, dialog, request, leaving, tasks, raced>>

\* The page no longer waits for the request, which goes on at the server.
Abandon(q) ==
    \E s \in Slots :
        /\ late[s] = NoRequest
        /\ late' = [late EXCEPT ![s] = q]

\* No answer to "add" comes back; there is no error callback and the cover
\* stays.
answerLost ==
    /\ Adds(request)
    /\ Abandon(request)
    /\ request' = NoRequest
    /\ UNCHANGED <<pageVars, cover, dialog, leaving, tasks, plans, raced>>

\* error_message's timer takes the page back to the list, and whatever the
\* page waits for is lost to it.
redirect ==
    /\ leaving
    /\ leaving' = FALSE
    /\ page' = "list"
    /\ cover' = FALSE
    /\ dialog' = "closed"
    /\ request' = NoRequest
    /\ IF Adds(request) THEN Abandon(request) ELSE UNCHANGED late
    /\ form' = BlankForm
    /\ picked' = [inc |-> {}, exc |-> {}]
    /\ off' = {}
    /\ UNCHANGED <<tasks, plans, raced>>

(***************************************************************************)
(* What others do to stored tasks.                                         *)
(***************************************************************************)

\* A reviewer passes or returns the task.
audit(t) ==
    /\ tasks[t].status = "reviewing"
    /\ \E s \in {moderate(tasks[t].code, FALSE), "return"} :
         tasks' = [tasks EXCEPT ![t].status = s]
    /\ UNCHANGED <<pageVars, cover, dialog, request, leaving, plans, late,
                   raced>>

-----------------------------------------------------------------------------
Init ==
    /\ page = "list"
    /\ form = BlankForm
    /\ picked = [inc |-> {}, exc |-> {}]
    /\ off = {}
    /\ cover = FALSE
    /\ dialog = "closed"
    /\ request = NoRequest
    /\ leaving = FALSE
    /\ tasks = <<>>
    /\ plans = 0
    /\ late = [s \in Slots |-> NoRequest]
    /\ raced = {}

Next ==
    \/ OpenNew
    \/ \E t \in DOMAIN tasks : OpenEdit(t) \/ OpenCopy(t)
    \/ \E k \in SUBSET Files : initTag(k)
    \/ \E n \in Names : EditName(n)
    \/ \E i \in Items : pickIncludes(i)
    \/ \E i \in picked.inc : deleteInclude(i)
    \/ \E i \in Tags \cup TempFiles : pickExcludes(i)
    \/ \E i \in picked.exc : deleteExclude(i)
    \/ \E c \in SendCodes : changeSendCode(c)
    \/ disPeriod \/ deleteCamp
    \/ drafted \/ getAjaxSum \/ confirmSend \/ closeDialog \/ error_message
    \/ selection \/ selectionFailed
    \/ checkTask \/ draftStored \/ taskStored \/ refused \/ answerLost
    \/ redirect
    \/ \E s \in Slots : checkLate(s) \/ lateStored(s) \/ lateRefused(s)
    \/ \E t \in DOMAIN tasks : audit(t)

Spec == Init /\ [][Next]_vars

-----------------------------------------------------------------------------
RecipientFiles == [inc : SUBSET Items, exc : SUBSET Items]

Forms ==
    [task : 1..MaxTasks \cup {None}, plan : 1..MaxPlans \cup {None},
     file : RecipientFiles \cup {None}, name : Names \cup {None},
     org : Names \cup {None}, inc : SUBSET Items, exc : SUBSET Items,
     camp : BOOLEAN, code : SendCodes]

Rows ==
    [name : Names, inc : SUBSET Items, exc : SUBSET Items,
     file : RecipientFiles \cup {None}, camp : BOOLEAN,
     code : SendCodes,
     plan : 1..MaxPlans \cup {None}, status : Statuses]

Requests == {request} \cup {late[s] : s \in Slots}

\* Type correctness; the hidden fields name what the server has stored, and
\* the fields of the tags show what was picked.
TypeOK ==
    /\ page \in {"list", "loading", "ready"}
    /\ form \in Forms
    /\ form.task # None => form.task \in DOMAIN tasks
    /\ form.plan # None => form.plan \in 1..plans
    /\ page = "ready" => picked.inc \subseteq form.inc
    /\ picked \in [inc : SUBSET Items, exc : SUBSET Items]
    /\ off \subseteq Controls
    /\ cover \in BOOLEAN /\ leaving \in BOOLEAN
    /\ dialog \in {"closed", "waiting", "ok", "failed"}
    /\ request.kind \in {"none", "selection", "drafted", "add"}
    /\ \A q \in Requests : Adds(q) => q.form \in Forms /\ q.checked \in BOOLEAN
    /\ \A t \in DOMAIN tasks :
         /\ tasks[t] \in Rows
         /\ tasks[t].plan # None => tasks[t].plan \in 1..plans
    /\ Len(tasks) <= MaxTasks
    /\ plans \in 0..MaxPlans
    /\ DOMAIN late = Slots /\ raced \subseteq Names
    /\ \A s \in Slots : late[s] = NoRequest \/ Adds(late[s])

\* A task sent from a dialog that reported success goes to exactly the
\* recipients of the tags stored with it: whatever the user changes, copies,
\* saves or asks again, the file in the hidden field (mailing.task.add.js:177)
\* is the one selected last, from the tags the form still has; where the tag
\* lists arrive so late that they take a tag out of a form being sent, the
\* server refuses it.
SentAsSelected ==
    \A q \in Requests :
        q.kind = "add" /\ ~q.blind /\ q.checked =>
            q.form.file = Recipients(q.form.inc, q.form.exc)

\* The send code that is submitted is the one the user sees checked: no
\* handler disables the radio button that is checked, which the form plugin
\* would leave out and createTask would read as "current".
SendCodeKept ==
    Adds(request) => request.code = request.form.code

\* What testSendCode's comment says of the stored tasks: one with a campaign
\* is not periodical, one with a file is sent at once
\* (mailing.task.common.js:235); the server itself checks only the last case
\* of a periodical task with a file.
SendCodeAllowed ==
    \A t \in DOMAIN tasks :
        /\ tasks[t].camp => tasks[t].code # "plan"
        /\ HasFile(tasks[t].inc) => tasks[t].code = "current"

\* Tags to exclude are stored only where they have an effect: next to a file
\* there are none, although the list keeps the tags picked before the file
\* (mailing.task.add.js:316 empties the fields and not the data).
ExcludesEffective ==
    \A t \in DOMAIN tasks : HasFile(tasks[t].inc) => tasks[t].exc = {}

\* Two tasks have one name only where a request for the name was still under
\* way at the server, given up by its page, when the user submitted a form
\* with it or opened a task of that name: createTask looks the name up
\* (TaskAction.java:1373) and saves the row (1511) with nothing between the
\* two that keeps another request out.  Without such an overlap no lost
\* answer and second try, no copy, no form sent again before the page leaves
\* and no name that unique() lets pass, being the one the form came with
\* (TaskService.java:239), makes a task twice.
NamesUnique ==
    \A t, u \in DOMAIN tasks :
        tasks[t].name = tasks[u].name => t = u \/ tasks[t].name \in raced
=============================================================================
