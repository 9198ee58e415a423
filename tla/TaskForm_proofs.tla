--------------------------- MODULE TaskForm_proofs ---------------------------
(***************************************************************************)
(* Proofs about TaskForm, for any tags, files, names and limits, and any   *)
(* number of stored tasks and of requests that no page waits for.          *)
(*                                                                         *)
(* FormInv says what the handlers of the page keep together although each  *)
(* of them changes only some of it: the fields, the controls that are off, *)
(* the requests under way and the rows of the server.                      *)
(***************************************************************************)
EXTENDS TaskForm, TLAPS

(* What the fields and the rows hold *)
PageForms ==
  [task : Nat \cup {None}, plan : Nat \cup {None}, file : RecipientFiles \cup {None},
   name : Names \cup {None}, org : Names \cup {None}, inc : SUBSET Items,
   exc : SUBSET Items, camp : BOOLEAN, code : SendCodes]

StoredRows ==
  [name : Names, inc : SUBSET Items, exc : SUBSET Items,
   file : RecipientFiles \cup {None}, camp : BOOLEAN, code : SendCodes,
   plan : Nat \cup {None}, status : Statuses]

Shape ==
  /\ page \in {"list", "loading", "ready"}
  /\ form \in PageForms
  /\ picked \in [inc : SUBSET Items, exc : SUBSET Items]
  /\ dialog \in {"closed", "waiting", "ok", "failed"}
  /\ tasks \in Seq(StoredRows) /\ plans \in Nat
  /\ DOMAIN late = Slots

(* A form or a row goes together: what testSendCode allows, nothing next to *)
(* a file.                                                                  *)
Good(f) ==
  /\ f.camp => f.code # "plan"
  /\ HasFile(f.inc) =>
       f.code = "current" /\ f.exc = {} /\ \E x \in Files : f.inc = {x}

Stored == Good(form) /\ \A t \in DOMAIN tasks : Good(tasks[t])

(* The controls that are off keep it so. *)
Switches ==
  page # "list" =>
    /\ form.code \notin off
    /\ form.code = "plan" => "camp" \in off
    /\ form.camp => "plan" \in off
    /\ HasFile(form.inc) => {"plan", "schedule"} \subseteq off
    /\ page = "ready" => /\ picked.inc \subseteq form.inc
                         /\ HasFile(form.inc) => "exclude" \in off

(* The file in the form is the one of its tags, or it has no tags. *)
Matches(f) == f.inc = {} \/ f.file = Recipients(f.inc, f.exc)

(* What is known of a request under way, awaited or not *)
Asked(q) ==
  /\ DOMAIN q = {"kind", "form", "blind", "code", "checked", "plan"}
  /\ q.form \in PageForms /\ Good(q.form)
  /\ q.code = q.form.code /\ q.checked \in BOOLEAN /\ q.plan \in Nat \cup {None}
  /\ q.form.name # None
  /\ q.form.task # None => q.form.task \in DOMAIN tasks
  /\ q.form.task = None => q.form.org = None
  /\ q.kind = "add" /\ ~q.blind => Matches(q.form)
  /\ q.checked => q.form.inc # {}

Sent(q, f) == q.form.task = f.task /\ q.form.org = f.org

(* A request that is past the look at the names, or passes without one:     *)
(* where another row has its name, the name was raced for.                  *)
Claimed(q) ==
  q.checked \/ q.form.name = q.form.org =>
    \A u \in DOMAIN tasks :
      u # q.form.task /\ tasks[u].name = q.form.name => q.form.name \in raced

Rivals(p, q) == p.form.name = q.form.name => p.form.name \in raced

(* While an answer is awaited the form is what was asked about, but for     *)
(* tags that initTag takes out.                                             *)
Waiting ==
  /\ request.kind \in {"none", "selection", "drafted", "add"}
  /\ dialog # "closed" => page # "list" /\ form.name # None
  /\ dialog = "ok" => Matches(form)
  /\ dialog \in {"ok", "failed"} => request.kind = "none"
  /\ request.kind = "selection" =>
       /\ dialog = "waiting" /\ request.inc \in SUBSET Items
       /\ form.inc \in {request.inc, {}} /\ form.exc = request.exc
  /\ Adds(request) => cover /\ dialog = "closed" /\ Asked(request) /\ Sent(request, form)

(* The requests that no page waits for *)
Running == \A s \in Slots : late[s] = NoRequest \/ (Adds(late[s]) /\ Asked(late[s]))

(* The name the form came with is the form's task's own, unless it was      *)
(* raced for.                                                               *)
Owned ==
  /\ form.task # None => form.task \in DOMAIN tasks
  /\ form.task = None => form.org = None
  /\ \A u \in DOMAIN tasks :
       u # form.task /\ tasks[u].name = form.org => form.org \in raced
  /\ \A s \in Slots : Adds(late[s]) /\ late[s].form.name = form.org =>
       form.org \in raced \/ late[s].form.task = form.task

Claims ==
  /\ Adds(request) => Claimed(request)
  /\ \A s \in Slots : Adds(late[s]) => Claimed(late[s])
  /\ \A s \in Slots : Adds(late[s]) /\ Adds(request) => Rivals(late[s], request)
  /\ \A s, z \in Slots : s # z /\ Adds(late[s]) /\ Adds(late[z]) => Rivals(late[s], late[z])

FormInv ==
  Shape /\ Stored /\ Switches /\ Waiting /\ Running /\ Owned /\ Claims /\ NamesUnique

-----------------------------------------------------------------------------
LEMMA FormInit == Init => FormInv
<1> SUFFICES ASSUME Init PROVE FormInv
  OBVIOUS
<1>1. BlankForm \in PageForms /\ Good(BlankForm) /\ BlankForm.task = None /\ BlankForm.org = None
  BY DEF BlankForm, PageForms, Good, HasFile, SendCodes
<1>2. Shape
  BY <1>1 DEF Init, Shape
<1>3. DOMAIN tasks = {}
  BY DEF Init
<1>4. Stored /\ Switches /\ NamesUnique
  BY <1>1, <1>3 DEF Init, Stored, Switches, NamesUnique
<1>5. /\ \A s \in Slots : late[s] = NoRequest /\ ~Adds(late[s])
      /\ ~Adds(request)
  BY DEF Init, Adds, NoRequest
<1>6. Running /\ Claims
  BY <1>5 DEF Running, Claims
<1>8. Owned
  BY <1>1, <1>3, <1>5 DEF Init, Owned
<1>7. Waiting
  BY <1>5 DEF Init, Waiting, NoRequest
<1>q. QED
  BY <1>2, <1>4, <1>6, <1>7, <1>8 DEF FormInv

(* The rows, and the requests that no page waits for, are left alone. *)
LEMMA ServerSame ==
  ASSUME FormInv, UNCHANGED <<tasks, plans, late>>, raced \subseteq raced'
  PROVE  /\ Running' /\ NamesUnique' /\ (\A t \in DOMAIN tasks' : Good(tasks'[t]))
         /\ \A q : Asked(q) => Asked(q)'
         /\ \A q : Claimed(q) => Claimed(q)'
         /\ \A p, q : Rivals(p, q) => Rivals(p, q)'
         /\ \A s \in Slots : Adds(late[s])' => Claimed(late[s])'
         /\ \A s, z \in Slots :
              s # z /\ Adds(late[s])' /\ Adds(late[z])' => Rivals(late[s], late[z])'
<1>1. \A q : Asked(q) => Asked(q)'
  BY DEF Asked
<1>2. Running'
  BY <1>1 DEF FormInv, Running
<1>3. NamesUnique' /\ (\A t \in DOMAIN tasks' : Good(tasks'[t]))
  BY DEF FormInv, NamesUnique, Stored
<1>4. \A q : Claimed(q) => Claimed(q)'
  BY DEF Claimed
<1>5. \A p, q : Rivals(p, q) => Rivals(p, q)'
  BY DEF Rivals
<1>6. /\ \A s \in Slots : Adds(late[s]) => Claimed(late[s])
      /\ \A s, z \in Slots : s # z /\ Adds(late[s]) /\ Adds(late[z]) => Rivals(late[s], late[z])
  BY DEF FormInv, Claims
<1>q. QED
  BY <1>1, <1>2, <1>3, <1>4, <1>5, <1>6

(* A handler of the page that changes fields and controls *)
LEMMA PageKeeps ==
  ASSUME FormInv, Free, UNCHANGED <<cover, dialog, request, tasks, plans, late, raced>>,
         page' \in {"list", "loading", "ready"}, form' \in PageForms,
         picked' \in [inc : SUBSET Items, exc : SUBSET Items],
         form'.task = form.task, form'.org = form.org, Good(form'), Switches'
  PROVE  FormInv'
<1>1. Shape' /\ Stored'
  BY DEF FormInv, Shape, Stored
<1>2. Waiting' /\ ~Adds(request) /\ ~Adds(request')
  BY DEF FormInv, Waiting, Free, Adds
<1>3. Owned'
  BY DEF FormInv, Owned
<1>4. Running' /\ NamesUnique'
  BY ServerSame
<1>5. Claims'
  BY <1>2, ServerSame DEF Claims
<1>q. QED
  BY <1>1, <1>2, <1>3, <1>4, <1>5 DEF FormInv

LEMMA NameKeeps ==
  ASSUME FormInv, NEW n \in Names, EditName(n)
  PROVE  FormInv'
<1>1. /\ Free /\ form' = [form EXCEPT !.name = n]
      /\ UNCHANGED <<page, picked, off, cover, dialog, request, tasks, plans, late, raced>>
  BY DEF EditName, server
<1>2. Shape
  BY DEF FormInv
<1>3. /\ form' \in PageForms /\ form'.task = form.task /\ form'.org = form.org
      /\ form'.inc = form.inc /\ form'.exc = form.exc /\ form'.camp = form.camp
      /\ form'.code = form.code
  BY <1>1, <1>2 DEF Shape, PageForms
<1>4. Good(form') /\ Switches'
  BY <1>1, <1>3 DEF FormInv, Stored, Good, Switches
<1>q. QED
  BY <1>1, <1>2, <1>3, <1>4, PageKeeps DEF Shape

LEMMA IncludeKeeps ==
  ASSUME FormInv, NEW i \in Items, pickIncludes(i)
  PROVE  FormInv'
<1> DEFINE inc == IF i \in Files THEN {i} ELSE (picked.inc \ Files) \cup {i}
           shut == IF i \in Files THEN off \cup {"exclude"} ELSE off \ {"exclude"}
           exc == IF i \in Files THEN {} ELSE form.exc
<1>1. /\ Free /\ page = "ready" /\ (i \in Files => form.code = "current")
      /\ picked' = [picked EXCEPT !.inc = inc]
      /\ form' = [form EXCEPT !.inc = inc, !.exc = exc]
      /\ off' = testSendCode(shut, form.camp, inc)
      /\ UNCHANGED <<page, cover, dialog, request, tasks, plans, late, raced>>
  BY DEF pickIncludes, server
<1>2. Shape /\ Good(form)
  BY DEF FormInv, Stored
<1>3. /\ inc \in SUBSET Items /\ exc \in SUBSET Items
      /\ (HasFile(inc) => i \in Files) /\ (i \in Files => inc = {i} /\ exc = {})
  BY <1>2 DEF Shape, PageForms, HasFile, Items
<1>4. off' = (shut \ {"schedule", "plan"})
               \cup (IF form.camp \/ HasFile(inc) THEN {"plan"} ELSE {})
               \cup (IF HasFile(inc) THEN {"schedule"} ELSE {})
  BY <1>1 DEF testSendCode
<1>5. HasFile(inc) => "exclude" \in shut
  BY <1>3
<1>6. shut \ {"exclude"} = off \ {"exclude"}
  OBVIOUS
<1> HIDE DEF inc, exc, shut
<1>7. /\ form' \in PageForms /\ form'.task = form.task /\ form'.org = form.org
      /\ form'.inc = inc /\ form'.exc = exc /\ form'.camp = form.camp
      /\ form'.code = form.code
      /\ picked' \in [inc : SUBSET Items, exc : SUBSET Items] /\ picked'.inc = inc
  BY <1>1, <1>2, <1>3 DEF Shape, PageForms
<1>8. Good(form')
  BY <1>1, <1>2, <1>3, <1>7 DEF Good
<1>9. form.code \notin off /\ form.code \in {"current", "schedule", "plan"}
      /\ (form.code = "plan" => "camp" \in off /\ ~form.camp)
  BY <1>1, <1>2 DEF FormInv, Switches, Good, Shape, PageForms, SendCodes
<1>10. Switches'
  <2>1. form.code \notin off'
    BY <1>1, <1>3, <1>4, <1>6, <1>9
  <2>2. form.code = "plan" => "camp" \in off'
    BY <1>4, <1>6, <1>9
  <2>3. form.camp => "plan" \in off'
    BY <1>4
  <2>4. HasFile(inc) => {"plan", "schedule", "exclude"} \subseteq off'
    BY <1>4, <1>5
  <2>q. QED
    BY <1>7, <2>1, <2>2, <2>3, <2>4 DEF Switches
<1>q. QED
  BY <1>1, <1>2, <1>7, <1>8, <1>10, PageKeeps DEF Shape

LEMMA DeleteIncludeKeeps ==
  ASSUME FormInv, NEW i, deleteInclude(i)
  PROVE  FormInv'
<1> DEFINE inc == picked.inc \ {i}
<1>1. /\ Free /\ page = "ready"
      /\ picked' = [picked EXCEPT !.inc = inc]
      /\ form' = [form EXCEPT !.inc = inc]
      /\ off' = IF inc = {} THEN testSendCode(off \ {"exclude"}, form.camp, inc) ELSE off
      /\ UNCHANGED <<page, cover, dialog, request, tasks, plans, late, raced>>
  BY DEF deleteInclude, server
<1>2. Shape /\ Good(form)
  BY DEF FormInv, Stored
<1>3. inc \in SUBSET Items /\ inc \subseteq form.inc
  BY <1>1, <1>2 DEF Shape, FormInv, Switches
<1> HIDE DEF inc
<1>4. HasFile(inc) => HasFile(form.inc) /\ inc = form.inc /\ inc # {}
  BY <1>2, <1>3 DEF HasFile, Good
<1>5. /\ form' \in PageForms /\ form'.task = form.task /\ form'.org = form.org
      /\ form'.inc = inc /\ form'.exc = form.exc /\ form'.camp = form.camp
      /\ form'.code = form.code
      /\ picked' \in [inc : SUBSET Items, exc : SUBSET Items] /\ picked'.inc = inc
  BY <1>1, <1>2, <1>3 DEF Shape, PageForms
<1>6. Good(form')
  BY <1>2, <1>4, <1>5 DEF Good
<1>7. Switches'
  <2>0. /\ form.code \notin off /\ (form.code = "plan" => "camp" \in off)
        /\ (form.camp => "plan" \in off)
        /\ (HasFile(form.inc) => {"plan", "schedule"} \subseteq off /\ "exclude" \in off)
        /\ form.code \in {"current", "schedule", "plan"}
        /\ (form.code = "plan" => ~form.camp)
    BY <1>1, <1>2 DEF FormInv, Switches, Good, Shape, PageForms, SendCodes
  <2>1. CASE inc = {}
    <3>1. ~HasFile(inc)
      BY <2>1 DEF HasFile
    <3>2. off' = ((off \ {"exclude"}) \ {"schedule", "plan"})
                   \cup (IF form.camp THEN {"plan"} ELSE {})
      BY <1>1, <2>1, <3>1 DEF testSendCode
    <3>q. QED
      BY <1>5, <2>0, <3>1, <3>2 DEF Switches
  <2>2. CASE inc # {}
    BY <1>1, <1>4, <1>5, <2>0, <2>2 DEF Switches
  <2>q. QED
    BY <2>1, <2>2
<1>q. QED
  BY <1>1, <1>2, <1>5, <1>6, <1>7, PageKeeps DEF Shape

LEMMA ExcludeKeeps ==
  ASSUME FormInv, NEW i, (i \in Tags \cup TempFiles /\ pickExcludes(i)) \/ deleteExclude(i)
  PROVE  FormInv'
<1>1. /\ Free /\ page = "ready" /\ "exclude" \notin off
      /\ picked' \in {[picked EXCEPT !.exc = picked.exc \cup {i}],
                      [picked EXCEPT !.exc = picked.exc \ {i}]}
      /\ form' = [form EXCEPT !.exc = picked'.exc]
      /\ UNCHANGED <<page, off, cover, dialog, request, tasks, plans, late, raced>>
  BY DEF pickExcludes, deleteExclude, server
<1>2. Shape /\ Good(form)
  BY DEF FormInv, Stored
<1>3. picked' \in [inc : SUBSET Items, exc : SUBSET Items] /\ picked'.inc = picked.inc
  <2>1. CASE i \in Tags \cup TempFiles
    <3>1. i \in Items
      BY <2>1, FormAssumption DEF Items
    <3>q. QED
      BY <1>1, <1>2, <3>1 DEF Shape
  <2>2. CASE deleteExclude(i)
    <3>1. picked' = [picked EXCEPT !.exc = picked.exc \ {i}]
      BY <2>2 DEF deleteExclude
    <3>q. QED
      BY <1>2, <3>1 DEF Shape
  <2>q. QED
    BY <2>1, <2>2
<1>4. /\ form' \in PageForms /\ form'.task = form.task /\ form'.org = form.org
      /\ form'.inc = form.inc /\ form'.camp = form.camp /\ form'.code = form.code
  BY <1>1, <1>2, <1>3 DEF Shape, PageForms
<1>5. ~HasFile(form.inc)
  BY <1>1 DEF FormInv, Switches
<1>6. Good(form') /\ Switches'
  BY <1>1, <1>2, <1>3, <1>4, <1>5 DEF FormInv, Good, Switches
<1>q. QED
  BY <1>1, <1>2, <1>3, <1>4, <1>6, PageKeeps DEF Shape

LEMMA CodeKeeps ==
  ASSUME FormInv, NEW c \in SendCodes, changeSendCode(c)
  PROVE  FormInv'
<1>1. /\ Free /\ page # "list" /\ c \notin off
      /\ form' = [form EXCEPT !.code = c]
      /\ off' = IF c = "plan" THEN off \cup {"camp"} ELSE off \ {"camp"}
      /\ UNCHANGED <<page, picked, cover, dialog, request, tasks, plans, late, raced>>
  BY DEF changeSendCode, server
<1>2. Shape /\ Good(form) /\ c \in {"current", "schedule", "plan"}
  BY DEF FormInv, Stored, SendCodes
<1>3. /\ form' \in PageForms /\ form'.task = form.task /\ form'.org = form.org
      /\ form'.inc = form.inc /\ form'.exc = form.exc /\ form'.camp = form.camp
      /\ form'.code = c
  BY <1>1, <1>2 DEF Shape, PageForms
<1>4. /\ form.camp => "plan" \in off
      /\ HasFile(form.inc) => {"plan", "schedule"} \subseteq off
  BY <1>1 DEF FormInv, Switches
<1>5. Good(form')
  BY <1>1, <1>2, <1>3, <1>4 DEF Good
<1>6. Switches'
  BY <1>1, <1>2, <1>3, <1>4 DEF FormInv, Switches
<1>q. QED
  BY <1>1, <1>2, <1>3, <1>5, <1>6, PageKeeps DEF Shape

LEMMA CampKeeps ==
  ASSUME FormInv, disPeriod \/ deleteCamp
  PROVE  FormInv'
<1>1. /\ Free /\ page # "list" /\ "camp" \notin off
      /\ UNCHANGED <<page, picked, cover, dialog, request, tasks, plans, late, raced>>
  BY DEF disPeriod, deleteCamp, server
<1>2. Shape /\ Good(form)
  BY DEF FormInv, Stored
<1>3. /\ form.code \notin off /\ form.code \in {"current", "schedule"}
      /\ (HasFile(form.inc) => {"plan", "schedule"} \subseteq off)
  BY <1>1, <1>2 DEF FormInv, Switches, Shape, PageForms, SendCodes
<1>4. CASE disPeriod
  <2>1. form' = [form EXCEPT !.camp = TRUE] /\ off' = off \cup {"plan"}
    BY <1>4 DEF disPeriod
  <2>2. /\ form' \in PageForms /\ form'.task = form.task /\ form'.org = form.org
        /\ form'.inc = form.inc /\ form'.exc = form.exc /\ form'.code = form.code
    BY <1>2, <2>1 DEF Shape, PageForms
  <2>3. Good(form') /\ Switches'
    BY <1>1, <1>2, <1>3, <2>1, <2>2 DEF FormInv, Good, Switches
  <2>q. QED
    BY <1>1, <1>2, <2>2, <2>3, PageKeeps DEF Shape
<1>5. CASE deleteCamp
  <2>1. form' = [form EXCEPT !.camp = FALSE] /\ off' = testSendCode(off, FALSE, form.inc)
    BY <1>5 DEF deleteCamp
  <2>2. /\ form' \in PageForms /\ form'.task = form.task /\ form'.org = form.org
        /\ form'.inc = form.inc /\ form'.exc = form.exc /\ form'.code = form.code
        /\ form'.camp = FALSE
    BY <1>2, <2>1 DEF Shape, PageForms
  <2>3. off' = (off \ {"schedule", "plan"})
                 \cup (IF HasFile(form.inc) THEN {"plan", "schedule"} ELSE {})
    BY <2>1 DEF testSendCode
  <2>4. HasFile(form.inc) => form.code = "current"
    BY <1>2 DEF Good
  <2>5. Good(form') /\ Switches'
    BY <1>1, <1>2, <1>3, <2>2, <2>3, <2>4 DEF FormInv, Good, Switches
  <2>q. QED
    BY <1>1, <1>2, <2>2, <2>5, PageKeeps DEF Shape
<1>q. QED
  BY <1>4, <1>5

LEMMA TagsKeep ==
  ASSUME FormInv, NEW k \in SUBSET Files, initTag(k)
  PROVE  FormInv'
<1> DEFINE inc == form.inc \cap (Tags \cup k)
           new == IF inc = {} THEN {} ELSE form.inc
<1>1. /\ page = "loading" /\ page' = "ready"
      /\ picked' = [inc |-> inc, exc |-> form.exc]
      /\ form' = [form EXCEPT !.inc = new]
      /\ off' = off \cup (IF HasFile(inc) THEN {"exclude"} ELSE {})
      /\ UNCHANGED <<cover, dialog, request, tasks, plans, late, raced>>
  BY DEF initTag, server
<1>2. Shape /\ Good(form)
  BY DEF FormInv, Stored
<1>3. /\ inc \in SUBSET Items /\ inc \subseteq new /\ new \in {form.inc, {}}
      /\ new \in SUBSET Items
  BY <1>2 DEF Shape, PageForms
<1>4. HasFile(new) => HasFile(form.inc) /\ HasFile(inc) /\ new = form.inc
  BY <1>2, <1>3 DEF HasFile, Good
<1> HIDE DEF inc, new
<1>5. /\ form' \in PageForms /\ form'.task = form.task /\ form'.org = form.org
      /\ form'.inc = new /\ form'.exc = form.exc /\ form'.camp = form.camp
      /\ form'.code = form.code /\ form'.file = form.file /\ form'.name = form.name
  BY <1>1, <1>2, <1>3 DEF Shape, PageForms
<1>6. picked' \in [inc : SUBSET Items, exc : SUBSET Items] /\ picked'.inc = inc
  BY <1>1, <1>2, <1>3 DEF Shape, PageForms
<1>7. Shape'
  BY <1>1, <1>2, <1>5, <1>6 DEF Shape
<1>8. Good(form')
  BY <1>2, <1>3, <1>4, <1>5 DEF Good
<1>9. Stored'
  BY <1>1, <1>8 DEF FormInv, Stored
<1>10. Switches'
  BY <1>1, <1>2, <1>3, <1>4, <1>5, <1>6 DEF FormInv, Switches, Shape, PageForms, SendCodes
<1>11. Matches(form) => Matches(form')
  BY <1>3, <1>5 DEF Matches
<1>12. Sent(request, form) => Sent(request, form')
  BY <1>5 DEF Sent
<1>13. Waiting'
  BY <1>1, <1>3, <1>5, <1>11, <1>12, ServerSame DEF FormInv, Waiting
<1>14. Owned'
  BY <1>1, <1>5 DEF FormInv, Owned
<1>15. Running' /\ NamesUnique'
  BY <1>1, ServerSame
<1>16. Claims'
  BY <1>1, ServerSame DEF FormInv, Claims
<1>q. QED
  BY <1>7, <1>9, <1>10, <1>13, <1>14, <1>15, <1>16 DEF FormInv

-----------------------------------------------------------------------------
(* The page is loaded from a form or a row that goes together, with the     *)
(* controls off that the template disables for it.                          *)
LEMMA LoadKeeps ==
  ASSUME FormInv, NEW f \in PageForms, NEW d, Load(f, d), request = NoRequest,
         UNCHANGED <<request, tasks, plans, late>>, raced \subseteq raced',
         Good(f), f.code \notin d, f.code = "plan" => "camp" \in d,
         f.task # None => f.task \in DOMAIN tasks,
         f.task = None => f.org = None,
         \A u \in DOMAIN tasks : u # f.task /\ tasks[u].name = f.org => f.org \in raced',
         \A s \in Slots : Adds(late[s]) /\ late[s].form.name = f.org => f.org \in raced'
  PROVE  FormInv'
<1>1. PICK camp \in {f.camp, FALSE} :
        /\ page' = "loading" /\ form' = [f EXCEPT !.camp = camp]
        /\ off' = testSendCode(d, camp, f.inc)
        /\ picked' = [inc |-> {}, exc |-> {}] /\ dialog' = "closed"
  BY DEF Load
<1>2. camp \in BOOLEAN /\ (camp => f.camp)
  BY DEF PageForms
<1>3. /\ form' \in PageForms /\ form'.task = f.task /\ form'.org = f.org
      /\ form'.inc = f.inc /\ form'.exc = f.exc /\ form'.camp = camp
      /\ form'.code = f.code
  BY <1>1, <1>2 DEF PageForms
<1>4. Shape'
  BY <1>1, <1>3 DEF FormInv, Shape
<1>5. Good(form')
  BY <1>2, <1>3 DEF Good
<1>6. Stored'
  BY <1>5 DEF FormInv, Stored
<1>7. Switches'
  <2>1. off' = (d \ {"schedule", "plan"})
                 \cup (IF camp \/ HasFile(f.inc) THEN {"plan"} ELSE {})
                 \cup (IF HasFile(f.inc) THEN {"schedule"} ELSE {})
    BY <1>1 DEF testSendCode
  <2>2. /\ f.code \in {"current", "schedule", "plan"}
        /\ (HasFile(f.inc) => f.code = "current") /\ (camp => f.code # "plan")
    BY <1>2 DEF Good, PageForms, SendCodes
  <2>q. QED
    BY <1>1, <1>3, <2>1, <2>2 DEF Switches
<1>8. Waiting' /\ ~Adds(request')
  BY <1>1 DEF Waiting, NoRequest, Adds
<1>9. Owned'
  BY <1>3 DEF Owned
<1>10. Running' /\ NamesUnique'
  BY ServerSame
<1>11. Claims'
  BY <1>8, ServerSame DEF Claims
<1>q. QED
  BY <1>4, <1>6, <1>7, <1>8, <1>9, <1>10, <1>11 DEF FormInv

LEMMA OpenKeeps ==
  ASSUME FormInv, OpenNew \/ \E t \in DOMAIN tasks : OpenEdit(t) \/ OpenCopy(t)
  PROVE  FormInv'
<1>0. request = NoRequest /\ UNCHANGED <<request, tasks, plans, late>> /\ raced \subseteq raced'
  <2>1. CASE OpenNew
    BY <2>1 DEF OpenNew, server
  <2>2. ASSUME NEW t \in DOMAIN tasks, OpenEdit(t)
        PROVE  request = NoRequest /\ UNCHANGED <<request, tasks, plans, late>>
               /\ raced \subseteq raced'
    <3>1. /\ request = NoRequest /\ UNCHANGED <<request, tasks, plans, late>>
          /\ raced' = raced \cup Racing({tasks[t].name})
      BY <2>2 DEF OpenEdit
    <3>q. QED
      BY <3>1
  <2>3. ASSUME NEW t \in DOMAIN tasks, OpenCopy(t)
        PROVE  request = NoRequest /\ UNCHANGED <<request, tasks, plans, late, raced>>
    BY <2>3 DEF OpenCopy, server
  <2>q. QED
    BY <2>1, <2>2, <2>3
<1>1. \A u \in DOMAIN tasks : tasks[u] \in StoredRows /\ tasks[u].name # None /\ Good(tasks[u])
                              /\ u \in Nat
  <2>1. tasks \in Seq(StoredRows) /\ \A u \in DOMAIN tasks : Good(tasks[u])
    BY DEF FormInv, Shape, Stored
  <2>2. \A u \in DOMAIN tasks : tasks[u] \in StoredRows /\ u \in Nat
    BY <2>1
  <2>q. QED
    BY <2>1, <2>2, FormAssumption DEF StoredRows
<1>5. ASSUME NEW s \in Slots, Adds(late[s]) PROVE late[s].form.name # None
  <2>1. late[s] = NoRequest \/ Asked(late[s])
    BY DEF FormInv, Running
  <2>2. late[s] # NoRequest
    BY <1>5 DEF NoRequest, Adds
  <2>q. QED
    BY <2>1, <2>2 DEF Asked
<1>2. CASE OpenNew
  <2>1. PICK n \in Names \cup {None}, camp \in BOOLEAN :
          Load([BlankForm EXCEPT !.name = n, !.camp = camp], {})
    BY <1>2 DEF OpenNew
  <2> DEFINE f == [BlankForm EXCEPT !.name = n, !.camp = camp]
  <2>2. /\ f \in PageForms /\ Good(f) /\ f.task = None /\ f.org = None /\ f.code = "current"
    BY DEF BlankForm, PageForms, Good, HasFile, SendCodes
  <2> HIDE DEF f
  <2>3. Load(f, {})
    BY <2>1 DEF f
  <2>q. QED
    BY <1>0, <1>1, <1>5, <2>2, <2>3, LoadKeeps
<1>3. ASSUME NEW t \in DOMAIN tasks, OpenEdit(t) PROVE FormInv'
  <2> DEFINE r == tasks[t]
             f == [task |-> t, plan |-> r.plan, file |-> r.file,
                   name |-> r.name, org |-> r.name, inc |-> r.inc,
                   exc |-> r.exc, camp |-> r.camp, code |-> r.code]
  <2>1. Load(f, TemplateOff(r.code))
    BY <1>3 DEF OpenEdit
  <2>2. /\ f.task = t /\ f.org = r.name /\ f.code = r.code /\ f.camp = r.camp /\ f.inc = r.inc
        /\ f.exc = r.exc /\ f \in PageForms
    BY <1>1 DEF PageForms, StoredRows
  <2> HIDE DEF f
  <2>3. Good(f)
    BY <1>1, <2>2 DEF Good
  <2>4. f.code \notin TemplateOff(r.code) /\ (f.code = "plan" => "camp" \in TemplateOff(r.code))
    BY <1>1, <2>2 DEF TemplateOff, StoredRows, SendCodes
  <2>5. \A u \in DOMAIN tasks : u # t /\ tasks[u].name = r.name => r.name \in raced
    BY DEF FormInv, NamesUnique
  <2>6. t # None
    BY <1>1, FormAssumption
  <2>7. \A s \in Slots : Adds(late[s]) /\ late[s].form.name = r.name => r.name \in raced'
    BY <1>3 DEF OpenEdit, Racing
  <2>8. \A u \in DOMAIN tasks : u # t /\ tasks[u].name = r.name => r.name \in raced'
    BY <1>0, <2>5
  <2>q. QED
    BY <1>0, <2>1, <2>2, <2>3, <2>4, <2>6, <2>7, <2>8, LoadKeeps
<1>4. ASSUME NEW t \in DOMAIN tasks, OpenCopy(t) PROVE FormInv'
  <2> DEFINE r == tasks[t]
             f == [task |-> None, plan |-> None, file |-> r.file,
                   name |-> None, org |-> None, inc |-> r.inc,
                   exc |-> r.exc, camp |-> r.camp, code |-> r.code]
  <2>1. Load(f, TemplateOff(r.code))
    BY <1>4 DEF OpenCopy
  <2>2. /\ f.task = None /\ f.org = None /\ f.code = r.code /\ f.camp = r.camp /\ f.inc = r.inc
        /\ f.exc = r.exc /\ f \in PageForms
    BY <1>1 DEF PageForms, StoredRows
  <2> HIDE DEF f
  <2>3. Good(f)
    BY <1>1, <2>2 DEF Good
  <2>4. f.code \notin TemplateOff(r.code) /\ (f.code = "plan" => "camp" \in TemplateOff(r.code))
    BY <1>1, <2>2 DEF TemplateOff, StoredRows, SendCodes
  <2>q. QED
    BY <1>0, <1>1, <1>5, <2>1, <2>2, <2>3, <2>4, LoadKeeps
<1>q. QED
  BY <1>2, <1>3, <1>4

-----------------------------------------------------------------------------
(* Requests and answers that leave the fields and the rows alone *)
LEMMA AskKeeps ==
  ASSUME FormInv, UNCHANGED <<page, form, picked, off, tasks, plans, late>>,
         raced \subseteq raced', dialog' \in {"closed", "waiting", "ok", "failed"}, Waiting',
         Adds(request') => /\ Claimed(request)'
                           /\ \A s \in Slots : Adds(late[s]) => Rivals(late[s], request)'
  PROVE  FormInv'
<1>1. Shape' /\ Stored' /\ Switches' /\ Owned'
  BY DEF FormInv, Shape, Stored, Switches, Owned
<1>2. Running' /\ NamesUnique'
  BY ServerSame
<1>3. Claims'
  BY ServerSame DEF Claims
<1>q. QED
  BY <1>1, <1>2, <1>3 DEF FormInv

LEMMA SubmittedAsked ==
  ASSUME FormInv, page # "list", form.name # None, NEW k, NEW b \in BOOLEAN,
         k = "add" /\ ~b => Matches(form)
  PROVE  LET q == Submitted(k, b)
         IN  /\ q.kind = k /\ q.form = form /\ q.checked = FALSE
             /\ Asked(q) /\ Sent(q, form) /\ Claimed(q)
<1> DEFINE q == Submitted(k, b)
<1>1. /\ q.kind = k /\ q.form = form /\ q.blind = b /\ q.code = form.code
      /\ q.checked = FALSE /\ q.plan = None
      /\ DOMAIN q = {"kind", "form", "blind", "code", "checked", "plan"}
  BY DEF Submitted, FormInv, Switches
<1> HIDE DEF q
<1>2. Asked(q)
  BY <1>1 DEF Asked, FormInv, Shape, Stored, Owned
<1>3. Sent(q, form)
  BY <1>1 DEF Sent
<1>4. Claimed(q)
  BY <1>1 DEF Claimed, FormInv, Owned
<1>q. QED
  BY <1>1, <1>2, <1>3, <1>4 DEF q

(* Submitting notes the names that are raced for. *)
LEMMA SubmitKeeps ==
  ASSUME FormInv, page # "list", form.name # None, NEW k \in {"drafted", "add"},
         NEW b \in BOOLEAN, k = "add" /\ ~b => Matches(form),
         request' = Submitted(k, b), cover' = TRUE, dialog' = "closed",
         UNCHANGED <<page, form, picked, off, tasks, plans, late>>,
         raced' = raced \cup Racing({form.name})
  PROVE  FormInv'
<1>1. /\ request'.kind = k /\ request'.form = form
      /\ Asked(Submitted(k, b)) /\ Sent(Submitted(k, b), form) /\ Claimed(Submitted(k, b))
  BY SubmittedAsked
<1>2. Asked(request)' /\ Claimed(request)'
  BY <1>1, ServerSame
<1>3. Sent(request, form)'
  BY <1>1 DEF Sent
<1>4. Waiting'
  BY <1>1, <1>2, <1>3 DEF Waiting
<1>5. ASSUME NEW s \in Slots, Adds(late[s])
      PROVE  Rivals(late[s], request)'
  BY <1>1, <1>5 DEF Rivals, Racing
<1>q. QED
  BY <1>2, <1>4, <1>5, AskKeeps

LEMMA DraftedKeeps ==
  ASSUME FormInv, drafted
  PROVE  FormInv'
<1>1. /\ page # "list" /\ Free /\ form.name # None
      /\ request' = Submitted("drafted", FALSE) /\ cover' = TRUE
      /\ UNCHANGED <<page, form, picked, off, dialog, tasks, plans, late>>
      /\ raced' = raced \cup Racing({form.name})
  BY DEF drafted, FormComplete, pageVars
<1>q. QED
  BY <1>1, SubmitKeeps DEF Free

LEMMA SumKeeps ==
  ASSUME FormInv, getAjaxSum
  PROVE  FormInv'
<1>1. /\ page # "list" /\ form.name # None /\ dialog' = "waiting"
      /\ request' = [kind |-> "selection", inc |-> form.inc, exc |-> form.exc]
      /\ UNCHANGED <<page, form, picked, off, tasks, plans, late, raced>>
  BY DEF getAjaxSum, FormComplete, pageVars, server
<1>2. Waiting' /\ ~Adds(request')
  BY <1>1 DEF Waiting, FormInv, Shape, PageForms, Adds
<1>q. QED
  BY <1>1, <1>2, AskKeeps

LEMMA ConfirmKeeps ==
  ASSUME FormInv, confirmSend
  PROVE  FormInv'
<1>1. /\ dialog \in {"ok", "failed"} /\ dialog' = "closed" /\ cover' = TRUE
      /\ request' = Submitted("add", dialog = "failed")
      /\ UNCHANGED <<page, form, picked, off, tasks, plans, late>>
      /\ raced' = raced \cup Racing({form.name})
  BY DEF confirmSend, pageVars
<1>2. page # "list" /\ form.name # None /\ (dialog = "ok" => Matches(form))
  BY <1>1 DEF FormInv, Waiting
<1>q. QED
  BY <1>1, <1>2, SubmitKeeps

LEMMA MessageKeeps ==
  ASSUME FormInv, closeDialog \/ error_message
  PROVE  FormInv'
<1>1. /\ UNCHANGED <<page, form, picked, off, tasks, plans, late, raced, request, cover>>
      /\ dialog' \in {dialog, "closed"} /\ (dialog' # dialog => dialog \in {"ok", "failed"})
  BY DEF closeDialog, error_message, pageVars, server
<1>2. Asked(request) => Asked(request)'
  BY <1>1, ServerSame
<1>3. Waiting'
  BY <1>1, <1>2 DEF FormInv, Waiting, Adds
<1>4. Adds(request) => Claimed(request)' /\ \A s \in Slots : Adds(late[s]) => Rivals(late[s], request)'
  BY <1>1, ServerSame DEF FormInv, Claims
<1>q. QED
  BY <1>1, <1>3, <1>4, AskKeeps DEF FormInv, Shape

LEMMA SelectionKeeps ==
  ASSUME FormInv, selection \/ selectionFailed
  PROVE  FormInv'
<1>0. request.kind = "selection" /\ request' = NoRequest /\ ~Adds(request') /\ Shape
  BY DEF selection, selectionFailed, FormInv, NoRequest, Adds
<1>1. CASE selection
  <2> DEFINE file == Recipients(request.inc, request.exc)
  <2>1. /\ form' = [form EXCEPT !.file = file] /\ dialog' = "ok"
        /\ UNCHANGED <<page, picked, off, tasks, plans, late, raced>>
    BY <1>1 DEF selection, server
  <2>2. form.inc \in {request.inc, {}} /\ form.exc = request.exc /\ dialog = "waiting"
    BY <1>0 DEF FormInv, Waiting
  <2>3. file \in RecipientFiles
    BY <1>0, <2>2 DEF FormInv, Waiting, Shape, PageForms, Recipients, RecipientFiles
  <2>4. form.inc # {} => file = Recipients(form.inc, form.exc)
    BY <2>2
  <2> HIDE DEF file
  <2>5. /\ form' \in PageForms /\ form'.task = form.task /\ form'.org = form.org
        /\ form'.inc = form.inc /\ form'.exc = form.exc /\ form'.camp = form.camp
        /\ form'.code = form.code /\ form'.file = file /\ form'.name = form.name
    BY <1>0, <2>1, <2>3 DEF Shape, PageForms
  <2>6. Shape'
    BY <1>0, <2>1, <2>5 DEF Shape
  <2>7. Good(form')
    BY <2>5 DEF FormInv, Stored, Good
  <2>8. Stored' /\ Switches'
    BY <2>1, <2>5, <2>7 DEF FormInv, Stored, Switches
  <2>9. Matches(form')
    BY <2>4, <2>5 DEF Matches
  <2>10. Waiting'
    BY <1>0, <2>1, <2>2, <2>5, <2>9 DEF FormInv, Waiting, NoRequest
  <2>11. Owned'
    BY <2>1, <2>5 DEF FormInv, Owned
  <2>12. Running' /\ NamesUnique' /\ Claims'
    BY <1>0, <2>1, ServerSame DEF Claims
  <2>q. QED
    BY <2>6, <2>8, <2>10, <2>11, <2>12 DEF FormInv
<1>2. CASE selectionFailed
  <2>1. dialog' = "failed" /\ UNCHANGED <<page, form, picked, off, tasks, plans, late, raced>>
    BY <1>2 DEF selectionFailed, pageVars, server
  <2>2. Waiting'
    BY <1>0, <2>1 DEF FormInv, Waiting, NoRequest
  <2>q. QED
    BY <1>0, <2>1, <2>2, AskKeeps
<1>q. QED
  BY <1>1, <1>2

-----------------------------------------------------------------------------
(* The checks: the request that passes them claims its name. *)
LEMMA CheckedAsked ==
  ASSUME FormInv, NEW q, Adds(q), Asked(q), Claimed(q), Check(q)
  PROVE  LET c == Checked(q)
         IN  /\ Asked(c) /\ Claimed(c) /\ Adds(c) /\ plans' \in Nat
             /\ c.form = q.form
<1> DEFINE c == Checked(q)
           p == IF q.code = "plan" THEN PlanOf(q)
                ELSE IF q.form.task # None THEN tasks[q.form.task].plan ELSE None
<1>1. c = [q EXCEPT !.checked = TRUE, !.plan = p]
  BY DEF Checked
<1>2. /\ q.form.plan \in Nat \cup {None} /\ plans \in Nat
      /\ q.form.task # None => tasks[q.form.task] \in StoredRows
  <2>1. tasks \in Seq(StoredRows) /\ (q.form.task # None => q.form.task \in DOMAIN tasks)
    BY DEF FormInv, Shape, Asked
  <2>2. q.form.plan \in Nat \cup {None} /\ plans \in Nat
    BY DEF FormInv, Shape, Asked, PageForms
  <2>q. QED
    BY <2>1, <2>2
<1>3. PlanOf(q) \in Nat /\ plans' \in Nat
  BY <1>2 DEF PlanOf, Check, SavePlan
<1>4. p \in Nat \cup {None}
  BY <1>2, <1>3 DEF StoredRows
<1> HIDE DEF p, c
<1>5. /\ DOMAIN c = {"kind", "form", "blind", "code", "checked", "plan"}
      /\ c.kind = q.kind /\ c.form = q.form /\ c.blind = q.blind /\ c.code = q.code
      /\ c.checked = TRUE /\ c.plan = p
  BY <1>1 DEF Asked
<1>6. q.form.inc # {} /\ unique(q.form.name, q.form.org)
  BY DEF Check, Accepted, TagsAccepted, HasFile
<1>7. Asked(c)
  BY <1>4, <1>5, <1>6 DEF Asked
<1>8. Claimed(c)
  BY <1>5, <1>6 DEF Claimed, unique
<1>9. Adds(c)
  BY <1>5 DEF Adds
<1>q. QED
  BY <1>3, <1>5, <1>7, <1>8, <1>9 DEF c

LEMMA CheckTaskKeeps ==
  ASSUME FormInv, checkTask
  PROVE  FormInv'
<1>1. /\ Check(request) /\ Adds(request) /\ request' = Checked(request)
      /\ UNCHANGED <<page, form, picked, off, cover, dialog, tasks, late, raced>>
  BY DEF checkTask, Check, pageVars
<1>2. /\ Asked(request) /\ Claimed(request) /\ Sent(request, form)
      /\ cover /\ dialog = "closed"
      /\ \A s \in Slots : Adds(late[s]) => Rivals(late[s], request)
  BY <1>1 DEF FormInv, Waiting, Claims
<1> DEFINE c == Checked(request)
<1>3. Asked(c) /\ Claimed(c) /\ Adds(c) /\ plans' \in Nat /\ c.form = request.form
  BY <1>1, <1>2, CheckedAsked
<1> HIDE DEF c
<1>4. request' = c
  BY <1>1 DEF c
<1>5. Asked(request)' /\ Claimed(request)' /\ Sent(request, form)' /\ Adds(request')
  BY <1>1, <1>2, <1>3, <1>4 DEF Asked, Claimed, Sent
<1>6. Waiting'
  BY <1>1, <1>2, <1>5 DEF Waiting, Adds
<1>7. Shape' /\ Stored' /\ Switches' /\ Owned' /\ NamesUnique'
  BY <1>1, <1>3 DEF FormInv, Shape, Stored, Switches, Owned, NamesUnique
<1>8. \A q : Asked(q) => Asked(q)'
  BY <1>1 DEF Asked
<1>9. Running'
  BY <1>1, <1>8 DEF FormInv, Running
<1>10. Claims'
  <2>1. \A s \in Slots : Adds(late[s]) => Rivals(late[s], request)'
    BY <1>1, <1>2, <1>3, <1>4 DEF Rivals
  <2>2. /\ \A s \in Slots : Adds(late[s]) => Claimed(late[s])
        /\ \A s, z \in Slots : s # z /\ Adds(late[s]) /\ Adds(late[z]) => Rivals(late[s], late[z])
    BY DEF FormInv, Claims
  <2>3. /\ \A q : Claimed(q) => Claimed(q)'
        /\ \A q, z : Rivals(q, z) => Rivals(q, z)'
    BY <1>1 DEF Claimed, Rivals
  <2>q. QED
    BY <1>1, <1>5, <2>1, <2>2, <2>3 DEF Claims
<1>q. QED
  BY <1>6, <1>7, <1>9, <1>10 DEF FormInv

(* The requests without a page change in one slot, to nothing or to one     *)
(* that is as it should be.                                                 *)
LateStep(s, c) ==
  /\ late' = [late EXCEPT ![s] = c]
  /\ \/ c = NoRequest
     \/ /\ Adds(c) /\ Asked(c)' /\ Claimed(c)'
        /\ Adds(request') => Rivals(c, request)'
        /\ \A z \in Slots \ {s} : Adds(late[z]) => Rivals(c, late[z])'

LEMMA LateKeeps ==
  ASSUME FormInv, NEW s \in Slots, NEW c, LateStep(s, c),
         \A q : Asked(q) => Asked(q)',
         \A z \in Slots \ {s} : Adds(late[z]) => Claimed(late[z])',
         raced \subseteq raced',
         Adds(request') => /\ request'.form = request.form /\ Adds(request)
                           /\ Claimed(request)'
  PROVE  Running' /\ Claims' /\ DOMAIN late' = Slots
<1>1. /\ DOMAIN late' = Slots /\ late'[s] = c
      /\ \A z \in Slots \ {s} : late'[z] = late[z]
  BY DEF LateStep, FormInv, Shape
<1>2. ~Adds(NoRequest)
  BY DEF Adds, NoRequest
<1>3. Running'
  BY <1>1 DEF LateStep, FormInv, Running
<1>4. \A z \in Slots : Adds(late'[z]) => Claimed(late[z])'
  BY <1>1, <1>2 DEF LateStep, Claimed
<1>5. \A z \in Slots : Adds(late'[z]) /\ Adds(request') => Rivals(late[z], request)'
  <2>1. \A z \in Slots : Adds(late[z]) /\ Adds(request) => Rivals(late[z], request)
    BY DEF FormInv, Claims
  <2>q. QED
    BY <1>1, <1>2, <2>1 DEF LateStep, Rivals
<1>6. \A y, z \in Slots : y # z /\ Adds(late'[y]) /\ Adds(late'[z]) => Rivals(late[y], late[z])'
  <2>1. \A y, z \in Slots : y # z /\ Adds(late[y]) /\ Adds(late[z]) => Rivals(late[y], late[z])
    BY DEF FormInv, Claims
  <2>q. QED
    BY <1>1, <1>2, <2>1 DEF LateStep, Rivals
<1>q. QED
  BY <1>1, <1>3, <1>4, <1>5, <1>6 DEF Claims

LEMMA CheckLateKeeps ==
  ASSUME FormInv, NEW s \in Slots, checkLate(s)
  PROVE  FormInv'
<1> DEFINE q == late[s]
<1>0. PICK c : c = Checked(q)
  OBVIOUS
<1>1. /\ Check(q) /\ Adds(q) /\ late' = [late EXCEPT ![s] = c]
      /\ UNCHANGED <<page, form, picked, off, cover, dialog, request, tasks, raced>>
  BY <1>0 DEF checkLate, Check, pageVars
<1>2. Asked(q) /\ Claimed(q)
  <2>1. q # NoRequest
    BY <1>1 DEF Adds, NoRequest
  <2>q. QED
    BY <1>1, <2>1 DEF FormInv, Running, Claims
<1>3. Asked(c) /\ Claimed(c) /\ Adds(c) /\ plans' \in Nat /\ c.form = q.form
  BY <1>0, <1>1, <1>2, CheckedAsked
<1>4. /\ Adds(request) => Rivals(q, request)
      /\ \A z \in Slots \ {s} : Adds(late[z]) => Rivals(q, late[z])
  BY <1>1 DEF FormInv, Claims
<1> HIDE DEF q
<1>5. \A x : Asked(x) => Asked(x)'
  BY <1>1 DEF Asked
<1>6. \A x : Claimed(x) => Claimed(x)'
  BY <1>1 DEF Claimed
<1>7. /\ Adds(request) => Rivals(c, request)'
      /\ \A z \in Slots \ {s} : Adds(late[z]) => Rivals(c, late[z])'
  <2>1. \A z \in Slots \ {s} : late'[z] = late[z]
    BY <1>1 DEF FormInv, Shape
  <2>q. QED
    BY <1>1, <1>3, <1>4, <2>1 DEF Rivals
<1>8. LateStep(s, c)
  <2>1. Asked(c)' /\ Claimed(c)'
    BY <1>3, <1>5, <1>6
  <2>q. QED
    BY <1>1, <1>3, <1>7, <2>1 DEF LateStep
<1>9. \A z \in Slots \ {s} : late'[z] = late[z]
  BY <1>1 DEF FormInv, Shape
<1>10. /\ \A z \in Slots \ {s} : Adds(late[z]) => Claimed(late[z])'
       /\ Adds(request) => Claimed(request)'
  BY <1>1, <1>6, <1>9 DEF FormInv, Claims, Claimed
<1>11. Running' /\ Claims' /\ DOMAIN late' = Slots
  BY <1>1, <1>5, <1>8, <1>10, LateKeeps
<1>12. Shape' /\ Stored' /\ Switches' /\ NamesUnique'
  BY <1>1, <1>3, <1>11 DEF FormInv, Shape, Stored, Switches, NamesUnique
<1>13. Owned'
  <2>1. \A z \in Slots : Adds(late'[z]) => Adds(late[z]) /\ late'[z].form = late[z].form
    BY <1>1, <1>3, <1>9, <1>11 DEF FormInv, Shape, q
  <2>q. QED
    BY <1>1, <2>1 DEF FormInv, Owned
<1>14. Waiting'
  BY <1>1, <1>5 DEF FormInv, Waiting
<1>q. QED
  BY <1>11, <1>12, <1>13, <1>14 DEF FormInv

-----------------------------------------------------------------------------
(* What "add" leaves: one row is written, the form's own or a new one, and  *)
(* where another has its name, the name was raced for.                      *)
OwnRow(f) == IF f.task # None THEN f.task ELSE Len(tasks) + 1

LEMMA RowStored ==
  ASSUME FormInv, NEW q, Asked(q), NEW v \in BOOLEAN
  PROVE  /\ Row(q, v) \in StoredRows /\ Good(Row(q, v))
         /\ Row(q, v).name = q.form.name
<1> DEFINE f == q.form
           r == Row(q, v)
           st == IF q.kind = "drafted" THEN "drafted" ELSE moderate(q.code, v)
<1>1. /\ f \in PageForms /\ Good(f) /\ q.code = f.code /\ f.name # None
      /\ q.plan \in Nat \cup {None}
  BY DEF Asked
<1>2. /\ f.name \in Names /\ f.inc \in SUBSET Items /\ f.exc \in SUBSET Items
      /\ f.file \in RecipientFiles \cup {None} /\ f.camp \in BOOLEAN /\ f.code \in SendCodes
  BY <1>1 DEF PageForms
<1>3. st \in Statuses
  BY DEF moderate, Statuses
<1>4. r = [name |-> f.name, inc |-> f.inc, exc |-> f.exc, file |-> f.file,
           camp |-> f.camp, code |-> q.code, plan |-> q.plan, status |-> st]
  BY DEF Row
<1> HIDE DEF f, r, st
<1>5. r \in StoredRows
  BY <1>1, <1>2, <1>3, <1>4 DEF StoredRows
<1>6. r.name = f.name /\ r.inc = f.inc /\ r.exc = f.exc /\ r.camp = f.camp /\ r.code = f.code
  BY <1>1, <1>4
<1>7. Good(r)
  BY <1>1, <1>6 DEF Good
<1>q. QED
  BY <1>5, <1>6, <1>7 DEF r, f

(* How the rows change *)
Written(f, t) ==
  /\ tasks' \in Seq(StoredRows)
  /\ t \in Nat /\ (f.task = None => Len(tasks') = t) /\ (f.task # None => t = f.task)
  /\ DOMAIN tasks' = DOMAIN tasks \cup {t}
  /\ \A u \in DOMAIN tasks : u # t => tasks'[u] = tasks[u]
  /\ tasks'[t].name = f.name /\ Good(tasks'[t])
  /\ \A u \in DOMAIN tasks : u # t /\ tasks[u].name = f.name => f.name \in raced

LEMMA StoreRow ==
  ASSUME FormInv, NEW q, Asked(q), Claimed(q), NEW v \in BOOLEAN, Store(q, v)
  PROVE  Written(q.form, OwnRow(q.form)) /\ UNCHANGED <<plans, raced>>
<1> DEFINE f == q.form
           t == OwnRow(f)
           r == Row(q, v)
<1>1. /\ q.checked /\ UNCHANGED <<plans, raced>>
      /\ tasks' = IF f.task # None THEN [tasks EXCEPT ![f.task] = r] ELSE Append(tasks, r)
  BY DEF Store
<1>2. r \in StoredRows /\ Good(r) /\ r.name = f.name
  BY RowStored
<1>3. /\ tasks \in Seq(StoredRows)
      /\ (f.task # None => f.task \in DOMAIN tasks)
      /\ \A u \in DOMAIN tasks : u # f.task /\ tasks[u].name = f.name => f.name \in raced
  BY <1>1 DEF FormInv, Shape, Asked, Claimed
<1> HIDE DEF r, f
<1>6. CASE f.task # None
  <2>1. t = f.task /\ t \in DOMAIN tasks /\ t \in Nat
    BY <1>3, <1>6 DEF OwnRow
  <2>2. /\ tasks' \in Seq(StoredRows) /\ DOMAIN tasks' = DOMAIN tasks
        /\ tasks'[t] = r /\ \A u \in DOMAIN tasks : u # t => tasks'[u] = tasks[u]
    <3>1. tasks' = [tasks EXCEPT ![t] = r]
      BY <1>1, <1>6, <2>1
    <3>q. QED
      BY <1>2, <1>3, <2>1, <3>1
  <2>3. Written(f, t)
    BY <1>2, <1>3, <1>6, <2>1, <2>2 DEF Written
  <2>q. QED
    BY <1>1, <2>3 DEF f
<1>7. CASE f.task = None
  <2>1. t = Len(tasks) + 1 /\ t \in Nat /\ t \notin DOMAIN tasks
    BY <1>3, <1>7 DEF OwnRow
  <2>2. /\ tasks' \in Seq(StoredRows) /\ DOMAIN tasks' = DOMAIN tasks \cup {t}
        /\ Len(tasks') = t
        /\ tasks'[t] = r /\ \A u \in DOMAIN tasks : tasks'[u] = tasks[u]
    <3>1. tasks' = Append(tasks, r)
      BY <1>1, <1>7
    <3>2. Len(tasks) \in Nat /\ DOMAIN tasks = 1 .. Len(tasks)
      BY <1>3
    <3>3. /\ Append(tasks, r) \in Seq(StoredRows) /\ Len(Append(tasks, r)) = Len(tasks) + 1
          /\ DOMAIN Append(tasks, r) = 1 .. Len(tasks) + 1
          /\ Append(tasks, r)[Len(tasks) + 1] = r
          /\ \A u \in 1 .. Len(tasks) : Append(tasks, r)[u] = tasks[u]
      BY <1>2, <1>3, <3>2
    <3>4. 1 .. Len(tasks) + 1 = (1 .. Len(tasks)) \cup {Len(tasks) + 1}
      BY <3>2
    <3>q. QED
      BY <2>1, <3>1, <3>2, <3>3, <3>4
  <2>3. \A u \in DOMAIN tasks : u # None
    <3>1. \A u \in DOMAIN tasks : u \in Nat
      BY <1>3
    <3>q. QED
      BY <3>1, FormAssumption
  <2>4. Written(f, t)
    BY <1>2, <1>3, <1>7, <2>1, <2>2, <2>3 DEF Written
  <2>q. QED
    BY <1>1, <2>4 DEF f
<1>q. QED
  BY <1>6, <1>7

(* The rows stay as they should be, and so does what the other requests and *)
(* the form claim.                                                          *)
LEMMA WrittenKeeps ==
  ASSUME FormInv, NEW f, NEW t, Written(f, t), UNCHANGED <<plans, raced>>
  PROVE  /\ \A u \in DOMAIN tasks' : Good(tasks'[u])
         /\ NamesUnique'
         /\ \A q : Asked(q) => Asked(q)'
         /\ \A q : Claimed(q) /\ (q.form.name = f.name => f.name \in raced) => Claimed(q)'
<1>1. \A u \in DOMAIN tasks' : Good(tasks'[u])
  BY DEF FormInv, Stored, Written
<1>2. NamesUnique'
  <2> SUFFICES ASSUME NEW x \in DOMAIN tasks', NEW y \in DOMAIN tasks',
                      tasks'[x].name = tasks'[y].name, x # y
               PROVE  tasks'[x].name \in raced
    BY DEF NamesUnique
  <2>1. CASE x = t
    BY <2>1 DEF Written
  <2>2. CASE y = t
    BY <2>2 DEF Written
  <2>3. CASE x # t /\ y # t
    BY <2>3 DEF Written, FormInv, NamesUnique
  <2>q. QED
    BY <2>1, <2>2, <2>3
<1>3. \A q : Asked(q) => Asked(q)'
  <2>1. DOMAIN tasks \subseteq DOMAIN tasks'
    BY DEF Written
  <2>q. QED
    BY <2>1 DEF Asked
<1>4. ASSUME NEW q, Claimed(q), q.form.name = f.name => f.name \in raced
      PROVE  Claimed(q)'
  <2> SUFFICES ASSUME q.checked \/ q.form.name = q.form.org,
                      NEW u \in DOMAIN tasks', u # q.form.task, tasks'[u].name = q.form.name
               PROVE  q.form.name \in raced
    BY DEF Claimed
  <2>1. CASE u = t
    BY <1>4, <2>1 DEF Written
  <2>2. CASE u # t
    BY <1>4, <2>2 DEF Written, Claimed
  <2>q. QED
    BY <2>1, <2>2
<1>q. QED
  BY <1>1, <1>2, <1>3, <1>4

(* The page's own request is stored. *)
LEMMA OwnStored ==
  ASSUME FormInv, Adds(request), NEW v \in BOOLEAN, Store(request, v),
         request' = NoRequest, late' = late
  PROVE  /\ Written(request.form, OwnRow(request.form)) /\ UNCHANGED <<plans, raced>>
         /\ Running' /\ Claims' /\ NamesUnique'
         /\ \A u \in DOMAIN tasks' : Good(tasks'[u])
<1>1. Asked(request) /\ Claimed(request)
  BY DEF FormInv, Waiting, Claims
<1> DEFINE f == request.form
           t == OwnRow(f)
<1>2. Written(f, t) /\ UNCHANGED <<plans, raced>>
  BY <1>1, StoreRow
<1> HIDE DEF f, t
<1>3. /\ \A u \in DOMAIN tasks' : Good(tasks'[u])
      /\ NamesUnique'
      /\ \A q : Asked(q) => Asked(q)'
      /\ \A q : Claimed(q) /\ (q.form.name = f.name => f.name \in raced) => Claimed(q)'
  BY <1>2, WrittenKeeps
<1>4. Running'
  BY <1>3 DEF FormInv, Running
<1>5. ~Adds(request')
  BY DEF Adds, NoRequest
<1>6. \A s \in Slots : Adds(late[s]) => Claimed(late[s]) /\ Rivals(late[s], request)
  BY DEF FormInv, Claims
<1>7. \A s \in Slots : Adds(late[s]) => Claimed(late[s])'
  <2>1. ASSUME NEW s \in Slots, Adds(late[s]) PROVE Claimed(late[s])'
    <3>1. PICK q : q = late[s]
      OBVIOUS
    <3>2. Claimed(q) /\ (q.form.name = f.name => f.name \in raced)
      BY <1>6, <2>1, <3>1 DEF Rivals, f
    <3>3. Claimed(q)'
      BY <1>3, <3>2
    <3>q. QED
      BY <3>1, <3>3 DEF Claimed
  <2>q. QED
    BY <2>1
<1>8. \A s, z \in Slots : s # z /\ Adds(late[s]) /\ Adds(late[z]) => Rivals(late[s], late[z])'
  BY <1>2 DEF FormInv, Claims, Rivals
<1>9. Claims'
  BY <1>5, <1>7, <1>8 DEF Claims
<1>q. QED
  BY <1>2, <1>3, <1>4, <1>9 DEF f, t

LEMMA StoredKeeps ==
  ASSUME FormInv, taskStored
  PROVE  FormInv'
<1>1. /\ Adds(request) /\ request' = NoRequest /\ late' = late
      /\ UNCHANGED <<page, form, picked, off, dialog>>
      /\ \E v \in BOOLEAN : Store(request, v)
  BY DEF taskStored, pageVars, Adds
<1>2. PICK v \in BOOLEAN : Store(request, v)
  BY <1>1
<1> DEFINE f == request.form
           t == OwnRow(f)
<1>3. /\ Written(f, t) /\ UNCHANGED <<plans, raced>> /\ Running' /\ Claims' /\ NamesUnique'
      /\ \A u \in DOMAIN tasks' : Good(tasks'[u])
  BY <1>1, <1>2, OwnStored
<1>4. dialog = "closed" /\ f.task = form.task /\ f.name # None
  BY <1>1 DEF FormInv, Waiting, Sent, Asked
<1> HIDE DEF f, t
<1>5. Waiting'
  BY <1>1, <1>4 DEF Waiting, NoRequest, Adds
<1>6. Shape' /\ Stored' /\ Switches'
  BY <1>1, <1>3 DEF FormInv, Shape, Stored, Switches, Written
<1>7. Owned'
  <2>1. /\ form.task # None => form.task \in DOMAIN tasks'
        /\ form.task = None => form.org = None
    BY <1>3 DEF FormInv, Owned, Written
  <2>2. ASSUME NEW u \in DOMAIN tasks', u # form.task, tasks'[u].name = form.org
        PROVE  form.org \in raced
    <3>1. CASE u = t
      <4>1. form.org = f.name /\ form.task = None
        BY <1>3, <1>4, <2>2, <3>1 DEF Written
      <4>q. QED
        BY <1>4, <2>1, <4>1
    <3>2. CASE u # t
      BY <1>3, <2>2, <3>2 DEF FormInv, Owned, Written
    <3>q. QED
      BY <3>1, <3>2
  <2>q. QED
    BY <1>1, <1>3, <2>1, <2>2 DEF FormInv, Owned
<1>q. QED
  BY <1>3, <1>5, <1>6, <1>7 DEF FormInv

LEMMA DraftKeeps ==
  ASSUME FormInv, draftStored
  PROVE  FormInv'
<1> DEFINE f == request.form
           t == OwnRow(f)
           task == IF form.task # None THEN form.task ELSE Len(tasks')
           plan == IF request.code = "plan" THEN request.plan ELSE None
<1>1. /\ Adds(request) /\ Store(request, FALSE) /\ request' = NoRequest /\ late' = late
      /\ form' = [form EXCEPT !.task = task, !.plan = plan, !.org = f.name]
      /\ UNCHANGED <<page, picked, off, dialog>>
  BY DEF draftStored, Adds
<1>2. /\ Written(f, t) /\ UNCHANGED <<plans, raced>> /\ Running' /\ Claims' /\ NamesUnique'
      /\ \A u \in DOMAIN tasks' : Good(tasks'[u])
  BY <1>1, OwnStored
<1>3. /\ f \in PageForms /\ f.task = form.task /\ dialog = "closed" /\ Shape
      /\ request.plan \in Nat \cup {None}
      /\ \A s \in Slots : Adds(late[s]) => Rivals(late[s], request)
  BY <1>1 DEF FormInv, Waiting, Sent, Asked, Claims
<1>4. task = t /\ f.name \in Names \cup {None} /\ plan \in Nat \cup {None} /\ t # None
  <2>1. task = t /\ t \in Nat
    BY <1>2, <1>3 DEF Written
  <2>2. f.name \in Names \cup {None}
    BY <1>3 DEF PageForms
  <2>3. plan \in Nat \cup {None}
    BY <1>3
  <2>4. t # None
    BY <2>1, FormAssumption
  <2>q. QED
    BY <2>1, <2>2, <2>3, <2>4
<1>5. \A s \in Slots : Adds(late[s]) /\ late[s].form.name = f.name => f.name \in raced
  BY <1>3 DEF Rivals
<1> HIDE DEF f, t, task, plan
<1>6. /\ form' \in PageForms /\ form'.task = t /\ form'.org = f.name
      /\ form'.inc = form.inc /\ form'.exc = form.exc /\ form'.camp = form.camp
      /\ form'.code = form.code
  <2>1. t \in Nat
    BY <1>2 DEF Written
  <2>q. QED
    BY <1>1, <1>3, <1>4, <2>1 DEF Shape, PageForms
<1>7. Shape'
  BY <1>1, <1>2, <1>3, <1>6 DEF Shape, Written
<1>8. Good(form')
  BY <1>6 DEF FormInv, Stored, Good
<1>9. Stored'
  BY <1>2, <1>8 DEF Stored
<1>10. Switches'
  BY <1>1, <1>6 DEF FormInv, Switches
<1>11. Waiting'
  BY <1>1, <1>3 DEF Waiting, NoRequest, Adds
<1>12. Owned'
  BY <1>1, <1>2, <1>4, <1>5, <1>6 DEF Owned, Written
<1>q. QED
  BY <1>2, <1>7, <1>9, <1>10, <1>11, <1>12 DEF FormInv

LEMMA LateStoredKeeps ==
  ASSUME FormInv, NEW s \in Slots, lateStored(s)
  PROVE  FormInv'
<1> DEFINE q == late[s]
           f == q.form
           t == OwnRow(f)
<1>1. /\ Adds(q) /\ late' = [late EXCEPT ![s] = NoRequest]
      /\ UNCHANGED <<page, form, picked, off, cover, dialog, request>>
      /\ \E v \in BOOLEAN : Store(q, v)
  BY DEF lateStored, pageVars
<1>2. Asked(q) /\ Claimed(q)
  <2>1. q # NoRequest
    BY <1>1 DEF Adds, NoRequest
  <2>q. QED
    BY <1>1, <2>1 DEF FormInv, Running, Claims
<1>3. Written(f, t) /\ UNCHANGED <<plans, raced>>
  BY <1>1, <1>2, StoreRow
<1>4. /\ \A u \in DOMAIN tasks' : Good(tasks'[u])
      /\ NamesUnique'
      /\ \A x : Asked(x) => Asked(x)'
      /\ \A x : Claimed(x) /\ (x.form.name = f.name => f.name \in raced) => Claimed(x)'
  BY <1>3, WrittenKeeps
<1>5. /\ Adds(request) => Claimed(request) /\ (request.form.name = f.name => f.name \in raced)
      /\ \A z \in Slots \ {s} : Adds(late[z]) =>
           Claimed(late[z]) /\ (late[z].form.name = f.name => f.name \in raced)
  BY <1>1 DEF FormInv, Claims, Rivals
<1>6. /\ f.name = form.org => form.org \in raced \/ f.task = form.task
      /\ f.name # None
  BY <1>1, <1>2 DEF FormInv, Owned, Asked
<1> HIDE DEF f, t
<1>7. \A z \in Slots \ {s} : late'[z] = late[z]
  BY <1>1 DEF FormInv, Shape
<1>8. \A z \in Slots \ {s} : Adds(late[z]) => Claimed(late[z])'
  <2>1. ASSUME NEW z \in Slots \ {s}, Adds(late[z]) PROVE Claimed(late[z])'
    <3>1. PICK x : x = late[z]
      OBVIOUS
    <3>2. Claimed(x) /\ (x.form.name = f.name => f.name \in raced) /\ late'[z] = x
      BY <1>5, <1>7, <2>1, <3>1
    <3>3. Claimed(x)'
      BY <1>4, <3>2
    <3>q. QED
      BY <3>2, <3>3 DEF Claimed
  <2>q. QED
    BY <2>1
<1>9. Adds(request) => Claimed(request)'
  <2>1. Adds(request) => Claimed(request) /\ (request.form.name = f.name => f.name \in raced)
    BY <1>5
  <2>2. request' = request
    BY <1>1
  <2>q. QED
    BY <1>4, <2>1, <2>2 DEF Claimed
<1>10. LateStep(s, NoRequest)
  BY <1>1 DEF LateStep
<1>11. Running' /\ Claims' /\ DOMAIN late' = Slots
  BY <1>1, <1>3, <1>4, <1>8, <1>9, <1>10, LateKeeps
<1>12. Shape' /\ Stored' /\ Switches'
  BY <1>1, <1>3, <1>4, <1>11 DEF FormInv, Shape, Stored, Switches, Written
<1>13. Waiting'
  BY <1>1, <1>4 DEF FormInv, Waiting
<1>14. Owned'
  <2>1. /\ form.task # None => form.task \in DOMAIN tasks'
        /\ form.task = None => form.org = None
    BY <1>3 DEF FormInv, Owned, Written
  <2>2. ASSUME NEW u \in DOMAIN tasks', u # form.task, tasks'[u].name = form.org
        PROVE  form.org \in raced
    <3>1. CASE u = t
      <4>1. form.org = f.name
        BY <1>3, <2>2, <3>1 DEF Written
      <4>2. f.task = form.task /\ form.task # None => FALSE
        BY <1>3, <2>2, <3>1 DEF Written
      <4>q. QED
        BY <1>6, <2>1, <4>1, <4>2
    <3>2. CASE u # t
      BY <1>3, <2>2, <3>2 DEF FormInv, Owned, Written
    <3>q. QED
      BY <3>1, <3>2
  <2>3. \A z \in Slots : Adds(late'[z]) => late'[z] = late[z] /\ z # s
    <3>1. late'[s] = NoRequest /\ ~Adds(NoRequest)
      BY <1>1 DEF FormInv, Shape, Adds, NoRequest
    <3>q. QED
      BY <1>7, <3>1
  <2>q. QED
    BY <1>1, <1>3, <2>1, <2>2, <2>3 DEF FormInv, Owned
<1>q. QED
  BY <1>4, <1>11, <1>12, <1>13, <1>14 DEF FormInv

(* Refusals, and requests that are given up *)
LEMMA RefuseTyped ==
  ASSUME FormInv, NEW q, Refuse(q)
  PROVE  plans' \in Nat
<1>1. plans \in Nat
  BY DEF FormInv, Shape
<1>2. UNCHANGED plans \/ SavePlan(q)
  BY DEF Refuse
<1>q. QED
  BY <1>1, <1>2 DEF SavePlan

LEMMA RefusedKeeps ==
  ASSUME FormInv, refused
  PROVE  FormInv'
<1>1. /\ Adds(request) /\ Refuse(request) /\ request' = NoRequest
      /\ UNCHANGED <<page, form, picked, off, dialog, tasks, late, raced>>
  BY DEF refused, Refuse, pageVars
<1>2. plans' \in Nat /\ ~Adds(request') /\ dialog = "closed"
  BY <1>1, RefuseTyped DEF Adds, NoRequest, FormInv, Waiting
<1>3. Shape' /\ Stored' /\ Switches' /\ Owned' /\ NamesUnique'
  BY <1>1, <1>2 DEF FormInv, Shape, Stored, Switches, Owned, NamesUnique
<1>4. Waiting'
  BY <1>1, <1>2 DEF Waiting, NoRequest
<1>5. \A q : Asked(q) => Asked(q)'
  BY <1>1 DEF Asked
<1>6. Running'
  BY <1>1, <1>5 DEF FormInv, Running
<1>7. Claims'
  BY <1>1, <1>2 DEF FormInv, Claims, Claimed, Rivals
<1>q. QED
  BY <1>3, <1>4, <1>6, <1>7 DEF FormInv

LEMMA LateRefusedKeeps ==
  ASSUME FormInv, NEW s \in Slots, lateRefused(s)
  PROVE  FormInv'
<1>1. /\ Refuse(late[s]) /\ late' = [late EXCEPT ![s] = NoRequest]
      /\ UNCHANGED <<page, form, picked, off, cover, dialog, request, tasks, raced>>
  BY DEF lateRefused, pageVars
<1>2. plans' \in Nat
  BY <1>1, RefuseTyped
<1>3. late'[s] = NoRequest /\ ~Adds(NoRequest) /\ \A z \in Slots \ {s} : late'[z] = late[z]
  BY <1>1 DEF FormInv, Shape, Adds, NoRequest
<1>4. \A x : Asked(x) => Asked(x)'
  BY <1>1 DEF Asked
<1>5. /\ Adds(request) => Claimed(request)'
      /\ \A z \in Slots \ {s} : Adds(late[z]) => Claimed(late[z])'
  BY <1>1, <1>3 DEF FormInv, Claims, Claimed
<1>6. LateStep(s, NoRequest)
  BY <1>1 DEF LateStep
<1>7. Running' /\ Claims' /\ DOMAIN late' = Slots
  BY <1>1, <1>4, <1>5, <1>6, LateKeeps
<1>8. Shape' /\ Stored' /\ Switches' /\ NamesUnique'
  BY <1>1, <1>2, <1>7 DEF FormInv, Shape, Stored, Switches, NamesUnique
<1>9. Waiting'
  BY <1>1, <1>4 DEF FormInv, Waiting
<1>10. Owned'
  BY <1>1, <1>3 DEF FormInv, Owned
<1>q. QED
  BY <1>7, <1>8, <1>9, <1>10 DEF FormInv

LEMMA AbandonKeeps ==
  ASSUME FormInv, Adds(request), Abandon(request), request' = NoRequest,
         UNCHANGED <<tasks, plans, raced>>
  PROVE  /\ Running' /\ Claims' /\ DOMAIN late' = Slots
         /\ \A z \in Slots : Adds(late'[z]) => late'[z] \in {late[z], request}
<1>1. PICK s \in Slots : late[s] = NoRequest /\ late' = [late EXCEPT ![s] = request]
  BY DEF Abandon
<1>2. Asked(request) /\ Claimed(request)
  BY DEF FormInv, Waiting, Claims
<1>3. late'[s] = request /\ \A z \in Slots \ {s} : late'[z] = late[z]
  BY <1>1 DEF FormInv, Shape
<1>4. \A x : Asked(x) => Asked(x)'
  BY DEF Asked
<1> DEFINE c == request
<1>5. /\ \A z \in Slots : Adds(late[z]) => Claimed(late[z]) /\ Rivals(late[z], c)
      /\ Adds(c) /\ Asked(c) /\ Claimed(c) /\ late' = [late EXCEPT ![s] = c]
  BY <1>1, <1>2 DEF FormInv, Claims
<1>6. ~Adds(request')
  BY DEF Adds, NoRequest
<1>7. PICK d : d = c
  OBVIOUS
<1> HIDE DEF c
<1>8. /\ Adds(d) /\ Asked(d) /\ Claimed(d) /\ late' = [late EXCEPT ![s] = d]
      /\ \A z \in Slots : Adds(late[z]) => Claimed(late[z]) /\ Rivals(late[z], d)
  BY <1>5, <1>7
<1>9. Asked(d)' /\ Claimed(d)'
  BY <1>4, <1>8 DEF Claimed
<1>10. \A z \in Slots \ {s} : Adds(late[z]) => Rivals(d, late[z])'
  BY <1>3, <1>8 DEF Rivals
<1>11. LateStep(s, d)
  BY <1>6, <1>8, <1>9, <1>10 DEF LateStep
<1>12. \A z \in Slots \ {s} : Adds(late[z]) => Claimed(late[z])'
  BY <1>3, <1>8 DEF Claimed
<1>13. Running' /\ Claims' /\ DOMAIN late' = Slots
  BY <1>4, <1>6, <1>11, <1>12, LateKeeps
<1>q. QED
  BY <1>3, <1>13

LEMMA LostKeeps ==
  ASSUME FormInv, answerLost
  PROVE  FormInv'
<1>1. /\ Adds(request) /\ Abandon(request) /\ request' = NoRequest
      /\ UNCHANGED <<page, form, picked, off, cover, dialog, tasks, plans, raced>>
  BY DEF answerLost, pageVars
<1>2. /\ Running' /\ Claims' /\ DOMAIN late' = Slots
      /\ \A z \in Slots : Adds(late'[z]) => late'[z] \in {late[z], request}
  BY <1>1, AbandonKeeps
<1>3. dialog = "closed" /\ request.form.task = form.task
  BY <1>1 DEF FormInv, Waiting, Sent
<1>4. Shape' /\ Stored' /\ Switches' /\ NamesUnique'
  BY <1>1, <1>2 DEF FormInv, Shape, Stored, Switches, NamesUnique
<1>5. Waiting'
  BY <1>1, <1>3 DEF Waiting, NoRequest, Adds
<1>6. Owned'
  BY <1>1, <1>2, <1>3 DEF FormInv, Owned
<1>q. QED
  BY <1>2, <1>4, <1>5, <1>6 DEF FormInv

LEMMA RedirectKeeps ==
  ASSUME FormInv, redirect
  PROVE  FormInv'
<1>1. /\ page' = "list" /\ dialog' = "closed" /\ request' = NoRequest
      /\ form' = BlankForm /\ picked' = [inc |-> {}, exc |-> {}]
      /\ UNCHANGED <<tasks, plans, raced>>
      /\ IF Adds(request) THEN Abandon(request) ELSE late' = late
  BY DEF redirect
<1>2. BlankForm \in PageForms /\ Good(BlankForm) /\ BlankForm.task = None /\ BlankForm.org = None
  BY DEF BlankForm, PageForms, Good, HasFile, SendCodes
<1>3. Running' /\ Claims' /\ DOMAIN late' = Slots
  <2>1. CASE Adds(request)
    BY <1>1, <2>1, AbandonKeeps
  <2>2. CASE ~Adds(request)
    <3>1. ~Adds(request')
      BY <1>1 DEF Adds, NoRequest
    <3>q. QED
      BY <1>1, <2>2, <3>1, ServerSame DEF FormInv, Shape, Claims
  <2>q. QED
    BY <2>1, <2>2
<1>4. \A u \in DOMAIN tasks : tasks[u].name # None
  <2>1. \A u \in DOMAIN tasks : tasks[u] \in StoredRows
    BY DEF FormInv, Shape
  <2>q. QED
    BY <2>1, FormAssumption DEF StoredRows
<1>5. \A s \in Slots : Adds(late'[s]) => late'[s].form.name # None
  <2>1. ~Adds(NoRequest)
    BY DEF Adds, NoRequest
  <2>q. QED
    BY <1>3, <2>1 DEF Running, Asked
<1>6. Shape' /\ Stored' /\ Switches' /\ NamesUnique'
  BY <1>1, <1>2, <1>3 DEF FormInv, Shape, Stored, Switches, NamesUnique
<1>7. Owned'
  BY <1>1, <1>2, <1>4, <1>5 DEF Owned
<1>8. Waiting'
  BY <1>1 DEF Waiting, NoRequest, Adds
<1>q. QED
  BY <1>3, <1>6, <1>7, <1>8 DEF FormInv

LEMMA AuditKeeps ==
  ASSUME FormInv, NEW t \in DOMAIN tasks, audit(t)
  PROVE  FormInv'
<1>1. /\ UNCHANGED <<page, form, picked, off, cover, dialog, request, plans, late, raced>>
      /\ \E st \in {moderate(tasks[t].code, FALSE), "return"} :
           tasks' = [tasks EXCEPT ![t].status = st]
  BY DEF audit, pageVars
<1>2. PICK st \in {moderate(tasks[t].code, FALSE), "return"} :
        tasks' = [tasks EXCEPT ![t].status = st]
  BY <1>1
<1>3. st \in Statuses
  BY <1>2 DEF moderate, Statuses
<1>4. tasks \in Seq(StoredRows) /\ tasks[t] \in StoredRows
  BY DEF FormInv, Shape
<1> DEFINE r == [tasks[t] EXCEPT !.status = st]
<1>5. /\ r \in StoredRows /\ r.name = tasks[t].name /\ r.inc = tasks[t].inc
      /\ r.exc = tasks[t].exc /\ r.camp = tasks[t].camp /\ r.code = tasks[t].code
  BY <1>3, <1>4 DEF StoredRows
<1>6. tasks' = [tasks EXCEPT ![t] = r]
  BY <1>2, <1>4
<1> HIDE DEF r
<1>7. /\ tasks' \in Seq(StoredRows) /\ DOMAIN tasks' = DOMAIN tasks
      /\ \A u \in DOMAIN tasks : tasks'[u].name = tasks[u].name
      /\ \A u \in DOMAIN tasks : Good(tasks'[u])
  <2>1. tasks'[t] = r /\ \A u \in DOMAIN tasks : u # t => tasks'[u] = tasks[u]
    BY <1>6
  <2>2. tasks' \in Seq(StoredRows) /\ DOMAIN tasks' = DOMAIN tasks
    BY <1>4, <1>5, <1>6
  <2>3. Good(r)
    BY <1>5 DEF FormInv, Stored, Good
  <2>q. QED
    BY <1>5, <2>1, <2>2, <2>3 DEF FormInv, Stored
<1>8. \A q : Asked(q) => Asked(q)'
  BY <1>7 DEF Asked
<1>9. Shape' /\ Stored' /\ Switches' /\ Waiting'
  BY <1>1, <1>7, <1>8 DEF FormInv, Shape, Stored, Switches, Waiting
<1>10. Running'
  BY <1>1, <1>8 DEF FormInv, Running
<1>11. Owned' /\ NamesUnique'
  BY <1>1, <1>7 DEF FormInv, Owned, NamesUnique
<1>12. Claims'
  <2>1. \A q : Claimed(q) => Claimed(q)'
    BY <1>1, <1>7 DEF Claimed
  <2>2. \A p, q : Rivals(p, q) => Rivals(p, q)'
    BY <1>1 DEF Rivals
  <2>3. /\ Adds(request) => Claimed(request)
        /\ \A s \in Slots : Adds(late[s]) => Claimed(late[s])
        /\ \A s \in Slots : Adds(late[s]) /\ Adds(request) => Rivals(late[s], request)
        /\ \A s, z \in Slots : s # z /\ Adds(late[s]) /\ Adds(late[z]) => Rivals(late[s], late[z])
    BY DEF FormInv, Claims
  <2>q. QED
    BY <1>1, <2>1, <2>2, <2>3 DEF Claims
<1>q. QED
  BY <1>9, <1>10, <1>11, <1>12 DEF FormInv

-----------------------------------------------------------------------------
LEMMA FormNext == FormInv /\ [Next]_vars => FormInv'
<1> SUFFICES ASSUME FormInv, [Next]_vars PROVE FormInv'
  OBVIOUS
<1>1. CASE UNCHANGED vars
  <2>1. UNCHANGED <<page, form, picked, off, cover, dialog, request, tasks, plans, late, raced>>
    BY <1>1 DEF vars
  <2>2. Shape' /\ Stored' /\ Switches' /\ Owned'
    BY <2>1 DEF FormInv, Shape, Stored, Switches, Owned
  <2>3. Waiting' /\ Running' /\ Claims' /\ NamesUnique'
    BY <2>1, ServerSame DEF FormInv, Waiting, Claims
  <2>q. QED
    BY <2>2, <2>3 DEF FormInv
<1>2. CASE OpenNew \/ \E t \in DOMAIN tasks : OpenEdit(t) \/ OpenCopy(t)
  BY <1>2, OpenKeeps
<1>3. CASE \/ \E k \in SUBSET Files : initTag(k)
           \/ \E n \in Names : EditName(n)
           \/ \E i \in Items : pickIncludes(i)
           \/ \E i \in picked.inc : deleteInclude(i)
           \/ \E i \in Tags \cup TempFiles : pickExcludes(i)
           \/ \E i \in picked.exc : deleteExclude(i)
  BY <1>3, TagsKeep, NameKeeps, IncludeKeeps, DeleteIncludeKeeps, ExcludeKeeps
<1>4. CASE (\E c \in SendCodes : changeSendCode(c)) \/ disPeriod \/ deleteCamp
  BY <1>4, CodeKeeps, CampKeeps
<1>5. CASE drafted \/ getAjaxSum \/ confirmSend \/ closeDialog \/ error_message
           \/ selection \/ selectionFailed
  BY <1>5, DraftedKeeps, SumKeeps, ConfirmKeeps, MessageKeeps, SelectionKeeps
<1>6. CASE checkTask \/ draftStored \/ taskStored \/ refused \/ answerLost \/ redirect
  BY <1>6, CheckTaskKeeps, DraftKeeps, StoredKeeps, RefusedKeeps, LostKeeps, RedirectKeeps
<1>7. CASE \E s \in Slots : checkLate(s) \/ lateStored(s) \/ lateRefused(s)
  BY <1>7, CheckLateKeeps, LateStoredKeeps, LateRefusedKeeps
<1>8. CASE \E t \in DOMAIN tasks : audit(t)
  BY <1>8, AuditKeeps
<1>q. QED
  BY <1>1, <1>2, <1>3, <1>4, <1>5, <1>6, <1>7, <1>8 DEF Next

LEMMA FormInvariant == Spec => []FormInv
<1>1. Init => FormInv
  BY FormInit
<1>2. FormInv /\ [Next]_vars => FormInv'
  BY FormNext
<1>q. QED
  BY <1>1, <1>2, PTL DEF Spec

(* A task sent from a dialog that reported success goes to the recipients   *)
(* of the tags stored with it, however the form was changed, copied, saved  *)
(* and asked about before, and whenever the tag lists arrive.               *)
THEOREM SentIsSelected == Spec => []SentAsSelected
<1>1. FormInv => SentAsSelected
  <2> SUFFICES ASSUME FormInv, NEW q \in Requests, q.kind = "add", ~q.blind, q.checked
               PROVE  q.form.file = Recipients(q.form.inc, q.form.exc)
    BY DEF SentAsSelected
  <2>1. Adds(q) /\ q # NoRequest
    BY DEF Adds, NoRequest
  <2>2. Asked(q)
    BY <2>1 DEF FormInv, Waiting, Running, Requests
  <2>q. QED
    BY <2>2 DEF Asked, Matches
<1>q. QED
  BY <1>1, FormInvariant, PTL

(* No handler disables the send code that is checked: what the form plugin  *)
(* submits is what the user sees.                                           *)
THEOREM SendCodeIsKept == Spec => []SendCodeKept
<1>1. FormInv => SendCodeKept
  BY DEF FormInv, Waiting, Asked, SendCodeKept
<1>q. QED
  BY <1>1, FormInvariant, PTL

(* No stored task with a campaign is periodical, and none with a file is    *)
(* sent later, although the server does not check either.                   *)
THEOREM SendCodeIsAllowed == Spec => []SendCodeAllowed
<1>1. FormInv => SendCodeAllowed
  BY DEF FormInv, Stored, Good, SendCodeAllowed
<1>q. QED
  BY <1>1, FormInvariant, PTL

(* No task is stored with a file and tags to exclude, which would have no   *)
(* effect.                                                                  *)
THEOREM ExcludesHaveEffect == Spec => []ExcludesEffective
<1>1. FormInv => ExcludesEffective
  BY DEF FormInv, Stored, Good, ExcludesEffective
<1>q. QED
  BY <1>1, FormInvariant, PTL

(* No two stored tasks have one name that was not raced for by two requests *)
(* under way at one time: the name that unique() lets pass without a look,  *)
(* the one the form came with, is the form's task's own, and a request past *)
(* the look finds no new row with its name.                                 *)
THEOREM NamesAreUnique == Spec => []NamesUnique
<1>1. FormInv => NamesUnique
  BY DEF FormInv
<1>q. QED
  BY <1>1, FormInvariant, PTL
=============================================================================
