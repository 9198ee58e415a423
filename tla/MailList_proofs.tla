--------------------------- MODULE MailList_proofs ---------------------------
(***************************************************************************)
(* Proofs about MailList.  Nothing is assumed of the elements of queue:    *)
(* its removal of tasks by SelectSeq is unknown to the provers, so that a  *)
(* session's task is taken to be anything; one that is no task has no list *)
(* to change.                                                              *)
(***************************************************************************)
EXTENDS MailList, TLAPS, FiniteSetTheorems

PcSet == {"idle", "chosen", "lock", "loop", "give", "wrap"}

SesShape(x) ==
  /\ DOMAIN x = {"pc", "task", "dom", "left", "next"}
  /\ x.pc \in PcSet
  /\ x.pc \in PcSet \ {"idle", "chosen"} => x.dom \in Domains

AgainShape(r) ==
  /\ r = <<r[1], r[2], r[3]>>
  /\ r[1] \in Lists
  /\ r[2] \in Boxes(r[1])
  /\ r[3] \in Kinds

Shape ==
  /\ finish \in [Tasks -> {"no", "self", "stop"}]
  /\ marking \in [Tasks -> SUBSET Domains]
  /\ round \in [Lists -> Nat]
  /\ pos \in [Lists -> Nat]
  /\ DOMAIN stat = Lists /\ \A l \in Lists : stat[l] \in [Boxes(l) -> Status]
  /\ count \in [Lists -> CountType]
  /\ DOMAIN ses = Sessions /\ \A s \in Sessions : SesShape(ses[s])
  /\ DOMAIN given = Lists /\ \A l \in Lists : given[l] \in [Boxes(l) -> Nat]
  /\ DOMAIN told = Lists /\ \A l \in Lists : told[l] \in [Boxes(l) -> Nat]
  /\ \A r \in again : AgainShape(r)
  /\ repeats \in Nat
  /\ late \in [Tasks -> Nat]

core == <<finish, marking, round, pos, stat, count, ses, given, told, again,
          repeats, late, undone>>

-----------------------------------------------------------------------------
(* The steps, and the types *)

LEMMA NextCases ==
  ASSUME [Next]_vars
  PROVE  \/ UNCHANGED core
         \/ \E t \in Tasks : StopTask(t)
         \/ \E t \in Tasks, d \in Domains : StopList(t, d)
         \/ \E R \in SUBSET Tasks : MainPass(R)
         \/ \E s \in Sessions : Choose(s) \/ Lock(s) \/ Loop(s) \/ EndSession(s)
         \/ \E s \in Sessions, d \in Domains, n \in 1 .. MaxAsk : Ask(s, d, n)
         \/ \E s \in Sessions : Give(s)
         \/ \E s \in Sessions : Wrap(s)
         \/ \E l \in Lists : \E i \in Boxes(l), k \in Kinds : Report(l, i, k)
         \/ \E r \in again : RepeatReport(r)
<1> USE DEF core, vars, taskVars, listVars, statVars, engVars, stopVars
<1>1. CASE UNCHANGED vars
  BY <1>1
<1>2. CASE \E t \in Tasks : AddTask(t) \/ PauseTask(t) \/ RestartTask(t)
  BY <1>2 DEF AddTask, PauseTask, RestartTask
<1>3. CASE ChangeWaterMode
  BY <1>3 DEF ChangeWaterMode
<1>4. CASE \E l \in Lists : RoundPeriod(l)
  BY <1>4 DEF RoundPeriod
<1>q. QED
  BY <1>1, <1>2, <1>3, <1>4 DEF Next, StopSession, MainThread, Handling

(* A report leads to one of the status bytes, but not to that of a mailbox  *)
(* nothing was reported of.                                                 *)
LEMMA StatusOfType ==
  ASSUME NEW k \in Kinds
  PROVE  StatusOf(k) \in Status \ {"new"}
<1>1. k \in Letters \X Texts
  BY ListAssumption
<1>2. k[1] \in {"s", "d", "f"}
  BY <1>1 DEF Letters
<1>3. \A o \in {"delay", "fail"} : TextStat(k[2], o) \in Status \ {"new"}
  BY DEF TextStat, Status
<1>q. QED
  BY <1>2, <1>3 DEF StatusOf, Status

LEMMA CountedType ==
  ASSUME NEW c \in CountType, NEW old, NEW new
  PROVE  Counted(c, old, new) \in CountType
<1>1. \A b : One(b) \in Int
  BY DEF One
<1>q. QED
  BY <1>1 DEF Counted, CountType

(* What a status change does. *)
LEMMA ChangeStatShape ==
  ASSUME Shape, NEW l \in Lists, NEW i \in Boxes(l), NEW new \in Status,
         ChangeStat(l, i, new)
  PROVE  /\ DOMAIN stat' = Lists /\ \A m \in Lists : stat'[m] \in [Boxes(m) -> Status]
         /\ count' \in [Lists -> CountType]
<1>1. CASE InQueue(l[1])
  <2>1. /\ stat' = [stat EXCEPT ![l][i] = new]
        /\ count' = [count EXCEPT ![l] = Counted(@, stat[l][i], new)]
    BY <1>1 DEF ChangeStat
  <2>2. Counted(count[l], stat[l][i], new) \in CountType
    BY CountedType DEF Shape
  <2>q. QED
    BY <2>1, <2>2 DEF Shape
<1>2. CASE ~InQueue(l[1])
  BY <1>2 DEF ChangeStat, statVars, Shape
<1>q. QED
  BY <1>1, <1>2

others == <<finish, marking, round, pos, stat, count, given, told, again, repeats,
            late, undone>>

(* What a session's own steps do. *)
LEMMA ChooseSes ==
  ASSUME Shape, NEW s \in Sessions, Choose(s)
  PROVE  /\ UNCHANGED others
         /\ DOMAIN ses' = Sessions
         /\ \A r \in Sessions \ {s} : ses'[r] = ses[r]
         /\ SesShape(ses'[s])
         /\ ses[s].pc = "idle" /\ ses'[s].pc = "chosen"
<1>1. \E t : ses' = [ses EXCEPT ![s] = [Idle EXCEPT !.pc = "chosen", !.task = t]]
  BY DEF Choose
<1>2. ses[s].pc = "idle" /\ UNCHANGED others
  BY DEF Choose, others, taskVars, listVars, statVars, engVars, stopVars
<1>3. DOMAIN ses = Sessions
  BY DEF Shape
<1>q. QED
  BY <1>1, <1>2, <1>3 DEF Idle, SesShape, PcSet

LEMMA EndSes ==
  ASSUME Shape, NEW s \in Sessions, EndSession(s)
  PROVE  /\ UNCHANGED others
         /\ DOMAIN ses' = Sessions
         /\ \A r \in Sessions \ {s} : ses'[r] = ses[r]
         /\ SesShape(ses'[s])
         /\ ses[s].pc = "chosen" /\ ses'[s].pc = "idle"
  BY DEF EndSession, Idle, Shape, SesShape, PcSet, others, taskVars, listVars,
         statVars, engVars, stopVars

LEMMA AskSes ==
  ASSUME Shape, NEW s \in Sessions, NEW d \in Domains, NEW n, Ask(s, d, n)
  PROVE  /\ UNCHANGED others
         /\ DOMAIN ses' = Sessions
         /\ \A r \in Sessions \ {s} : ses'[r] = ses[r]
         /\ SesShape(ses'[s])
         /\ ses[s].pc = "chosen" /\ ses'[s].pc = "lock"
<1>1. SesShape(ses[s]) /\ DOMAIN ses = Sessions
  BY DEF Shape
<1>q. QED
  BY <1>1 DEF Ask, SesShape, PcSet, others, taskVars, listVars,
         statVars, engVars, stopVars

(* With the lock of its list a session does not change its task or domain. *)
SesTo(s, pc, next) ==
  /\ DOMAIN ses' = Sessions
  /\ \A r \in Sessions \ {s} : ses'[r] = ses[r]
  /\ SesShape(ses'[s])
  /\ ses'[s].pc = pc
  /\ ses'[s].next = next
  /\ ses'[s].task = ses[s].task
  /\ ses'[s].dom = ses[s].dom

LEMMA LockSes ==
  ASSUME Shape, NEW s \in Sessions, Lock(s)
  PROVE  /\ UNCHANGED others
         /\ SesTo(s, "loop", ses[s].next)
         /\ ses[s].pc = "lock"
         /\ ~Locked(ListOf(s))
<1>1. SesShape(ses[s]) /\ DOMAIN ses = Sessions
  BY DEF Shape
<1>q. QED
  BY <1>1 DEF Lock, SesShape, SesTo, PcSet, others, taskVars, listVars,
         statVars, engVars, stopVars

(* The outcome of a turn of the loop: it ends, or the next mailbox is that  *)
(* after nNowPos, or those after it are all delivered.                      *)
LEMMA LoopSes ==
  ASSUME Shape, NEW s \in Sessions, Loop(s)
  PROVE  /\ UNCHANGED others
         /\ ses[s].pc = "loop"
         /\ \/ SesTo(s, "chosen", ses[s].next)
            \/ /\ round[ListOf(s)] < RoundNum \/ ListOf(s) \notin Lists
               /\ \E i \in Boxes(ListOf(s)) :
                    /\ SesTo(s, "give", i)
                    /\ Candidate(ListOf(s), i)
                    /\ \A j \in Boxes(ListOf(s)) : Candidate(ListOf(s), j) => i <= j
            \/ /\ round[ListOf(s)] < RoundNum \/ ListOf(s) \notin Lists
               /\ SesTo(s, "wrap", round[ListOf(s)])
               /\ \A j \in Boxes(ListOf(s)) : ~Candidate(ListOf(s), j)
<1> DEFINE l == ListOf(s)
           stop == \/ ses[s].left = 0
                   \/ count[l].remain = 0
                   \/ round[l] >= RoundNum
                   \/ rest[l]
<1>1. SesShape(ses[s]) /\ DOMAIN ses = Sessions
  BY DEF Shape
<1>3. ses[s].pc = "loop"
  BY DEF Loop
<1>2. ses' = [ses EXCEPT ![s].pc = "chosen"] => SesTo(s, "chosen", ses[s].next)
  BY <1>1, <1>3 DEF SesTo, SesShape, PcSet
<1>4. \A n : /\ ses' = [ses EXCEPT ![s].pc = "give", ![s].next = n] => SesTo(s, "give", n)
             /\ ses' = [ses EXCEPT ![s].pc = "wrap", ![s].next = n] => SesTo(s, "wrap", n)
  BY <1>1, <1>3 DEF SesTo, SesShape, PcSet
<1>5. UNCHANGED others
  BY DEF Loop, others, taskVars, listVars, statVars, engVars, stopVars
<1>6. ~stop => round[l] < RoundNum \/ l \notin Lists
  <2> HIDE DEF l
  <2>1. CASE l \in Lists
    <3>1. round[l] \in Nat /\ RoundNum \in Nat
      BY <2>1, ListAssumption DEF Shape
    <3>q. QED
      BY <3>1
  <2>q. QED
    BY <2>1
<1>7. CASE stop /\ ses' = [ses EXCEPT ![s].pc = "chosen"]
  BY <1>2, <1>3, <1>5, <1>7
<1>8. ASSUME ~stop, NEW i \in {j \in Boxes(l) : Candidate(l, j)},
             \A j \in {j \in Boxes(l) : Candidate(l, j)} : i <= j,
             ses' = [ses EXCEPT ![s].pc = "give", ![s].next = i]
      PROVE  /\ round[l] < RoundNum \/ l \notin Lists
             /\ SesTo(s, "give", i)
             /\ Candidate(l, i)
             /\ \A j \in Boxes(l) : Candidate(l, j) => i <= j
  <2> HIDE DEF l, stop
  <2>q. QED
    BY <1>4, <1>6, <1>8
<1>9. ASSUME ~stop, {j \in Boxes(l) : Candidate(l, j)} = {},
             ses' = [ses EXCEPT ![s].pc = "wrap", ![s].next = round[l]]
      PROVE  /\ round[l] < RoundNum \/ l \notin Lists
             /\ SesTo(s, "wrap", round[l])
             /\ \A j \in Boxes(l) : ~Candidate(l, j)
  <2> HIDE DEF l, stop
  <2>q. QED
    BY <1>4, <1>6, <1>9
<1>10. \/ stop /\ ses' = [ses EXCEPT ![s].pc = "chosen"]
       \/ /\ ~stop
          /\ \E i \in {j \in Boxes(l) : Candidate(l, j)} :
               /\ \A j \in {j \in Boxes(l) : Candidate(l, j)} : i <= j
               /\ ses' = [ses EXCEPT ![s].pc = "give", ![s].next = i]
       \/ /\ ~stop /\ {j \in Boxes(l) : Candidate(l, j)} = {}
          /\ ses' = [ses EXCEPT ![s].pc = "wrap", ![s].next = round[l]]
  BY DEF Loop
<1> HIDE DEF stop
<1>q. QED
  BY <1>3, <1>5, <1>7, <1>8, <1>9, <1>10

LEMMA GiveSes ==
  ASSUME Shape, NEW s \in Sessions, Give(s)
  PROVE  ses[s].pc = "give" /\ SesTo(s, "loop", ses[s].next)
<1>1. SesShape(ses[s]) /\ DOMAIN ses = Sessions
  BY DEF Shape
<1>q. QED
  BY <1>1 DEF Give, SesShape, SesTo, PcSet

LEMMA WrapSes ==
  ASSUME Shape, NEW s \in Sessions, Wrap(s)
  PROVE  ses[s].pc = "wrap" /\ SesTo(s, "chosen", ses[s].next)
<1>1. SesShape(ses[s]) /\ DOMAIN ses = Sessions
  BY DEF Shape
<1>q. QED
  BY <1>1 DEF Wrap, SesShape, SesTo, PcSet

(* What Give and Wrap do to the lists. *)
LEMMA GiveLists ==
  ASSUME Shape, NEW s \in Sessions, Give(s)
  PROVE  /\ UNCHANGED <<finish, marking, round, stat, count, told, again, repeats, undone>>
         /\ DOMAIN pos' = Lists /\ DOMAIN given' = Lists
         /\ \A l \in Lists \ {ListOf(s)} : pos'[l] = pos[l] /\ given'[l] = given[l]
         /\ ListOf(s) \in Lists =>
              /\ pos'[ListOf(s)] = ses[s].next
              /\ given'[ListOf(s)] = [given[ListOf(s)] EXCEPT ![ses[s].next] = @ + 1]
         /\ DOMAIN late' = Tasks
         /\ \A t \in Tasks :
              late'[t] = IF t = ses[s].task /\ Stopped(t) THEN late[t] + 1 ELSE late[t]
<1>1. DOMAIN pos = Lists /\ DOMAIN given = Lists /\ late \in [Tasks -> Nat]
  BY DEF Shape
<1>2. /\ pos' = [pos EXCEPT ![ListOf(s)] = ses[s].next]
      /\ given' = [given EXCEPT ![ListOf(s)][ses[s].next] = @ + 1]
      /\ UNCHANGED <<finish, marking, round, stat, count, told, again, repeats, undone>>
      /\ late' = IF Stopped(ses[s].task)
                 THEN [late EXCEPT ![ses[s].task] = @ + 1] ELSE late
  BY DEF Give, taskVars, statVars, engVars
<1> HIDE DEF ListOf
<1>3. DOMAIN late' = Tasks /\ \A t \in Tasks :
              late'[t] = IF t = ses[s].task /\ Stopped(t) THEN late[t] + 1 ELSE late[t]
  BY <1>1, <1>2
<1>q. QED
  BY <1>1, <1>2, <1>3

LEMMA WrapLists ==
  ASSUME Shape, NEW s \in Sessions, Wrap(s)
  PROVE  /\ UNCHANGED <<finish, marking, stat, count, given, told, again, repeats, late>>
         /\ DOMAIN pos' = Lists /\ DOMAIN round' = Lists
         /\ \A l \in Lists \ {ListOf(s)} : pos'[l] = pos[l] /\ round'[l] = round[l]
         /\ ListOf(s) \in Lists =>
              pos'[ListOf(s)] = 0 /\ round'[ListOf(s)] = ses[s].next + 1
         /\ undone' = IF round[ListOf(s)] = Ended THEN undone \cup {ListOf(s)} ELSE undone
  BY DEF Wrap, Shape, taskVars, statVars, engVars

(* What a report does to the lists. *)
LEMMA ReportLists ==
  ASSUME Shape, NEW l \in Lists, NEW i \in Boxes(l), NEW k \in Kinds, Report(l, i, k)
  PROVE  /\ UNCHANGED <<finish, marking, round, pos, ses, given, late, undone>>
         /\ told[l][i] < given[l][i]
         /\ told' = [told EXCEPT ![l][i] = @ + 1]
         /\ ChangeStat(l, i, StatusOf(k))
         /\ \/ UNCHANGED <<again, repeats>>
            \/ repeats' = repeats + 1 /\ again' = again \cup {<<l, i, k>>}
  BY DEF Report, taskVars, listVars, stopVars

(* Counting one up *)
LEMMA CountUp ==
  ASSUME NEW S, NEW f \in [S -> Nat], NEW x
  PROVE  /\ [f EXCEPT ![x] = @ + 1] \in [S -> Nat]
         /\ \A y \in S : [f EXCEPT ![x] = @ + 1][y] = IF y = x THEN f[y] + 1 ELSE f[y]
<1> DEFINE g == [f EXCEPT ![x] = f[x] + 1]
<1>1. \A y \in S : g[y] = IF y = x THEN f[y] + 1 ELSE f[y]
  OBVIOUS
<1>2. \A y \in S : g[y] \in Nat
  BY <1>1
<1>3. g \in [S -> Nat]
  BY <1>2
<1>q. QED
  BY <1>1, <1>3

LEMMA ShapeInit == Init => Shape
<1> SUFFICES ASSUME Init PROVE Shape
  OBVIOUS
<1>1. Size \in [Lists -> Nat]
  BY ListAssumption
<1>2. count \in [Lists -> CountType]
  BY <1>1 DEF Init, CountType
<1>3. DOMAIN stat = Lists /\ \A l \in Lists : stat[l] \in [Boxes(l) -> Status]
  BY DEF Init, Status
<1>4. DOMAIN ses = Sessions /\ \A s \in Sessions : SesShape(ses[s])
  BY DEF Init, SesShape, Idle, PcSet
<1>q. QED
  BY <1>2, <1>3, <1>4 DEF Init, Shape

(* Where a session counts nRound up, it has read it before. *)
NextInNat == \A s \in Sessions :
  ListOf(s) \in Lists /\ ses[s].pc \in {"give", "wrap"} => ses[s].next \in Nat

LEMMA ShapeStep == Shape /\ NextInNat /\ [Next]_vars => Shape'
<1> SUFFICES ASSUME Shape, NextInNat, [Next]_vars PROVE Shape'
  OBVIOUS
<1> DEFINE SesDone == DOMAIN ses' = Sessions /\ \A s \in Sessions : SesShape(ses'[s])
<1>0. ASSUME SesDone, UNCHANGED others PROVE Shape'
  BY <1>0 DEF Shape, others
<1>1. CASE UNCHANGED core
  BY <1>1 DEF Shape, core
<1>2. ASSUME NEW t \in Tasks, StopTask(t) PROVE Shape'
  BY <1>2 DEF Shape, StopTask, listVars, statVars, engVars, stopVars
<1>3. ASSUME NEW t \in Tasks, NEW d \in Domains, StopList(t, d) PROVE Shape'
  <2>1. /\ marking' = [marking EXCEPT ![t] = @ \ {d}]
        /\ round' = [round EXCEPT ![<<t, d>>] = Ended]
        /\ UNCHANGED <<finish, pos, stat, count, ses, given, told, again, repeats, late>>
    BY <1>3 DEF StopList, statVars, engVars, stopVars
  <2>2. Ended \in Nat
    BY DEF Ended
  <2>q. QED
    BY <2>1, <2>2 DEF Shape
<1>4. ASSUME NEW R \in SUBSET Tasks, MainPass(R) PROVE Shape'
  BY <1>4 DEF Shape, MainPass, listVars, statVars, engVars, stopVars
<1>5. ASSUME NEW s \in Sessions, Choose(s) PROVE Shape'
  BY <1>0, <1>5, ChooseSes DEF Shape
<1>6. ASSUME NEW s \in Sessions, Lock(s) PROVE Shape'
  BY <1>0, <1>6, LockSes DEF Shape, SesTo
<1>7. ASSUME NEW s \in Sessions, Loop(s) PROVE Shape'
  <2>1. DOMAIN ses' = Sessions /\ SesShape(ses'[s])
        /\ \A r \in Sessions \ {s} : ses'[r] = ses[r]
    BY <1>7, LoopSes DEF SesTo
  <2>q. QED
    BY <1>0, <1>7, <2>1, LoopSes DEF Shape
<1>8. ASSUME NEW s \in Sessions, EndSession(s) PROVE Shape'
  BY <1>0, <1>8, EndSes DEF Shape
<1>9. ASSUME NEW s \in Sessions, NEW d \in Domains, NEW n, Ask(s, d, n) PROVE Shape'
  BY <1>0, <1>9, AskSes DEF Shape
<1>10. ASSUME NEW s \in Sessions, Give(s) PROVE Shape'
  <2>1. SesDone
    BY <1>10, GiveSes DEF Shape, SesTo
  <2>2. DOMAIN given' = Lists /\ \A l \in Lists : given'[l] \in [Boxes(l) -> Nat]
    <3>1. \A l \in Lists : given[l] \in [Boxes(l) -> Nat]
      BY DEF Shape
    <3>2. \A l \in Lists : [given[l] EXCEPT ![ses[s].next] = @ + 1] \in [Boxes(l) -> Nat]
      BY <3>1, CountUp
    <3>3. DOMAIN given' = Lists /\ \A l \in Lists :
            given'[l] = given[l] \/ given'[l] = [given[l] EXCEPT ![ses[s].next] = @ + 1]
      BY <1>10, GiveLists
    <3>q. QED
      BY <3>1, <3>2, <3>3
  <2>3. pos' \in [Lists -> Nat]
    <3>1. ListOf(s) \in Lists => ses[s].next \in Nat
      BY <1>10, GiveSes DEF NextInNat
    <3>2. pos' = [pos EXCEPT ![ListOf(s)] = ses[s].next]
      BY <1>10 DEF Give
    <3> HIDE DEF ListOf
    <3>q. QED
      BY <3>1, <3>2 DEF Shape
  <2>4. late' \in [Tasks -> Nat]
    <3>1. late' = late \/ late' = [late EXCEPT ![ses[s].task] = @ + 1]
      BY <1>10 DEF Give
    <3>q. QED
      BY <3>1 DEF Shape
  <2>q. QED
    BY <1>10, <2>1, <2>2, <2>3, <2>4, GiveLists DEF Shape
<1>11. ASSUME NEW s \in Sessions, Wrap(s) PROVE Shape'
  <2>1. SesDone
    BY <1>11, WrapSes DEF Shape, SesTo
  <2>2. pos' \in [Lists -> Nat] /\ round' \in [Lists -> Nat]
    <3>1. ListOf(s) \in Lists => ses[s].next + 1 \in Nat
      BY <1>11, WrapSes DEF NextInNat
    <3>2. /\ pos' = [pos EXCEPT ![ListOf(s)] = 0]
          /\ round' = [round EXCEPT ![ListOf(s)] = ses[s].next + 1]
      BY <1>11 DEF Wrap
    <3> HIDE DEF ListOf
    <3>q. QED
      BY <3>1, <3>2 DEF Shape
  <2>q. QED
    BY <1>11, <2>1, <2>2, WrapLists DEF Shape
<1>12. ASSUME NEW l \in Lists, NEW i \in Boxes(l), NEW k \in Kinds, Report(l, i, k)
       PROVE  Shape'
  <2>1. StatusOf(k) \in Status
    BY StatusOfType
  <2>2. /\ DOMAIN stat' = Lists /\ \A m \in Lists : stat'[m] \in [Boxes(m) -> Status]
        /\ count' \in [Lists -> CountType]
    BY <1>12, <2>1, ReportLists, ChangeStatShape
  <2>3. DOMAIN told' = Lists /\ \A m \in Lists : told'[m] \in [Boxes(m) -> Nat]
    <3>1. told[l] \in [Boxes(l) -> Nat] /\ DOMAIN told = Lists
      BY DEF Shape
    <3>2. [told[l] EXCEPT ![i] = @ + 1] \in [Boxes(l) -> Nat]
      BY <3>1, CountUp
    <3>3. told' = [told EXCEPT ![l] = [told[l] EXCEPT ![i] = @ + 1]]
      BY <1>12, ReportLists
    <3>q. QED
      BY <3>1, <3>2, <3>3 DEF Shape
  <2>4. AgainShape(<<l, i, k>>)
    BY DEF AgainShape
  <2>5. repeats' \in Nat /\ \A r \in again' : AgainShape(r)
    <3>1. \/ UNCHANGED <<again, repeats>>
          \/ repeats' = repeats + 1 /\ again' = again \cup {<<l, i, k>>}
      BY <1>12, ReportLists
    <3>2. repeats \in Nat /\ \A r \in again : AgainShape(r)
      BY DEF Shape
    <3>q. QED
      BY <2>4, <3>1, <3>2
  <2>q. QED
    BY <1>12, <2>2, <2>3, <2>5, ReportLists DEF Shape
<1>13. ASSUME NEW r \in again, RepeatReport(r) PROVE Shape'
  <2>1. AgainShape(r)
    BY DEF Shape
  <2>2. StatusOf(r[3]) \in Status
    BY <2>1, StatusOfType DEF AgainShape
  <2>3. /\ DOMAIN stat' = Lists /\ \A m \in Lists : stat'[m] \in [Boxes(m) -> Status]
        /\ count' \in [Lists -> CountType]
    BY <1>13, <2>1, <2>2, ChangeStatShape DEF RepeatReport, AgainShape
  <2>q. QED
    BY <1>13, <2>3 DEF Shape, RepeatReport, taskVars, listVars, stopVars
<1>q. QED
  BY <1>1, <1>2, <1>3, <1>4, <1>5, <1>6, <1>7, <1>8, <1>9, <1>10, <1>11, <1>12, <1>13,
     NextCases

-----------------------------------------------------------------------------
(* The rounds *)

Holds(s) == ses[s].pc \in {"loop", "give", "wrap"}

(* The lock of a list has one holder. *)
LockAlone ==
  \A r, s \in Sessions : Holds(r) /\ Holds(s) /\ ListOf(r) = ListOf(s) => r = s

(* Only what was handed out is reported, and only a report changes the      *)
(* status byte.                                                             *)
ToldBefore ==
  /\ \A l \in Lists : \A i \in Boxes(l) :
       /\ told[l][i] <= given[l][i]
       /\ stat[l][i] # "new" => told[l][i] > 0
  /\ \A r \in again : told[r[1]][r[2]] > 0

(* Only a STOP request sets nRound to 1000. *)
StopMarks ==
  /\ \A t \in Tasks : marking[t] # {} => finish[t] = "stop"
  /\ \A l \in Lists : round[l] = Ended => finish[l[1]] = "stop"

(* Unless it was stopped, a list has been handed out round[l] times, and    *)
(* once more up to pos[l]; without those that are delivered.                *)
Cover(l) ==
  /\ \A i \in Boxes(l) : given[l][i] <= RoundNum
  /\ round[l] # Ended =>
       /\ round[l] <= RoundNum
       /\ \A i \in Boxes(l) :
            /\ given[l][i] <= round[l] + One(i <= pos[l])
            /\ round[l] > 0 \/ i <= pos[l] => given[l][i] > 0

(* A session in the middle of a turn has tested what still holds, although  *)
(* a STOP request may have written nRound since.                            *)
GiveCover(l, i) ==
  /\ i \in Boxes(l) /\ i > pos[l]
  /\ given[l][i] < RoundNum
  /\ \A j \in Boxes(l) : j > pos[l] /\ j < i => given[l][j] > 0

WrapCover(l, n) ==
  /\ n \in Nat /\ n < RoundNum
  /\ \A j \in Boxes(l) : given[l][j] > 0 /\ given[l][j] <= n + 1

InHand(s) ==
  ListOf(s) \in Lists =>
    /\ ses[s].pc = "give" => GiveCover(ListOf(s), ses[s].next)
    /\ ses[s].pc = "wrap" => WrapCover(ListOf(s), ses[s].next)

RoundInv ==
  /\ Shape
  /\ LockAlone
  /\ ToldBefore
  /\ StopMarks
  /\ \A l \in Lists : Cover(l)
  /\ \A s \in Sessions : InHand(s)

LEMMA RoundNextInNat == RoundInv => NextInNat
  BY DEF RoundInv, InHand, GiveCover, WrapCover, NextInNat, Boxes

(* The lock is taken by Lock only. *)
LEMMA HoldsStep ==
  ASSUME Shape, [Next]_vars, NEW s \in Sessions, Holds(s)'
  PROVE  \/ Holds(s) /\ ListOf(s)' = ListOf(s)
         \/ /\ ListOf(s)' = ListOf(s)
            /\ ~Locked(ListOf(s))
            /\ \A r \in Sessions \ {s} : ses'[r] = ses[r]
<1> USE DEF Holds, ListOf
<1>1. CASE ses'[s] = ses[s]
  BY <1>1
<1>2. CASE UNCHANGED ses
  BY <1>1, <1>2
<1>3. ASSUME NEW r \in Sessions, Choose(r) \/ EndSession(r)
      PROVE  ses'[s] = ses[s]
  BY <1>3, ChooseSes, EndSes
<1>4. ASSUME NEW r \in Sessions, NEW d \in Domains, NEW n, Ask(r, d, n)
      PROVE  ses'[s] = ses[s]
  BY <1>4, AskSes
<1>5. ASSUME NEW r \in Sessions, Loop(r) \/ Give(r) \/ Wrap(r)
      PROVE  Holds(s) /\ ListOf(s)' = ListOf(s)
  BY <1>5, LoopSes, GiveSes, WrapSes DEF SesTo
<1>6. ASSUME NEW r \in Sessions, Lock(r)
      PROVE  \/ ses'[s] = ses[s]
             \/ /\ ListOf(s)' = ListOf(s)
                /\ ~Locked(ListOf(s))
                /\ \A q \in Sessions \ {s} : ses'[q] = ses[q]
  BY <1>6, LockSes DEF SesTo
<1>7. ASSUME \/ UNCHANGED core
             \/ \E t \in Tasks : StopTask(t)
             \/ \E t \in Tasks, d \in Domains : StopList(t, d)
             \/ \E R \in SUBSET Tasks : MainPass(R)
             \/ \E l \in Lists : \E i \in Boxes(l), k \in Kinds : Report(l, i, k)
             \/ \E r \in again : RepeatReport(r)
      PROVE  UNCHANGED ses
  BY <1>7 DEF core, StopTask, StopList, MainPass, Report, RepeatReport
<1>q. QED
  BY <1>1, <1>2, <1>3, <1>4, <1>5, <1>6, <1>7, NextCases

LEMMA LockAloneStep == Shape /\ LockAlone /\ [Next]_vars => LockAlone'
<1> SUFFICES ASSUME Shape, LockAlone, [Next]_vars,
                    NEW r \in Sessions, NEW s \in Sessions,
                    Holds(r)', Holds(s)', ListOf(r)' = ListOf(s)', r # s
             PROVE  FALSE
  BY DEF LockAlone
<1>0. \A q \in Sessions : Holds(q)' =>
        \/ Holds(q) /\ ListOf(q)' = ListOf(q)
        \/ /\ ListOf(q)' = ListOf(q)
           /\ ~Locked(ListOf(q))
           /\ \A p \in Sessions \ {q} : ses'[p] = ses[p]
  BY HoldsStep
<1>1. Holds(r) \/ (~Locked(ListOf(r)) /\ ses'[s] = ses[s])
  BY <1>0
<1>2. Holds(s) \/ (~Locked(ListOf(s)) /\ ses'[r] = ses[r])
  BY <1>0
<1>3. ListOf(r) = ListOf(s)
  BY <1>0
<1>4. CASE Holds(r) /\ Holds(s)
  BY <1>3, <1>4 DEF LockAlone
<1>5. CASE ~Holds(r)
  <2>1. Holds(s)
    BY <1>1, <1>5 DEF Holds
  <2>q. QED
    BY <1>1, <1>3, <1>5, <2>1 DEF Locked, Holds
<1>6. CASE ~Holds(s)
  <2>1. Holds(r)
    BY <1>2, <1>6 DEF Holds
  <2>q. QED
    BY <1>2, <1>3, <1>6, <2>1 DEF Locked, Holds
<1>q. QED
  BY <1>4, <1>5, <1>6

(* The status bytes after a report *)
LEMMA ChangeStatNew ==
  ASSUME Shape, NEW l \in Lists, NEW i \in Boxes(l), NEW new, ChangeStat(l, i, new),
         NEW m \in Lists, NEW j \in Boxes(m), stat'[m][j] # "new"
  PROVE  stat[m][j] # "new" \/ (m = l /\ j = i)
  BY DEF ChangeStat, Shape, statVars

LEMMA ToldStep == Shape /\ ToldBefore /\ [Next]_vars => ToldBefore'
<1> SUFFICES ASSUME Shape, ToldBefore, [Next]_vars PROVE ToldBefore'
  OBVIOUS
<1>0. CASE UNCHANGED <<given, told, stat, again>>
  BY <1>0 DEF ToldBefore
<1>1. ASSUME \/ UNCHANGED core
             \/ \E t \in Tasks : StopTask(t)
             \/ \E t \in Tasks, d \in Domains : StopList(t, d)
             \/ \E R \in SUBSET Tasks : MainPass(R)
      PROVE  UNCHANGED <<given, told, stat, again>>
  BY <1>1 DEF core, StopTask, StopList, MainPass, statVars, engVars
<1>2. ASSUME NEW s \in Sessions, Choose(s) \/ Lock(s) \/ Loop(s) \/ EndSession(s)
      PROVE  UNCHANGED <<given, told, stat, again>>
  BY <1>2, ChooseSes, LockSes, LoopSes, EndSes DEF others
<1>3. ASSUME NEW s \in Sessions, NEW d \in Domains, NEW n, Ask(s, d, n)
      PROVE  UNCHANGED <<given, told, stat, again>>
  BY <1>3, AskSes DEF others
<1>4. ASSUME NEW s \in Sessions, Wrap(s)
      PROVE  UNCHANGED <<given, told, stat, again>>
  BY <1>4, WrapLists
<1>5. ASSUME NEW s \in Sessions, Give(s) PROVE ToldBefore'
  <2>1. UNCHANGED <<told, stat, again>>
    BY <1>5, GiveLists
  <2>2. ASSUME NEW l \in Lists, NEW i \in Boxes(l)
        PROVE  /\ told[l][i] <= given'[l][i]
               /\ stat[l][i] # "new" => told[l][i] > 0
    <3>1. given[l] \in [Boxes(l) -> Nat] /\ told[l] \in [Boxes(l) -> Nat]
      BY DEF Shape
    <3>2. given'[l] = given[l] \/ given'[l] = [given[l] EXCEPT ![ses[s].next] = @ + 1]
      BY <1>5, GiveLists
    <3>3. told[l][i] <= given[l][i] /\ (stat[l][i] # "new" => told[l][i] > 0)
      BY DEF ToldBefore
    <3>q. QED
      BY <3>1, <3>2, <3>3
  <2>3. \A r \in again : told[r[1]][r[2]] > 0
    BY DEF ToldBefore
  <2>q. QED
    BY <2>1, <2>2, <2>3 DEF ToldBefore
<1>6. ASSUME NEW l \in Lists, NEW i \in Boxes(l), NEW k \in Kinds, Report(l, i, k)
      PROVE  ToldBefore'
  <2>1. /\ UNCHANGED given
        /\ told[l][i] < given[l][i]
        /\ told' = [told EXCEPT ![l] = [told[l] EXCEPT ![i] = @ + 1]]
        /\ ChangeStat(l, i, StatusOf(k))
        /\ \A r \in again' : r \in again \/ r = <<l, i, k>>
    BY <1>6, ReportLists
  <2>2. ASSUME NEW m \in Lists, NEW j \in Boxes(m)
        PROVE  /\ told[m][j] \in Nat
               /\ told'[m][j] = IF m = l /\ j = i THEN told[m][j] + 1 ELSE told[m][j]
    <3>1. told[m] \in [Boxes(m) -> Nat] /\ DOMAIN told = Lists
      BY DEF Shape
    <3>q. QED
      BY <2>1, <3>1
  <2>3. ASSUME NEW m \in Lists, NEW j \in Boxes(m)
        PROVE  /\ told'[m][j] <= given'[m][j]
               /\ stat'[m][j] # "new" => told'[m][j] > 0
    <3>1. given[m][j] \in Nat
      BY DEF Shape
    <3>2. stat'[m][j] # "new" => stat[m][j] # "new" \/ (m = l /\ j = i)
      BY <2>1, ChangeStatNew
    <3>q. QED
      BY <2>1, <2>2, <3>1, <3>2 DEF ToldBefore
  <2>4. ASSUME NEW r \in again' PROVE told'[r[1]][r[2]] > 0
    <3>1. CASE r = <<l, i, k>>
      BY <2>2, <3>1
    <3>2. CASE r \in again
      <4>1. r[1] \in Lists /\ r[2] \in Boxes(r[1])
        BY <3>2 DEF Shape, AgainShape
      <4>2. told[r[1]][r[2]] > 0
        BY <3>2 DEF ToldBefore
      <4>q. QED
        BY <2>2, <4>1, <4>2
    <3>q. QED
      BY <2>1, <3>1, <3>2
  <2>q. QED
    BY <2>3, <2>4 DEF ToldBefore
<1>7. ASSUME NEW r \in again, RepeatReport(r) PROVE ToldBefore'
  <2>1. AgainShape(r)
    BY DEF Shape
  <2>2. /\ UNCHANGED <<given, told>>
        /\ ChangeStat(r[1], r[2], StatusOf(r[3]))
        /\ again' \subseteq again
    BY <1>7 DEF RepeatReport
  <2>3. ASSUME NEW m \in Lists, NEW j \in Boxes(m), stat'[m][j] # "new"
        PROVE  told[m][j] > 0
    <3>1. stat[m][j] # "new" \/ (m = r[1] /\ j = r[2])
      BY <2>1, <2>2, <2>3, ChangeStatNew DEF AgainShape
    <3>q. QED
      BY <3>1 DEF ToldBefore
  <2>q. QED
    BY <2>2, <2>3 DEF ToldBefore
<1>q. QED
  BY <1>0, <1>1, <1>2, <1>3, <1>4, <1>5, <1>6, <1>7, NextCases

LEMMA StopMarksStep ==
  ASSUME Shape, StopMarks, [Next]_vars, \A s \in Sessions : InHand(s)
  PROVE  StopMarks'
<1>0. CASE UNCHANGED <<finish, marking, round>>
  BY <1>0 DEF StopMarks
<1>1. ASSUME \/ UNCHANGED core
             \/ \E l \in Lists : \E i \in Boxes(l), k \in Kinds : Report(l, i, k)
             \/ \E r \in again : RepeatReport(r)
      PROVE  UNCHANGED <<finish, marking, round>>
  BY <1>1 DEF core, Report, RepeatReport, taskVars, listVars
<1>2. ASSUME NEW s \in Sessions, Choose(s) \/ Lock(s) \/ Loop(s) \/ EndSession(s)
      PROVE  UNCHANGED <<finish, marking, round>>
  BY <1>2, ChooseSes, LockSes, LoopSes, EndSes DEF others
<1>3. ASSUME NEW s \in Sessions, NEW d \in Domains, NEW n, Ask(s, d, n)
      PROVE  UNCHANGED <<finish, marking, round>>
  BY <1>3, AskSes DEF others
<1>4. ASSUME NEW s \in Sessions, Give(s)
      PROVE  UNCHANGED <<finish, marking, round>>
  BY <1>4, GiveLists
<1>5. ASSUME NEW s \in Sessions, Wrap(s) PROVE StopMarks'
  <2>1. ListOf(s) \in Lists => ses[s].next \in Nat /\ ses[s].next < RoundNum
    BY <1>5, WrapSes DEF InHand, WrapCover
  <2>2. ListOf(s) \in Lists => round'[ListOf(s)] # Ended
    BY <1>5, <2>1, WrapLists, ListAssumption DEF Ended
  <2>q. QED
    BY <1>5, <2>2, WrapLists DEF StopMarks
<1>6. ASSUME NEW t \in Tasks, StopTask(t) PROVE StopMarks'
  <2>1. /\ finish' = [finish EXCEPT ![t] = "stop"]
        /\ marking' = [marking EXCEPT ![t] = Domains]
        /\ UNCHANGED round
    BY <1>6 DEF StopTask, listVars
  <2>2. \A l \in Lists : l[1] \in Tasks
    BY DEF Lists
  <2>q. QED
    BY <2>1, <2>2 DEF StopMarks, Shape
<1>7. ASSUME NEW t \in Tasks, NEW d \in Domains, StopList(t, d) PROVE StopMarks'
  <2>1. /\ d \in marking[t]
        /\ marking' = [marking EXCEPT ![t] = @ \ {d}]
        /\ round' = [round EXCEPT ![<<t, d>>] = Ended]
        /\ UNCHANGED finish
    BY <1>7 DEF StopList
  <2>2. finish[t] = "stop"
    BY <2>1 DEF StopMarks
  <2>3. \A l \in Lists : round'[l] = Ended => round[l] = Ended \/ l = <<t, d>>
    BY <2>1 DEF Shape
  <2>q. QED
    BY <2>1, <2>2, <2>3 DEF StopMarks, Shape
<1>8. ASSUME NEW R \in SUBSET Tasks, MainPass(R) PROVE StopMarks'
  <2>1. /\ \A t \in Tasks : finish[t] = "stop" => finish'[t] = "stop"
        /\ UNCHANGED <<marking, round>>
    BY <1>8 DEF MainPass, listVars, Shape
  <2>2. \A l \in Lists : l[1] \in Tasks
    BY DEF Lists
  <2>q. QED
    BY <2>1, <2>2 DEF StopMarks
<1>q. QED
  BY <1>0, <1>1, <1>2, <1>3, <1>4, <1>5, <1>6, <1>7, <1>8, NextCases

LEMMA CoverStep ==
  ASSUME RoundInv, [Next]_vars, NEW l \in Lists
  PROVE  Cover(l)'
<1> USE DEF RoundInv
<1>t. /\ Size[l] \in Nat /\ RoundNum \in 1 .. 999
      /\ given[l] \in [Boxes(l) -> Nat] /\ round[l] \in Nat /\ pos[l] \in Nat
      /\ Cover(l)
  BY ListAssumption DEF Shape
<1>0. CASE given'[l] = given[l] /\ pos'[l] = pos[l] /\ round'[l] = round[l]
  BY <1>t, <1>0 DEF Cover
<1>1. ASSUME \/ UNCHANGED core
             \/ \E t \in Tasks : StopTask(t)
             \/ \E R \in SUBSET Tasks : MainPass(R)
             \/ \E m \in Lists : \E i \in Boxes(m), k \in Kinds : Report(m, i, k)
             \/ \E r \in again : RepeatReport(r)
      PROVE  UNCHANGED <<given, pos, round>>
  BY <1>1 DEF core, StopTask, MainPass, Report, RepeatReport, listVars
<1>2. ASSUME NEW s \in Sessions, Choose(s) \/ Lock(s) \/ Loop(s) \/ EndSession(s)
      PROVE  UNCHANGED <<given, pos, round>>
  BY <1>2, ChooseSes, LockSes, LoopSes, EndSes DEF others
<1>3. ASSUME NEW s \in Sessions, NEW d \in Domains, NEW n, Ask(s, d, n)
      PROVE  UNCHANGED <<given, pos, round>>
  BY <1>3, AskSes DEF others
<1>4. ASSUME NEW t \in Tasks, NEW d \in Domains, StopList(t, d) PROVE Cover(l)'
  <2>1. /\ UNCHANGED <<given, pos>>
        /\ round'[l] = round[l] \/ round'[l] = Ended
    BY <1>4 DEF StopList, Shape
  <2>q. QED
    BY <1>0, <1>t, <2>1 DEF Cover
<1>5. ASSUME NEW s \in Sessions, Give(s) PROVE Cover(l)'
  <2>1. CASE ListOf(s) # l
    <3>1. given'[l] = given[l] /\ pos'[l] = pos[l] /\ UNCHANGED round
      BY <1>5, <2>1, GiveLists
    <3>q. QED
      BY <1>0, <3>1
  <2>2. CASE ListOf(s) = l
    <3> DEFINE i == ses[s].next
    <3>1. GiveCover(l, i)
      BY <1>5, <2>2, GiveSes DEF InHand
    <3>2. /\ pos'[l] = i /\ round'[l] = round[l]
          /\ given'[l] = [given[l] EXCEPT ![i] = @ + 1]
      BY <1>5, <2>2, GiveLists
    <3> HIDE DEF i
    <3>3. i \in Boxes(l) /\ i \in Nat /\ i > pos[l] /\ given[l][i] < RoundNum
      BY <1>t, <3>1 DEF GiveCover, Boxes
    <3>4. ASSUME NEW j \in Boxes(l)
          PROVE  /\ given[l][j] \in Nat /\ j \in Nat
                 /\ given'[l][j] = IF j = i THEN given[l][j] + 1 ELSE given[l][j]
                 /\ given[l][j] <= RoundNum
      BY <1>t, <3>2 DEF Cover, Boxes
    <3>5. ASSUME NEW j \in Boxes(l) PROVE given'[l][j] <= RoundNum
      <4>1. given[l][j] \in Nat /\ given[l][j] <= RoundNum
        BY <3>4
      <4>2. CASE j = i
        BY <1>t, <3>3, <3>4, <4>1, <4>2
      <4>3. CASE j # i
        BY <3>4, <4>1, <4>3
      <4>q. QED
        BY <4>2, <4>3
    <3>6. ASSUME round[l] # Ended, NEW j \in Boxes(l)
          PROVE  /\ given'[l][j] <= round[l] + One(j <= i)
                 /\ round[l] > 0 \/ j <= i => given'[l][j] > 0
      <4>1. /\ given[l][j] <= round[l] + One(j <= pos[l])
            /\ round[l] > 0 \/ j <= pos[l] => given[l][j] > 0
        BY <1>t, <3>6 DEF Cover
      <4>2. j > pos[l] /\ j < i => given[l][j] > 0
        BY <3>1 DEF GiveCover
      <4>3. /\ given[l][j] \in Nat /\ j \in Nat
            /\ given'[l][j] = IF j = i THEN given[l][j] + 1 ELSE given[l][j]
        BY <3>4
      <4>4. pos[l] \in Nat /\ round[l] \in Nat /\ i \in Nat /\ i > pos[l]
        BY <1>t, <3>3
      <4>5. given'[l][j] <= round[l] + One(j <= i)
        BY <4>1, <4>3, <4>4 DEF One
      <4>6. round[l] > 0 \/ j <= i => given'[l][j] > 0
        BY <4>1, <4>2, <4>3, <4>4
      <4>q. QED
        BY <4>5, <4>6
    <3>q. QED
      BY <1>t, <3>2, <3>5, <3>6 DEF Cover
  <2>q. QED
    BY <2>1, <2>2
<1>6. ASSUME NEW s \in Sessions, Wrap(s) PROVE Cover(l)'
  <2>1. CASE ListOf(s) # l
    <3>1. UNCHANGED given /\ pos'[l] = pos[l] /\ round'[l] = round[l]
      BY <1>6, <2>1, WrapLists
    <3>q. QED
      BY <1>0, <3>1
  <2>2. CASE ListOf(s) = l
    <3> DEFINE n == ses[s].next
    <3>1. WrapCover(l, n)
      BY <1>6, <2>2, WrapSes DEF InHand
    <3>2. UNCHANGED given /\ pos'[l] = 0 /\ round'[l] = n + 1
      BY <1>6, <2>2, WrapLists
    <3> HIDE DEF n
    <3>3. n \in Nat /\ n + 1 <= RoundNum
      BY <1>t, <3>1 DEF WrapCover
    <3>4. ASSUME NEW j \in Boxes(l)
          PROVE  /\ given[l][j] <= RoundNum
                 /\ given[l][j] <= n + 1 + One(j <= 0)
                 /\ given[l][j] > 0
      <4>1. given[l][j] > 0 /\ given[l][j] <= n + 1 /\ given[l][j] \in Nat
        BY <1>t, <3>1 DEF WrapCover
      <4>q. QED
        BY <1>t, <3>3, <4>1 DEF One
    <3>q. QED
      BY <3>2, <3>3, <3>4 DEF Cover
  <2>q. QED
    BY <2>1, <2>2
<1>q. QED
  BY <1>0, <1>1, <1>2, <1>3, <1>4, <1>5, <1>6, NextCases

LEMMA InHandStep ==
  ASSUME RoundInv, [Next]_vars, NEW s \in Sessions
  PROVE  InHand(s)'
<1> USE DEF RoundInv
<1>0. CASE /\ ses'[s] = ses[s]
           /\ ListOf(s) \in Lists /\ Holds(s) =>
                pos'[ListOf(s)] = pos[ListOf(s)] /\ given'[ListOf(s)] = given[ListOf(s)]
  <2>1. ListOf(s)' = ListOf(s)
    BY <1>0 DEF ListOf
  <2>2. InHand(s)
    OBVIOUS
  <2>q. QED
    BY <1>0, <2>1, <2>2 DEF InHand, GiveCover, WrapCover, Holds
<1>1. CASE ses'[s].pc \notin {"give", "wrap"}
  BY <1>1 DEF InHand
<1>2. ASSUME \/ UNCHANGED core
             \/ \E t \in Tasks : StopTask(t)
             \/ \E t \in Tasks, d \in Domains : StopList(t, d)
             \/ \E R \in SUBSET Tasks : MainPass(R)
             \/ \E m \in Lists : \E i \in Boxes(m), k \in Kinds : Report(m, i, k)
             \/ \E r \in again : RepeatReport(r)
      PROVE  UNCHANGED <<given, pos, ses>>
  BY <1>2 DEF core, StopTask, StopList, MainPass, Report, RepeatReport, listVars
<1>3. ASSUME NEW r \in Sessions, Choose(r) \/ Lock(r) \/ EndSession(r)
      PROVE  InHand(s)'
  <2>1. UNCHANGED <<given, pos>> /\ (ses'[s] = ses[s] \/ ses'[s].pc \notin {"give", "wrap"})
    BY <1>3, ChooseSes, LockSes, EndSes DEF others, SesTo
  <2>q. QED
    BY <1>0, <1>1, <2>1
<1>4. ASSUME NEW r \in Sessions, NEW d \in Domains, NEW n, Ask(r, d, n)
      PROVE  InHand(s)'
  <2>1. UNCHANGED <<given, pos>> /\ (ses'[s] = ses[s] \/ ses'[s].pc \notin {"give", "wrap"})
    BY <1>4, AskSes DEF others
  <2>q. QED
    BY <1>0, <1>1, <2>1
<1>5. ASSUME NEW r \in Sessions, Give(r) PROVE InHand(s)'
  <2>1. CASE r = s
    BY <1>1, <1>5, <2>1, GiveSes DEF SesTo
  <2>2. CASE r # s
    <3>1. ses'[s] = ses[s] /\ Holds(r)
      BY <1>5, <2>2, GiveSes DEF SesTo, Holds
    <3>2. Holds(s) => ListOf(s) # ListOf(r)
      BY <2>2, <3>1 DEF LockAlone
    <3>q. QED
      BY <1>0, <1>5, <3>1, <3>2, GiveLists
  <2>q. QED
    BY <2>1, <2>2
<1>6. ASSUME NEW r \in Sessions, Wrap(r) PROVE InHand(s)'
  <2>1. CASE r = s
    BY <1>1, <1>6, <2>1, WrapSes DEF SesTo
  <2>2. CASE r # s
    <3>1. ses'[s] = ses[s] /\ Holds(r)
      BY <1>6, <2>2, WrapSes DEF SesTo, Holds
    <3>2. Holds(s) => ListOf(s) # ListOf(r)
      BY <2>2, <3>1 DEF LockAlone
    <3>q. QED
      BY <1>0, <1>6, <3>1, <3>2, WrapLists
  <2>q. QED
    BY <2>1, <2>2
<1>7. ASSUME NEW r \in Sessions, Loop(r), r # s PROVE InHand(s)'
  <2>1. UNCHANGED <<given, pos>> /\ ses'[s] = ses[s]
    BY <1>7, LoopSes DEF others, SesTo
  <2>q. QED
    BY <1>0, <2>1
<1>8. ASSUME Loop(s) PROVE InHand(s)'
  <2> DEFINE l == ListOf(s)
  <2> SUFFICES ASSUME ListOf(s)' \in Lists PROVE InHand(s)'
    BY DEF InHand
  <2>1. ListOf(s)' = l /\ UNCHANGED <<given, pos>>
    BY <1>8, LoopSes DEF SesTo, ListOf, others
  <2>t. /\ Size[l] \in Nat /\ RoundNum \in 1 .. 999
        /\ given[l] \in [Boxes(l) -> Nat] /\ round[l] \in Nat /\ pos[l] \in Nat
        /\ told[l] \in [Boxes(l) -> Nat]
        /\ Cover(l)
    BY <2>1, ListAssumption DEF Shape
  <2>2. ASSUME NEW j \in Boxes(l), j > pos[l], ~Candidate(l, j) PROVE given[l][j] > 0
    <3>1. stat[l][j] = "success"
      BY <2>2 DEF Candidate
    <3>2. told[l][j] > 0 /\ told[l][j] <= given[l][j]
      BY <2>1, <3>1 DEF ToldBefore
    <3>q. QED
      BY <2>t, <3>2
  <2>3. round[l] < RoundNum =>
          /\ round[l] # Ended
          /\ \A j \in Boxes(l) : /\ given[l][j] <= round[l] + One(j <= pos[l])
                                 /\ j <= pos[l] => given[l][j] > 0
    BY <2>t DEF Cover, Ended
  <2>4. ASSUME round[l] < RoundNum, NEW i \in Boxes(l), SesTo(s, "give", i),
               Candidate(l, i), \A j \in Boxes(l) : Candidate(l, j) => i <= j
        PROVE  InHand(s)'
    <3>1. i > pos[l]
      BY <2>4 DEF Candidate
    <3>2. given[l][i] < RoundNum
      BY <2>t, <2>3, <2>4, <3>1 DEF One, Boxes
    <3>3. \A j \in Boxes(l) : j > pos[l] /\ j < i => given[l][j] > 0
      BY <2>t, <2>2, <2>4 DEF Boxes
    <3>4. ses'[s].pc = "give" /\ ses'[s].next = i
      BY <2>4 DEF SesTo
    <3> HIDE DEF l
    <3>q. QED
      BY <2>1, <2>4, <3>1, <3>2, <3>3, <3>4 DEF InHand, GiveCover
  <2>5. ASSUME round[l] < RoundNum, SesTo(s, "wrap", round[l]),
               \A j \in Boxes(l) : ~Candidate(l, j)
        PROVE  InHand(s)'
    <3>1. ASSUME NEW j \in Boxes(l)
          PROVE  given[l][j] > 0 /\ given[l][j] <= round[l] + 1
      <4>1. j \in Nat
        BY <2>t DEF Boxes
      <4>2. /\ given[l][j] <= round[l] + One(j <= pos[l])
            /\ j <= pos[l] => given[l][j] > 0
        BY <2>3, <2>5
      <4>3. j > pos[l] => given[l][j] > 0
        BY <2>2, <2>5
      <4>q. QED
        BY <2>t, <4>1, <4>2, <4>3 DEF One
    <3>2. ses'[s].pc = "wrap" /\ ses'[s].next = round[l]
      BY <2>5 DEF SesTo
    <3> HIDE DEF l
    <3>q. QED
      BY <2>1, <2>t, <2>5, <3>1, <3>2 DEF InHand, WrapCover
  <2>6. CASE SesTo(s, "chosen", ses[s].next)
    BY <1>1, <2>6 DEF SesTo
  <2>q. QED
    BY <1>8, <2>1, <2>4, <2>5, <2>6, LoopSes
<1>q. QED
  BY <1>0, <1>2, <1>3, <1>4, <1>5, <1>6, <1>7, <1>8, NextCases

LEMMA RoundInit == Init => RoundInv
<1> SUFFICES ASSUME Init PROVE RoundInv
  OBVIOUS
<1>1. Shape
  BY ShapeInit
<1>2. /\ Size \in [Lists -> Nat] /\ RoundNum \in 1 .. 999
  BY ListAssumption
<1>3. ASSUME NEW l \in Lists PROVE Cover(l)
  BY <1>2 DEF Init, Cover, Boxes, One, Ended
<1>4. LockAlone /\ \A s \in Sessions : InHand(s)
  BY DEF Init, Idle, LockAlone, Holds, InHand
<1>5. ToldBefore
  BY <1>2 DEF Init, ToldBefore, Boxes
<1>6. StopMarks
  BY DEF Init, StopMarks, Ended
<1>q. QED
  BY <1>1, <1>3, <1>4, <1>5, <1>6 DEF RoundInv

LEMMA RoundStep == RoundInv /\ [Next]_vars => RoundInv'
<1> SUFFICES ASSUME RoundInv, [Next]_vars PROVE RoundInv'
  OBVIOUS
<1>1. Shape'
  BY RoundNextInNat, ShapeStep DEF RoundInv
<1>2. LockAlone' /\ ToldBefore'
  BY LockAloneStep, ToldStep DEF RoundInv
<1>3. StopMarks'
  BY StopMarksStep DEF RoundInv
<1>4. \A l \in Lists : Cover(l)'
  BY CoverStep
<1>5. \A s \in Sessions : InHand(s)'
  BY InHandStep
<1>q. QED
  BY <1>1, <1>2, <1>3, <1>4, <1>5 DEF RoundInv

(* For any number of sessions, lists of any size and any number of rounds:  *)
(* AnswerMailboxRequestWithLevel hands out a mailbox at most once per       *)
(* round, and its first round passes over none.                             *)
THEOREM RoundsCover == Spec => []RoundCover
<1>1. RoundInv => RoundCover
  <2> SUFFICES ASSUME RoundInv, NEW l \in Lists, NEW i \in Boxes(l)
               PROVE  /\ given[l][i] <= RoundNum
                      /\ finish[l[1]] # "stop" =>
                           /\ given[l][i] <= round[l] + One(i <= pos[l])
                           /\ round[l] > 0 \/ i <= pos[l] => given[l][i] > 0
    BY DEF RoundCover
  <2>1. Cover(l) /\ (round[l] = Ended => finish[l[1]] = "stop")
    BY DEF RoundInv, StopMarks
  <2>q. QED
    BY <2>1 DEF Cover
<1>q. QED
  BY <1>1, RoundInit, RoundStep, PTL DEF Spec

-----------------------------------------------------------------------------
(* The counters *)

LEMMA CardinalityChange ==
  ASSUME NEW F, NEW G, NEW i, IsFiniteSet(F), IsFiniteSet(G), F \ {i} = G \ {i}
  PROVE  /\ Cardinality(F) \in Nat
         /\ Cardinality(G) = Cardinality(F) + One(i \in G) - One(i \in F)
<1>1. Cardinality(F) \in Nat /\ Cardinality(G) \in Nat
  BY FS_CardinalityType
<1>2. Cardinality(F \ {i}) = IF i \in F THEN Cardinality(F) - 1 ELSE Cardinality(F)
  BY FS_RemoveElement
<1>3. Cardinality(G \ {i}) = IF i \in G THEN Cardinality(G) - 1 ELSE Cardinality(G)
  BY FS_RemoveElement
<1>q. QED
  BY <1>1, <1>2, <1>3 DEF One

LEMMA BoxesFinite ==
  ASSUME NEW l \in Lists
  PROVE  IsFiniteSet(Boxes(l)) /\ Cardinality(Boxes(l)) = Size[l]
<1>1. Size[l] \in Nat
  BY ListAssumption
<1> DEFINE n == Size[l]
<1> HIDE DEF n
<1>2. n \in Nat /\ n \in Int /\ 1 \in Int
  BY <1>1 DEF n
<1>3. IsFiniteSet(1 .. n) /\ Cardinality(1 .. n) = IF 1 > n THEN 0 ELSE n - 1 + 1
  BY <1>2, FS_Interval
<1>4. IsFiniteSet(1 .. n) /\ Cardinality(1 .. n) = n
  BY <1>2, <1>3
<1>q. QED
  BY <1>4 DEF Boxes, n

LEMMA HavingType ==
  ASSUME NEW l \in Lists, NEW K
  PROVE  /\ IsFiniteSet({i \in Boxes(l) : stat[l][i] \in K})
         /\ Having(l, K) \in 0 .. Size[l]
<1>1. Size[l] \in Nat
  BY ListAssumption
<1>2. IsFiniteSet(Boxes(l)) /\ Cardinality(Boxes(l)) = Size[l]
  BY BoxesFinite
<1>3. /\ IsFiniteSet({i \in Boxes(l) : stat[l][i] \in K})
      /\ Cardinality({i \in Boxes(l) : stat[l][i] \in K}) <= Size[l]
  BY <1>2, FS_Subset
<1>4. Cardinality({i \in Boxes(l) : stat[l][i] \in K}) \in Nat
  BY <1>3, FS_CardinalityType
<1>q. QED
  BY <1>1, <1>3, <1>4 DEF Having

StatBecomes(l, i, new) == stat' = [stat EXCEPT ![l][i] = new]

(* A report that is counted *)
LEMMA HavingChange ==
  ASSUME Shape, NEW l \in Lists, NEW i \in Boxes(l), NEW new,
         StatBecomes(l, i, new), NEW K
  PROVE  /\ Having(l, K)' = Having(l, K) + One(new \in K) - One(stat[l][i] \in K)
         /\ \A m \in Lists \ {l} : Having(m, K)' = Having(m, K)
<1> DEFINE F == {j \in Boxes(l) : stat[l][j] \in K}
           G == {j \in Boxes(l) : stat'[l][j] \in K}
<1>1. /\ stat'[l][i] = new
      /\ \A j \in Boxes(l) : j # i => stat'[l][j] = stat[l][j]
      /\ \A m \in Lists \ {l} : stat'[m] = stat[m]
  BY DEF Shape, StatBecomes
<1>2. F \ {i} = G \ {i}
  BY <1>1
<1>3. IsFiniteSet(Boxes(l))
  BY BoxesFinite
<1>4. IsFiniteSet(F) /\ IsFiniteSet(G)
  BY <1>3, FS_Subset
<1>5. (i \in F <=> stat[l][i] \in K) /\ (i \in G <=> new \in K)
  BY <1>1
<1>6. Having(l, K) = Cardinality(F) /\ Having(l, K)' = Cardinality(G)
  BY DEF Having
<1> HIDE DEF F, G
<1>7. Cardinality(F) \in Nat /\ Cardinality(G) = Cardinality(F) + One(i \in G) - One(i \in F)
  BY <1>2, <1>4, CardinalityChange
<1>8. One(i \in F) = One(stat[l][i] \in K) /\ One(i \in G) = One(new \in K)
  BY <1>5 DEF One
<1>9. ASSUME NEW m \in Lists \ {l} PROVE Having(m, K)' = Having(m, K)
  <2>1. {j \in Boxes(m) : stat'[m][j] \in K} = {j \in Boxes(m) : stat[m][j] \in K}
    BY <1>1
  <2>q. QED
    BY <2>1 DEF Having
<1>q. QED
  BY <1>6, <1>7, <1>8, <1>9

Counters(l) ==
  /\ count[l].fail = Having(l, FailLike)
  /\ count[l].delay = Having(l, DelayLike)
  /\ count[l].notfound = Having(l, {"notfound"})
  /\ count[l].dns = Having(l, {"dns"})
  /\ count[l].spam = Having(l, {"spam"})
  /\ count[l].remain <= Size[l] - Having(l, {"success"})
  /\ count[l].success >= Having(l, {"success"})

LEMMA CountersChange ==
  ASSUME Shape, NEW l \in Lists, NEW i \in Boxes(l), NEW new, ChangeStat(l, i, new),
         NEW m \in Lists, Counters(m)
  PROVE  Counters(m)'
<1>1. CASE stat'[m] = stat[m] /\ count'[m] = count[m]
  <2>1. ASSUME NEW K PROVE Having(m, K)' = Having(m, K)
    <3>1. {j \in Boxes(m) : stat'[m][j] \in K} = {j \in Boxes(m) : stat[m][j] \in K}
      BY <1>1
    <3>q. QED
      BY <3>1 DEF Having
  <2>q. QED
    BY <1>1, <2>1 DEF Counters
<1>2. CASE ~InQueue(l[1])
  BY <1>1, <1>2 DEF ChangeStat, statVars
<1>3. CASE InQueue(l[1])
  <2> DEFINE old == stat[l][i]
  <2>1. /\ stat' = [stat EXCEPT ![l][i] = new]
        /\ count' = [count EXCEPT ![l] = Counted(count[l], old, new)]
    BY <1>3 DEF ChangeStat
  <2>2. CASE m # l
    BY <1>1, <2>1, <2>2 DEF Shape
  <2>3. CASE m = l
    <3>1. count'[l] = Counted(count[l], old, new) /\ count[l] \in CountType
      BY <2>1 DEF Shape
    <3>2. ASSUME NEW K
          PROVE  Having(l, K)' = Having(l, K) + One(new \in K) - One(old \in K)
      <4>1. StatBecomes(l, i, new)
        BY <2>1 DEF StatBecomes
      <4>q. QED
        BY <4>1, HavingChange
    <3>3. ASSUME NEW K PROVE Having(l, K) \in Nat
      <4>1. Having(l, K) \in 0 .. Size[l]
        BY HavingType
      <4>q. QED
        BY <4>1
    <3>4. Size[l] \in Nat
      BY ListAssumption
    <3> HIDE DEF old
    <3>5. Counters(l)
      BY <2>3
    <3>6. /\ count'[l].fail = Having(l, FailLike)'
          /\ count'[l].delay = Having(l, DelayLike)'
      <4>1. /\ count'[l].fail = count[l].fail + One(new \in FailLike) - One(old \in FailLike)
            /\ count'[l].delay = count[l].delay + One(new \in DelayLike)
                                 - One(old \in DelayLike)
        BY <3>1 DEF Counted
      <4>2. /\ Having(l, FailLike)' = Having(l, FailLike) + One(new \in FailLike)
                                      - One(old \in FailLike)
            /\ Having(l, DelayLike)' = Having(l, DelayLike) + One(new \in DelayLike)
                                       - One(old \in DelayLike)
        BY <3>2
      <4>q. QED
        BY <3>5, <4>1, <4>2 DEF Counters
    <3>7. \A c : One(new \in {c}) = One(new = c) /\ One(old \in {c}) = One(old = c)
      BY DEF One
    <3>8. /\ count'[l].notfound = Having(l, {"notfound"})'
          /\ count'[l].dns = Having(l, {"dns"})'
          /\ count'[l].spam = Having(l, {"spam"})'
      <4>1. /\ count'[l].notfound = count[l].notfound + One(new = "notfound")
                                    - One(old = "notfound")
            /\ count'[l].dns = count[l].dns + One(new = "dns") - One(old = "dns")
            /\ count'[l].spam = count[l].spam + One(new = "spam") - One(old = "spam")
        BY <3>1 DEF Counted
      <4>2. ASSUME NEW c
            PROVE  Having(l, {c})' = Having(l, {c}) + One(new = c) - One(old = c)
        <5>1. Having(l, {c})' = Having(l, {c}) + One(new \in {c}) - One(old \in {c})
          BY <3>2
        <5>q. QED
          BY <3>7, <5>1
      <4>3. Having(l, {"notfound"})' = Having(l, {"notfound"}) + One(new = "notfound")
                                       - One(old = "notfound")
        BY <4>2
      <4>4. Having(l, {"dns"})' = Having(l, {"dns"}) + One(new = "dns") - One(old = "dns")
        BY <4>2
      <4>5. Having(l, {"spam"})' = Having(l, {"spam"}) + One(new = "spam") - One(old = "spam")
        BY <4>2
      <4>q. QED
        BY <3>5, <4>1, <4>3, <4>4, <4>5 DEF Counters
    <3>9. Having(l, {"success"})' = Having(l, {"success"}) + One(new = "success")
                                    - One(old = "success")
      BY <3>2, <3>7
    <3>10. /\ count'[l].remain <= Size[l] - Having(l, {"success"})'
           /\ count'[l].success >= Having(l, {"success"})'
      <4>1. /\ count'[l].remain = count[l].remain - One(new = "success")
            /\ count'[l].success = count[l].success
                                   + One(new = "success" /\ old # "success")
            /\ count[l].remain \in Int /\ count[l].success \in Int
        BY <3>1 DEF Counted, CountType
      <4>2. /\ count[l].remain <= Size[l] - Having(l, {"success"})
            /\ count[l].success >= Having(l, {"success"})
        BY <3>5 DEF Counters
      <4>q. QED
        BY <3>3, <3>4, <3>9, <4>1, <4>2 DEF One
    <3>q. QED
      BY <2>3, <3>6, <3>8, <3>10 DEF Counters
  <2>q. QED
    BY <2>2, <2>3
<1>q. QED
  BY <1>2, <1>3

(* Only reports change status bytes and counters. *)
LEMMA StatStep ==
  ASSUME Shape, [Next]_vars
  PROVE  \/ UNCHANGED <<stat, count>> /\ UNCHANGED <<told, again, repeats>>
         \/ \E l \in Lists : \E i \in Boxes(l), k \in Kinds : Report(l, i, k)
         \/ \E r \in again : RepeatReport(r)
<1>1. ASSUME \/ UNCHANGED core
             \/ \E t \in Tasks : StopTask(t)
             \/ \E t \in Tasks, d \in Domains : StopList(t, d)
             \/ \E R \in SUBSET Tasks : MainPass(R)
      PROVE  UNCHANGED <<stat, count, told, again, repeats>>
  BY <1>1 DEF core, StopTask, StopList, MainPass, statVars, engVars
<1>2. ASSUME NEW s \in Sessions, Choose(s) \/ Lock(s) \/ Loop(s) \/ EndSession(s)
      PROVE  UNCHANGED <<stat, count, told, again, repeats>>
  BY <1>2, ChooseSes, LockSes, LoopSes, EndSes DEF others
<1>3. ASSUME NEW s \in Sessions, NEW d \in Domains, NEW n, Ask(s, d, n)
      PROVE  UNCHANGED <<stat, count, told, again, repeats>>
  BY <1>3, AskSes DEF others
<1>4. ASSUME NEW s \in Sessions, Give(s) \/ Wrap(s)
      PROVE  UNCHANGED <<stat, count, told, again, repeats>>
  BY <1>4, GiveLists, WrapLists
<1>q. QED
  BY <1>1, <1>2, <1>3, <1>4, NextCases

LEMMA CountersStep ==
  ASSUME Shape, [Next]_vars, NEW m \in Lists, Counters(m)
  PROVE  Counters(m)'
<1>1. CASE UNCHANGED <<stat, count>>
  BY <1>1 DEF Counters, Having
<1>2. ASSUME NEW l \in Lists, NEW i \in Boxes(l), NEW k \in Kinds, Report(l, i, k)
      PROVE  Counters(m)'
  BY <1>2, ReportLists, CountersChange
<1>3. ASSUME NEW r \in again, RepeatReport(r) PROVE Counters(m)'
  <2>1. r[1] \in Lists /\ r[2] \in Boxes(r[1])
    BY DEF Shape, AgainShape
  <2>2. ChangeStat(r[1], r[2], StatusOf(r[3]))
    BY <1>3 DEF RepeatReport
  <2>q. QED
    BY <2>1, <2>2, CountersChange
<1>q. QED
  BY <1>1, <1>2, <1>3, StatStep

(* Nothing is counted at first. *)
LEMMA HavingInit ==
  ASSUME Init, NEW l \in Lists, NEW K, "new" \notin K
  PROVE  Having(l, K) = 0
<1>1. {i \in Boxes(l) : stat[l][i] \in K} = {}
  BY DEF Init
<1>q. QED
  BY <1>1, FS_EmptySet DEF Having

LEMMA CountersInit ==
  ASSUME Init, NEW l \in Lists
  PROVE  Counters(l)
<1>1. /\ Having(l, FailLike) = 0 /\ Having(l, DelayLike) = 0
      /\ Having(l, {"notfound"}) = 0 /\ Having(l, {"dns"}) = 0
      /\ Having(l, {"spam"}) = 0 /\ Having(l, {"success"}) = 0
  BY HavingInit DEF FailLike, DelayLike
<1>2. Size[l] \in Nat
  BY ListAssumption
<1>q. QED
  BY <1>1, <1>2 DEF Init, Counters

CountInv == RoundInv /\ \A l \in Lists : Counters(l)

LEMMA CountInductive == (Init => CountInv) /\ (CountInv /\ [Next]_vars => CountInv')
<1>1. Init => CountInv
  BY RoundInit, CountersInit DEF CountInv
<1>2. ASSUME CountInv, [Next]_vars PROVE CountInv'
  <2>1. RoundInv'
    BY <1>2, RoundStep DEF CountInv
  <2>2. \A l \in Lists : Counters(l)'
    BY <1>2, CountersStep DEF CountInv, RoundInv
  <2>q. QED
    BY <2>1, <2>2 DEF CountInv
<1>q. QED
  BY <1>1, <1>2

(* The failure counters of a list, which the user is shown, agree with the  *)
(* status bytes of its mailboxes after any sequence of reports, for lists   *)
(* of any size and whatever reports are repeated.                           *)
THEOREM FailuresAreCounted == Spec => []FailuresCounted
<1>1. CountInv => FailuresCounted
  BY DEF CountInv, Counters, FailuresCounted
<1>q. QED
  BY <1>1, CountInductive, PTL DEF Spec

(* nCount never claims more mailboxes to be left than are undelivered, nor  *)
(* nSuccess fewer to be delivered than are.                                 *)
THEOREM RemainIsBounded == Spec => []RemainBound
<1>1. CountInv => RemainBound
  BY DEF CountInv, Counters, RemainBound
<1>q. QED
  BY <1>1, CountInductive, PTL DEF Spec

-----------------------------------------------------------------------------
(* Finished tasks *)

(* In the first round every report is the first of its mailbox. *)
Exact(l) == round[l] = 0 => count[l].remain = Size[l] - Having(l, {"success"})

Tried(l) == finish[l[1]] = "self" => \A i \in Boxes(l) : given[l][i] > 0

TriedInv ==
  /\ RoundInv
  /\ repeats = 0 => again = {} /\ \A l \in Lists : Exact(l) /\ Tried(l)

(* A list that has nothing left was handed out. *)
LEMMA DoneTried ==
  ASSUME RoundInv, NEW l \in Lists, Exact(l), finish[l[1]] # "stop",
         round[l] >= RoundNum \/ count[l].remain = 0, NEW i \in Boxes(l)
  PROVE  given[l][i] > 0
<1>t. Size[l] \in Nat /\ RoundNum \in 1 .. 999 /\ round[l] \in Nat
  BY ListAssumption DEF RoundInv, Shape
<1>1. Cover(l) /\ round[l] # Ended
  BY DEF RoundInv, StopMarks
<1>2. CASE round[l] > 0
  BY <1>1, <1>2 DEF Cover
<1>3. CASE round[l] = 0
  <2> DEFINE S == {j \in Boxes(l) : stat[l][j] \in {"success"}}
  <2>1. count[l].remain = 0 /\ count[l].remain = Size[l] - Having(l, {"success"})
    BY <1>t, <1>3 DEF Exact
  <2>2. Having(l, {"success"}) = Size[l]
    <3>1. Having(l, {"success"}) \in 0 .. Size[l]
      BY HavingType
    <3>q. QED
      BY <1>t, <2>1, <3>1
  <2>3. IsFiniteSet(Boxes(l)) /\ Cardinality(Boxes(l)) = Size[l]
    BY BoxesFinite
  <2>4. S \in SUBSET Boxes(l) /\ Cardinality(S) = Size[l]
    BY <2>2 DEF Having
  <2> HIDE DEF S
  <2>5. Boxes(l) = S
    BY <2>3, <2>4, FS_Subset
  <2>6. stat[l][i] = "success"
    BY <2>5 DEF S
  <2>7. told[l][i] > 0 /\ told[l][i] <= given[l][i]
    BY <2>6 DEF RoundInv, ToldBefore
  <2>8. told[l][i] \in Nat /\ given[l][i] \in Nat
    BY DEF RoundInv, Shape
  <2>q. QED
    BY <2>7, <2>8
<1>q. QED
  BY <1>t, <1>2, <1>3

LEMMA TriedInit == Init => TriedInv
<1> SUFFICES ASSUME Init PROVE TriedInv
  OBVIOUS
<1>1. ASSUME NEW l \in Lists PROVE Exact(l) /\ Tried(l)
  <2>1. Having(l, {"success"}) = 0
    BY HavingInit
  <2>2. Size[l] \in Nat /\ l[1] \in Tasks
    BY ListAssumption DEF Lists
  <2>q. QED
    BY <2>1, <2>2 DEF Init, Exact, Tried
<1>q. QED
  BY <1>1, RoundInit DEF TriedInv, Init

(* Mailboxes that were handed out stay so. *)
LEMMA GivenGrows ==
  ASSUME RoundInv, [Next]_vars, NEW l \in Lists, NEW i \in Boxes(l), given[l][i] > 0
  PROVE  given'[l][i] > 0
<1>1. ASSUME NEW s \in Sessions, Give(s) PROVE given'[l][i] > 0
  <2>1. given[l] \in [Boxes(l) -> Nat]
    BY DEF RoundInv, Shape
  <2>2. given'[l] = given[l] \/ given'[l] = [given[l] EXCEPT ![ses[s].next] = @ + 1]
    BY <1>1, GiveLists DEF RoundInv
  <2>q. QED
    BY <2>1, <2>2
<1>2. ASSUME \/ UNCHANGED core
             \/ \E t \in Tasks : StopTask(t)
             \/ \E t \in Tasks, d \in Domains : StopList(t, d)
             \/ \E R \in SUBSET Tasks : MainPass(R)
             \/ \E m \in Lists : \E j \in Boxes(m), k \in Kinds : Report(m, j, k)
             \/ \E r \in again : RepeatReport(r)
      PROVE  UNCHANGED given
  BY <1>2 DEF core, StopTask, StopList, MainPass, Report, RepeatReport
<1>3. ASSUME NEW s \in Sessions, Choose(s) \/ Lock(s) \/ Loop(s) \/ EndSession(s)
      PROVE  UNCHANGED given
  BY <1>3, ChooseSes, LockSes, LoopSes, EndSes DEF others, RoundInv
<1>4. ASSUME NEW s \in Sessions, NEW d \in Domains, NEW n, Ask(s, d, n)
      PROVE  UNCHANGED given
  BY <1>4, AskSes DEF others, RoundInv
<1>5. ASSUME NEW s \in Sessions, Wrap(s) PROVE UNCHANGED given
  BY <1>5, WrapLists DEF RoundInv
<1>q. QED
  BY <1>1, <1>2, <1>3, <1>4, <1>5, NextCases

LEMMA ExactStep ==
  ASSUME TriedInv, [Next]_vars, repeats = 0, repeats' = 0, NEW l \in Lists
  PROVE  Exact(l)'
<1> USE DEF TriedInv, RoundInv
<1>t. /\ Exact(l) /\ again = {}
      /\ Size[l] \in Nat /\ round[l] \in Nat /\ count[l] \in CountType
  BY ListAssumption DEF Shape
<1>1. ASSUME round'[l] = 0 PROVE round[l] = 0
  <2>1. ASSUME NEW s \in Sessions, Wrap(s) PROVE round'[l] = round[l]
    <3>1. CASE ListOf(s) # l
      BY <2>1, <3>1, WrapLists
    <3>2. CASE ListOf(s) = l
      <4>1. ses[s].next \in Nat /\ round'[l] = ses[s].next + 1
        BY <2>1, <3>2, WrapSes, WrapLists DEF InHand, WrapCover
      <4>q. QED
        BY <1>1, <4>1
    <3>q. QED
      BY <3>1, <3>2
  <2>2. ASSUME NEW t \in Tasks, NEW d \in Domains, StopList(t, d) PROVE round'[l] = round[l]
    BY <1>1, <2>2 DEF StopList, Shape, Ended
  <2>3. ASSUME \/ UNCHANGED core
               \/ \E t \in Tasks : StopTask(t)
               \/ \E R \in SUBSET Tasks : MainPass(R)
               \/ \E m \in Lists : \E j \in Boxes(m), k \in Kinds : Report(m, j, k)
               \/ \E r \in again : RepeatReport(r)
        PROVE  UNCHANGED round
    BY <2>3 DEF core, StopTask, MainPass, Report, RepeatReport, listVars
  <2>4. ASSUME NEW s \in Sessions, Choose(s) \/ Lock(s) \/ Loop(s) \/ EndSession(s) \/ Give(s)
        PROVE  UNCHANGED round
    BY <2>4, ChooseSes, LockSes, LoopSes, EndSes, GiveLists DEF others
  <2>5. ASSUME NEW s \in Sessions, NEW d \in Domains, NEW n, Ask(s, d, n)
        PROVE  UNCHANGED round
    BY <2>5, AskSes DEF others
  <2>q. QED
    BY <1>1, <2>1, <2>2, <2>3, <2>4, <2>5, NextCases
<1>2. CASE stat'[l] = stat[l] /\ count'[l] = count[l]
  <2>1. {j \in Boxes(l) : stat'[l][j] \in {"success"}}
          = {j \in Boxes(l) : stat[l][j] \in {"success"}}
    BY <1>2
  <2>q. QED
    BY <1>t, <1>1, <1>2, <2>1 DEF Exact, Having
<1>3. ASSUME NEW m \in Lists, NEW i \in Boxes(m), NEW k \in Kinds, Report(m, i, k)
      PROVE  Exact(l)'
  <2> DEFINE new == StatusOf(k)
  <2>1. /\ told[m][i] < given[m][i]
        /\ ChangeStat(m, i, new)
        /\ UNCHANGED round
    BY <1>3, ReportLists
  <2>2. CASE ~InQueue(m[1])
    BY <1>2, <2>1, <2>2 DEF ChangeStat, statVars
  <2>3. CASE InQueue(m[1]) /\ m # l
    BY <1>2, <2>1, <2>3 DEF ChangeStat, Shape
  <2>4. CASE InQueue(m[1]) /\ m = l /\ round[l] = 0
    <3>1. /\ given[l][i] \in Nat /\ told[l][i] \in Nat
          /\ given[l][i] <= round[l] + One(i <= pos[l])
      BY <2>4 DEF Cover, Shape, Ended
    <3>2. told[l][i] = 0
      BY <2>1, <2>4, <3>1 DEF One
    <3>3. stat[l][i] = "new"
      BY <2>4, <3>2 DEF ToldBefore
    <3>4. /\ StatBecomes(l, i, new)
          /\ count'[l] = Counted(count[l], stat[l][i], new)
      BY <2>1, <2>4 DEF ChangeStat, StatBecomes, Shape
    <3> HIDE DEF new
    <3>5. Having(l, {"success"})' = Having(l, {"success"}) + One(new \in {"success"})
                                    - One(stat[l][i] \in {"success"})
      BY <2>4, <3>4, HavingChange
    <3>6. Having(l, {"success"})' = Having(l, {"success"}) + One(new = "success")
      BY <3>3, <3>5, HavingType DEF One
    <3>7. count'[l].remain = count[l].remain - One(new = "success")
      BY <3>4 DEF Counted
    <3>8. Having(l, {"success"}) \in 0 .. Size[l] /\ One(new = "success") \in Nat
      BY HavingType DEF One
    <3>9. count[l].remain = Size[l] - Having(l, {"success"})
      BY <1>t, <2>4 DEF Exact
    <3>q. QED
      BY <1>t, <3>6, <3>7, <3>8, <3>9 DEF Exact
  <2>5. CASE round[l] # 0
    BY <2>1, <2>5 DEF Exact
  <2>q. QED
    BY <2>2, <2>3, <2>4, <2>5
<1>q. QED
  BY <1>t, <1>2, <1>3, StatStep

LEMMA TriedStep ==
  ASSUME TriedInv, [Next]_vars, repeats = 0, NEW l \in Lists
  PROVE  Tried(l)'
<1> USE DEF TriedInv, RoundInv
<1>t. Exact(l) /\ Tried(l) /\ l[1] \in Tasks /\ l[2] \in Domains /\ l = <<l[1], l[2]>>
  BY DEF Lists
<1>1. CASE finish'[l[1]] = "self" => finish[l[1]] = "self"
  BY <1>t, <1>1, GivenGrows DEF Tried
<1>2. ASSUME NEW R \in SUBSET Tasks, MainPass(R) PROVE Tried(l)'
  <2>1. CASE finish'[l[1]] = "self" /\ finish[l[1]] # "self"
    <3>1. finish[l[1]] = "no" /\ Done(l[1]) /\ UNCHANGED given
      BY <1>t, <1>2, <2>1 DEF MainPass
    <3>2. round[l] >= RoundNum \/ count[l].remain = 0
      BY <1>t, <3>1 DEF Done
    <3>3. \A i \in Boxes(l) : given[l][i] > 0
      BY <1>t, <3>1, <3>2, DoneTried
    <3>q. QED
      BY <3>1, <3>3 DEF Tried
  <2>q. QED
    BY <1>1, <2>1
<1>3. ASSUME NEW t \in Tasks, StopTask(t) PROVE finish'[l[1]] = "self" => finish[l[1]] = "self"
  BY <1>t, <1>3 DEF StopTask, Shape
<1>4. ASSUME \/ UNCHANGED core
             \/ \E t \in Tasks, d \in Domains : StopList(t, d)
             \/ \E m \in Lists : \E j \in Boxes(m), k \in Kinds : Report(m, j, k)
             \/ \E r \in again : RepeatReport(r)
      PROVE  UNCHANGED finish
  BY <1>4 DEF core, StopList, Report, RepeatReport, taskVars
<1>5. ASSUME NEW s \in Sessions, \/ Choose(s) \/ Lock(s) \/ Loop(s) \/ EndSession(s)
                                 \/ Give(s) \/ Wrap(s)
      PROVE  UNCHANGED finish
  BY <1>5, ChooseSes, LockSes, LoopSes, EndSes, GiveLists, WrapLists DEF others
<1>6. ASSUME NEW s \in Sessions, NEW d \in Domains, NEW n, Ask(s, d, n)
      PROVE  UNCHANGED finish
  BY <1>6, AskSes DEF others
<1>q. QED
  BY <1>1, <1>2, <1>3, <1>4, <1>5, <1>6, NextCases

(* A repeated report is counted for good. *)
LEMMA RepeatsStep ==
  ASSUME TriedInv, [Next]_vars, repeats' = 0
  PROVE  repeats = 0 /\ again' = {}
<1> USE DEF TriedInv, RoundInv
<1>t. repeats \in Nat
  BY DEF Shape
<1>1. CASE UNCHANGED <<again, repeats>>
  BY <1>1
<1>2. ASSUME NEW l \in Lists, NEW i \in Boxes(l), NEW k \in Kinds, Report(l, i, k)
      PROVE  UNCHANGED <<again, repeats>>
  BY <1>2, <1>t, ReportLists
<1>3. ASSUME NEW r \in again, RepeatReport(r) PROVE FALSE
  BY <1>3 DEF RepeatReport
<1>q. QED
  BY <1>1, <1>2, <1>3, StatStep

(* The main thread finishes a task only when every mailbox of it was handed *)
(* out, unless the user stops it or a report was repeated: for any number   *)
(* of tasks, lists of any size and any number of rounds.                    *)
THEOREM FinishedAreTried == Spec => []FinishedTried
<1>1. TriedInv /\ [Next]_vars => TriedInv'
  <2> SUFFICES ASSUME TriedInv, [Next]_vars PROVE TriedInv'
    OBVIOUS
  <2>1. RoundInv'
    BY RoundStep DEF TriedInv
  <2>2. ASSUME repeats' = 0 PROVE again' = {} /\ \A l \in Lists : Exact(l)' /\ Tried(l)'
    <3>1. repeats = 0 /\ again' = {}
      BY <2>2, RepeatsStep
    <3>q. QED
      BY <2>2, <3>1, ExactStep, TriedStep
  <2>q. QED
    BY <2>1, <2>2 DEF TriedInv
<1>2. TriedInv => FinishedTried
  BY DEF TriedInv, Tried, FinishedTried
<1>q. QED
  BY <1>1, <1>2, TriedInit, PTL DEF Spec

-----------------------------------------------------------------------------
(* Stopped tasks *)

(* A list of a stopped task is marked, or yet to be, or its mark was        *)
(* written over.                                                            *)
Marked(t) ==
  finish[t] = "stop" =>
    \A d \in Domains : d \in marking[t] \/ round[<<t, d>>] = Ended \/ <<t, d>> \in undone

Whole(t) == \A d \in Domains : <<t, d>> \notin undone

(* The sessions about to hand out a mailbox of t *)
Giving(t) == {s \in Sessions : ses[s].pc = "give" /\ ses[s].task = t}

(* No session joins those that were about to when STOP was answered. *)
Prompt(t) ==
  /\ ~Stopped(t) => late[t] = 0
  /\ Stopped(t) /\ Whole(t) =>
       late[t] + Cardinality(Giving(t)) <= Cardinality(Sessions)

PromptInv == RoundInv /\ \A t \in Tasks : Marked(t) /\ Prompt(t)

(* What a step does to the marks of a task *)
LEMMA MarkStep ==
  ASSUME RoundInv, [Next]_vars, NEW t \in Tasks
  PROVE  /\ undone \subseteq undone'
         /\ Stopped(t) => Stopped(t)'
         /\ finish'[t] = "stop" =>
              \/ marking'[t] = Domains
              \/ /\ finish[t] = "stop"
                 /\ \A d \in Domains :
                      /\ d \in marking[t] => d \in marking'[t] \/ round'[<<t, d>>] = Ended
                      /\ round[<<t, d>>] = Ended =>
                           round'[<<t, d>>] = Ended \/ <<t, d>> \in undone'
<1> USE DEF RoundInv
<1>0. CASE UNCHANGED <<finish, marking, round, undone>>
  BY <1>0 DEF Stopped
<1>1. ASSUME \/ UNCHANGED core
             \/ \E m \in Lists : \E j \in Boxes(m), k \in Kinds : Report(m, j, k)
             \/ \E r \in again : RepeatReport(r)
      PROVE  UNCHANGED <<finish, marking, round, undone>>
  BY <1>1 DEF core, Report, RepeatReport, taskVars, listVars, stopVars
<1>2. ASSUME NEW s \in Sessions, Choose(s) \/ Lock(s) \/ Loop(s) \/ EndSession(s) \/ Give(s)
      PROVE  UNCHANGED <<finish, marking, round, undone>>
  BY <1>2, ChooseSes, LockSes, LoopSes, EndSes, GiveLists DEF others
<1>3. ASSUME NEW s \in Sessions, NEW d \in Domains, NEW n, Ask(s, d, n)
      PROVE  UNCHANGED <<finish, marking, round, undone>>
  BY <1>3, AskSes DEF others
<1>4. ASSUME NEW s \in Sessions, Wrap(s)
      PROVE  /\ UNCHANGED <<finish, marking>>
             /\ undone \subseteq undone'
             /\ \A l \in Lists : round'[l] = round[l] \/ (round[l] = Ended => l \in undone')
  BY <1>4, WrapLists
<1>5. ASSUME NEW u \in Tasks, StopTask(u)
      PROVE  /\ UNCHANGED <<round, undone>>
             /\ finish[u] = "no"
             /\ finish' = [finish EXCEPT ![u] = "stop"]
             /\ marking' = [marking EXCEPT ![u] = Domains]
  BY <1>5 DEF StopTask, listVars, stopVars
<1>6. ASSUME NEW u \in Tasks, NEW d \in Domains, StopList(u, d)
      PROVE  /\ UNCHANGED <<finish, undone>>
             /\ marking' = [marking EXCEPT ![u] = @ \ {d}]
             /\ round' = [round EXCEPT ![<<u, d>>] = Ended]
  BY <1>6 DEF StopList, stopVars
<1>7. ASSUME NEW R \in SUBSET Tasks, MainPass(R)
      PROVE  /\ UNCHANGED <<marking, round, undone>>
             /\ \A u \in Tasks : finish'[u] = "stop" <=> finish[u] = "stop"
  BY <1>7 DEF MainPass, listVars, stopVars, Shape
<1>8. \A d \in Domains : <<t, d>> \in Lists
  BY DEF Lists
<1>9. /\ finish \in [Tasks -> {"no", "self", "stop"}]
      /\ marking \in [Tasks -> SUBSET Domains]
      /\ round \in [Lists -> Nat]
  BY DEF Shape
<1>10. CASE \E s \in Sessions : Wrap(s)
  BY <1>4, <1>8, <1>10 DEF Stopped
<1>11. CASE \E u \in Tasks : StopTask(u)
  BY <1>5, <1>9, <1>11 DEF Stopped
<1>12. ASSUME NEW u \in Tasks, NEW d \in Domains, StopList(u, d)
       PROVE  /\ undone \subseteq undone'
              /\ Stopped(t) => Stopped(t)'
              /\ UNCHANGED finish
              /\ \A c \in Domains :
                   /\ c \in marking[t] => c \in marking'[t] \/ round'[<<t, c>>] = Ended
                   /\ round[<<t, c>>] = Ended => round'[<<t, c>>] = Ended
  <2>1. /\ UNCHANGED <<finish, undone>>
        /\ marking' = [marking EXCEPT ![u] = @ \ {d}]
        /\ round' = [round EXCEPT ![<<u, d>>] = Ended]
    BY <1>6, <1>12
  <2>2. Stopped(t) => Stopped(t)'
    BY <1>9, <2>1 DEF Stopped
  <2>3. ASSUME NEW c \in Domains
        PROVE  /\ c \in marking[t] => c \in marking'[t] \/ (t = u /\ c = d)
               /\ round'[<<t, c>>] = IF t = u /\ c = d THEN Ended ELSE round[<<t, c>>]
    BY <1>8, <1>9, <2>1
  <2>q. QED
    BY <2>1, <2>2, <2>3
<1>13. CASE \E R \in SUBSET Tasks : MainPass(R)
  BY <1>7, <1>13 DEF Stopped
<1>q. QED
  BY <1>0, <1>1, <1>2, <1>3, <1>10, <1>11, <1>12, <1>13, NextCases

LEMMA MarkedStep ==
  ASSUME PromptInv, [Next]_vars, NEW t \in Tasks
  PROVE  Marked(t)'
<1>1. SUFFICES ASSUME finish'[t] = "stop", NEW d \in Domains
               PROVE  d \in marking'[t] \/ round'[<<t, d>>] = Ended \/ <<t, d>> \in undone'
  BY DEF Marked
<1>2. Marked(t)
  BY DEF PromptInv
<1>q. QED
  BY <1>1, <1>2, MarkStep DEF PromptInv, Marked

(* Who is about to hand out a mailbox of a stopped task was so before. *)
LEMMA GivingStep ==
  ASSUME PromptInv, [Next]_vars, NEW t \in Tasks, Stopped(t), Whole(t)
  PROVE  Giving(t)' \subseteq Giving(t)
<1> USE DEF PromptInv, RoundInv
<1> SUFFICES ASSUME NEW s \in Sessions, ses'[s].pc = "give", ses'[s].task = t,
                    ~(ses[s].pc = "give" /\ ses[s].task = t)
             PROVE  FALSE
  BY DEF Giving
<1>1. ASSUME \/ UNCHANGED core
             \/ \E u \in Tasks : StopTask(u)
             \/ \E u \in Tasks, d \in Domains : StopList(u, d)
             \/ \E R \in SUBSET Tasks : MainPass(R)
             \/ \E m \in Lists : \E i \in Boxes(m), k \in Kinds : Report(m, i, k)
             \/ \E r \in again : RepeatReport(r)
      PROVE  UNCHANGED ses
  BY <1>1 DEF core, StopTask, StopList, MainPass, Report, RepeatReport
<1>2. ASSUME NEW r \in Sessions, Choose(r) \/ Lock(r) \/ EndSession(r) \/ Give(r) \/ Wrap(r)
      PROVE  ses'[s] = ses[s] \/ ses'[s].pc # "give"
  BY <1>2, ChooseSes, LockSes, EndSes, GiveSes, WrapSes DEF SesTo
<1>3. ASSUME NEW r \in Sessions, NEW d \in Domains, NEW n, Ask(r, d, n)
      PROVE  ses'[s] = ses[s] \/ ses'[s].pc # "give"
  BY <1>3, AskSes
<1>4. ASSUME NEW r \in Sessions, Loop(r) PROVE FALSE
  <2>1. r = s /\ ses[s].task = t /\ ses[s].pc = "loop"
    BY <1>4, LoopSes DEF SesTo
  <2>2. ses[s].dom \in Domains
    BY <2>1 DEF Shape, SesShape, PcSet
  <2>3. ListOf(s) = <<t, ses[s].dom>> /\ ListOf(s) \in Lists
    BY <2>1, <2>2 DEF ListOf, Lists
  <2>4. round[ListOf(s)] = Ended
    BY <2>2, <2>3 DEF Stopped, Whole, Marked
  <2>5. round[ListOf(s)] < RoundNum
    BY <1>4, <2>1, <2>3, LoopSes DEF SesTo
  <2>q. QED
    BY <2>4, <2>5, ListAssumption DEF Ended
<1>q. QED
  BY <1>1, <1>2, <1>3, <1>4, NextCases

LEMMA GivingFinite ==
  ASSUME NEW t
  PROVE  /\ IsFiniteSet(Giving(t))
         /\ Cardinality(Giving(t)) \in Nat /\ Cardinality(Sessions) \in Nat
         /\ Cardinality(Giving(t)) <= Cardinality(Sessions)
<1>1. IsFiniteSet(Sessions)
  BY ListAssumption
<1>2. IsFiniteSet(Giving(t)) /\ Cardinality(Giving(t)) <= Cardinality(Sessions)
  BY <1>1, FS_Subset DEF Giving
<1>q. QED
  BY <1>1, <1>2, FS_CardinalityType

(* What is handed out late *)
LEMMA LateStep ==
  ASSUME RoundInv, [Next]_vars, NEW t \in Tasks
  PROVE  \/ late'[t] = late[t]
         \/ /\ Stopped(t)
            /\ late'[t] = late[t] + 1
            /\ \E s \in Giving(t) : s \notin Giving(t)'
<1> USE DEF RoundInv
<1>1. ASSUME \/ UNCHANGED core
             \/ \E u \in Tasks : StopTask(u)
             \/ \E u \in Tasks, d \in Domains : StopList(u, d)
             \/ \E R \in SUBSET Tasks : MainPass(R)
             \/ \E m \in Lists : \E i \in Boxes(m), k \in Kinds : Report(m, i, k)
             \/ \E r \in again : RepeatReport(r)
      PROVE  UNCHANGED late
  BY <1>1 DEF core, StopTask, StopList, MainPass, Report, RepeatReport, stopVars
<1>2. ASSUME NEW r \in Sessions, Choose(r) \/ Lock(r) \/ Loop(r) \/ EndSession(r) \/ Wrap(r)
      PROVE  UNCHANGED late
  BY <1>2, ChooseSes, LockSes, LoopSes, EndSes, WrapLists DEF others
<1>3. ASSUME NEW r \in Sessions, NEW d \in Domains, NEW n, Ask(r, d, n)
      PROVE  UNCHANGED late
  BY <1>3, AskSes DEF others
<1>4. ASSUME NEW s \in Sessions, Give(s), late'[t] # late[t]
      PROVE  /\ Stopped(t)
             /\ late'[t] = late[t] + 1
             /\ s \in Giving(t) /\ s \notin Giving(t)'
  BY <1>4, GiveLists, GiveSes DEF Giving, SesTo
<1>q. QED
  BY <1>1, <1>2, <1>3, <1>4, NextCases

LEMMA PromptStep ==
  ASSUME PromptInv, [Next]_vars, NEW t \in Tasks
  PROVE  Prompt(t)'
<1> USE DEF PromptInv
<1>t. Prompt(t) /\ late[t] \in Nat
  BY DEF RoundInv, Shape
<1>1. ASSUME ~Stopped(t)' PROVE late'[t] = 0
  BY <1>t, <1>1, MarkStep, LateStep DEF Prompt
<1>2. ASSUME Stopped(t)', Whole(t)'
      PROVE  late'[t] + Cardinality(Giving(t)') <= Cardinality(Sessions)
  <2>0. /\ IsFiniteSet(Giving(t)')
        /\ Cardinality(Giving(t)') \in Nat /\ Cardinality(Sessions) \in Nat
        /\ Cardinality(Giving(t)') <= Cardinality(Sessions)
    <3>1. IsFiniteSet(Sessions)
      BY ListAssumption
    <3>2. Giving(t)' \in SUBSET Sessions
      BY DEF Giving
    <3> HIDE DEF Giving
    <3>q. QED
      BY <3>1, <3>2, FS_Subset, FS_CardinalityType
  <2>1. CASE ~Stopped(t)
    <3>1. late'[t] = 0
      BY <1>t, <2>1, LateStep DEF Prompt
    <3>q. QED
      BY <2>0, <3>1
  <2>2. CASE Stopped(t)
    <3>1. Whole(t)
      BY <1>2, MarkStep DEF Whole
    <3>2. late[t] + Cardinality(Giving(t)) <= Cardinality(Sessions)
      BY <1>t, <2>2, <3>1 DEF Prompt
    <3>3. Giving(t)' \subseteq Giving(t)
      BY <2>2, <3>1, GivingStep
    <3>4. IsFiniteSet(Giving(t)) /\ Cardinality(Giving(t)) \in Nat
      BY GivingFinite
    <3>5. CASE late'[t] = late[t]
      <4>1. Cardinality(Giving(t)') <= Cardinality(Giving(t))
        BY <3>3, <3>4, FS_Subset
      <4>q. QED
        BY <1>t, <2>0, <3>2, <3>4, <3>5, <4>1
    <3>6. ASSUME late'[t] = late[t] + 1, NEW s \in Giving(t), s \notin Giving(t)'
          PROVE  late'[t] + Cardinality(Giving(t)') <= Cardinality(Sessions)
      <4>1. Giving(t)' \in SUBSET (Giving(t) \ {s})
        BY <3>3, <3>6
      <4>2. /\ IsFiniteSet(Giving(t) \ {s})
            /\ Cardinality(Giving(t) \ {s}) = Cardinality(Giving(t)) - 1
        BY <3>4, <3>6, FS_RemoveElement
      <4>3. Cardinality(Giving(t)') <= Cardinality(Giving(t)) - 1
        BY <4>1, <4>2, FS_Subset
      <4>q. QED
        BY <1>t, <2>0, <3>2, <3>4, <3>6, <4>3
    <3>q. QED
      BY <3>5, <3>6, LateStep
  <2>q. QED
    BY <2>1, <2>2
<1>q. QED
  BY <1>1, <1>2 DEF Prompt

(* Once STOP is answered, a task whose marks were not written over gets no  *)
(* more mailboxes handed out than there are sessions: each hands out at     *)
(* most the one it was about to.                                            *)
THEOREM StopsArePrompt == Spec => []StopIsPrompt
<1>1. Init => PromptInv
  <2> SUFFICES ASSUME Init PROVE PromptInv
    OBVIOUS
  <2>1. ASSUME NEW t \in Tasks PROVE Marked(t) /\ Prompt(t)
    BY DEF Init, Marked, Prompt, Stopped
  <2>q. QED
    BY <2>1, RoundInit DEF PromptInv
<1>2. PromptInv /\ [Next]_vars => PromptInv'
  <2> SUFFICES ASSUME PromptInv, [Next]_vars PROVE PromptInv'
    OBVIOUS
  <2>1. RoundInv'
    BY RoundStep DEF PromptInv
  <2>2. \A t \in Tasks : Marked(t)' /\ Prompt(t)'
    BY MarkedStep, PromptStep
  <2>q. QED
    BY <2>1, <2>2 DEF PromptInv
<1>3. PromptInv => StopIsPrompt
  <2> SUFFICES ASSUME PromptInv, NEW t \in Tasks, Whole(t)
               PROVE  late[t] <= Cardinality(Sessions)
    BY DEF StopIsPrompt, Whole
  <2>1. Prompt(t) /\ late[t] \in Nat
    BY DEF PromptInv, RoundInv, Shape
  <2>q. QED
    BY <2>1, GivingFinite DEF Prompt
<1>q. QED
  BY <1>1, <1>2, <1>3, PTL DEF Spec
=============================================================================
