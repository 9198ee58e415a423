--------------------------- MODULE Recover_proofs ---------------------------
(***************************************************************************)
(* Proofs about Recover, for any number of tasks, mailboxes, sessions and  *)
(* crashes.                                                                *)
(*                                                                         *)
(* FileInv relates the files to what the dispatcher, the sessions and the  *)
(* side side make of them, before and after a crash.  BookInv adds that no *)
(* success is in a list or in the log without a mail that was handed out.  *)
(* KeepInv adds where every session is in its package, and what the        *)
(* reports it has applied and logged say.  What the replay of a line does  *)
(* is proved by the least-number principle: there is no first report after *)
(* which the lists would not be as claimed.                                *)
(***************************************************************************)
EXTENDS Recover, TLAPS, FiniteSetTheorems, WellFoundedInduction

Shape ==
  /\ file \in [Tasks -> Int] /\ \A t \in Tasks : file[t] \in NoFile .. Size[t]
  /\ list \in [Tasks -> Int]
  /\ round \in [Tasks -> Nat] /\ pos \in [Tasks -> Nat]
  /\ finish \in [Tasks -> {"no", "self", "stop"}]
  /\ recv \in [Tasks -> {"idle", "go", "read"}]
  /\ stopping \in [Tasks -> {"no", "marked", "moved", "told"}]
  /\ side \in [Tasks -> {"send", "wait", "done", "gaveup"}]
  /\ DOMAIN out = Tasks /\ \A t \in Tasks : out[t] \in [Boxes(t) -> Int]
  /\ queue \subseteq Tasks
  /\ up \in BOOLEAN

(* A session at work is at a task of the queue. *)
AtWork ==
  /\ ses \in [Sessions -> [pc : {"idle", "asked", "give", "wrap"},
                          task : Tasks \cup {NoTask}, next : Nat]]
  /\ \A s \in Sessions :
       /\ ses[s].pc = "idle" => ses[s].task = NoTask
       /\ ses[s].pc # "idle" => ses[s].task \in queue
       /\ ses[s].pc = "give" => ses[s].next \in Boxes(ses[s].task)

(* Nothing of the lists outlives a crash. *)
Down ==
  ~up =>
    /\ queue = {}
    /\ \A t \in Tasks : /\ recv[t] = "idle"
                        /\ finish[t] = "no" /\ round[t] = 0 /\ pos[t] = 0
                        /\ stopping[t] \in {"no", "told"}

(* A file that is received is not yet in the queue, *)
Receiving ==
  \A t \in Tasks :
    /\ recv[t] = "go" => t \in tmp
    /\ recv[t] # "idle" => t \notin queue /\ t \notin bak
    /\ recv[t] = "read" => file[t] = Size[t]

(* ... one in the queue is in the directory until the task is over, ... *)
Queued ==
  \A t \in Tasks :
    /\ t \in bak => file[t] = NoFile
    /\ t \in queue /\ finish[t] = "no" => t \notin bak
    /\ t \in queue /\ t \notin bak => file[t] >= 0 /\ list[t] = file[t]
    /\ t \in queue => list[t] <= Size[t]
    /\ t \notin queue => finish[t] = "no" /\ round[t] = 0 /\ pos[t] = 0

(* ... and one in the directory is whole, or on its way. *)
Whole ==
  \A t \in Tasks :
    /\ up /\ t \notin tmp /\ file[t] # NoFile => file[t] = Size[t] \/ t \in torn
    /\ side[t] = "done" => t \in bak \/ file[t] = Size[t] \/ t \in torn

(* A task that is over was moved, or could not be, or a session is at it. *)
Over ==
  \A t \in Tasks :
    /\ stopping[t] \in {"marked", "moved"} => t \in queue /\ finish[t] = "stop"
    /\ stopping[t] \in {"moved", "told"} => t \in bak \/ t \in unmoved
    /\ finish[t] = "self" => t \in bak \/ t \in unmoved

FileInv == Shape /\ AtWork /\ Down /\ Receiving /\ Queued /\ Whole /\ Over

(* The mailbox of a report is one of those handed out, G. *)
Reportable(r, G) ==
  /\ r \in Tasks \X Nat \X Kinds
  /\ r[2] \in Boxes(r[1])
  /\ <<r[1], r[2]>> \in G

(* A success was counted, and the mailbox handed out before. *)
Sound(b, t, G) ==
  /\ b \in [stat : [Boxes(t) -> Status], done : Nat, won : SUBSET Boxes(t)]
  /\ \A i \in b.won : <<t, i>> \in G
  /\ Cardinality(b.won) <= b.done
  /\ \A i \in Boxes(t) : b.stat[i] = "success" => i \in b.won

AllSound(l, G) == DOMAIN l = Tasks /\ \A t \in Tasks : Sound(l[t], t, G)

(* The reports a session has before it, and those of its line *)
TodoIn(x, G) ==
  /\ x \in Seq(Tasks \X Nat \X Kinds) /\ Len(x) \in Nat
  /\ \A j \in 1 .. Len(x) : Reportable(x[j], G)

LineIn(x, G) ==
  /\ x \in Seq([what : Tasks \X Nat \X Kinds, found : BOOLEAN]) /\ Len(x) \in Nat
  /\ \A j \in 1 .. Len(x) : Reportable(x[j].what, G)

Reports ==
  /\ \A t \in Tasks : \A i \in Boxes(t) : out[t][i] > 0 => <<t, i>> \in gave
  /\ \A r \in results : Reportable(r, gave)

InHand ==
  /\ DOMAIN rep = Reporters
  /\ \A p \in Reporters :
       /\ DOMAIN rep[p] = {"pc", "batch", "todo", "line"}
       /\ TodoIn(rep[p].todo, gave)
       /\ LineIn(rep[p].line, gave)

Books == AllSound(book, gave) /\ AllSound(logged, gave)

(* The file of a task that was begun stays until the task is over. *)
Begun ==
  \A t \in Tasks : \A i \in Boxes(t) :
    <<t, i>> \in gave => t \in bak \/ (i <= file[t] /\ recv[t] = "idle")

(* What lies behind nNowPos was handed out; all of it after a round, *)
Rounds ==
  \A t \in queue : \A i \in 1 .. list[t] :
    i <= pos[t] \/ (round[t] > 0 /\ finish[t] # "stop") => <<t, i>> \in gave

(* ... and so was what a session has passed over. *)
Looking ==
  \A s \in Sessions :
    /\ ses[s].pc = "give" =>
         /\ ses[s].next <= list[ses[s].task]
         /\ \A j \in 1 .. ses[s].next - 1 : <<ses[s].task, j>> \in gave
    /\ ses[s].pc = "wrap" =>
         \A j \in 1 .. list[ses[s].task] : <<ses[s].task, j>> \in gave

BookInv ==
  /\ FileInv /\ Reports /\ InHand /\ Books /\ Begun /\ Rounds /\ Looking
  /\ FinishedTried
-----------------------------------------------------------------------------
(* The files *)

LEMMA SizeNat == \A t \in Tasks : Size[t] \in Nat
  BY RecoverAssumption

LEMMA FileInit == Init => FileInv
<1> SUFFICES ASSUME Init PROVE FileInv
  OBVIOUS
<1>1. Shape
  BY SizeNat DEF Init, Shape, NoFile, Boxes
<1>3. AtWork
  BY DEF Init, AtWork, Idle
<1>2. Down /\ Receiving /\ Queued /\ Whole /\ Over
  BY DEF Init, Down, Receiving, Queued, Whole, Over, NoFile
<1>q. QED
  BY <1>1, <1>2, <1>3 DEF FileInv

(* The sessions stay at their lists. *)
LEMMA WorkKept ==
  ASSUME AtWork, UNCHANGED ses, queue \subseteq queue'
  PROVE  AtWork'
  BY DEF AtWork, Boxes

(* Where pLockRWTask is taken for writing, no session is at work. *)
LEMMA NobodyAtWork ==
  ASSUME AtWork, UNCHANGED ses, \A s \in Sessions : ses[s].pc = "idle"
  PROVE  AtWork'
  BY DEF AtWork

(* One session goes on. *)
LEMMA WorkStep ==
  ASSUME AtWork, NEW s \in Sessions, NEW x, UNCHANGED queue,
         ses' = [ses EXCEPT ![s] = x],
         x \in [pc : {"idle", "asked", "give", "wrap"}, task : Tasks \cup {NoTask},
                next : Nat],
         x.pc = "idle" => x.task = NoTask,
         x.pc # "idle" => x.task \in queue,
         x.pc = "give" => x.next \in Boxes(x.task)
  PROVE  AtWork'
<1>1. ses' \in [Sessions -> [pc : {"idle", "asked", "give", "wrap"},
                            task : Tasks \cup {NoTask}, next : Nat]]
  BY DEF AtWork
<1>2. ses'[s] = x /\ \A r \in Sessions : r # s => ses'[r] = ses[r]
  BY DEF AtWork
<1>3. ASSUME NEW r \in Sessions
      PROVE  /\ ses'[r].pc = "idle" => ses'[r].task = NoTask
             /\ ses'[r].pc # "idle" => ses'[r].task \in queue
             /\ ses'[r].pc = "give" => ses'[r].next \in Boxes(ses'[r].task)
  BY <1>2 DEF AtWork
<1>q. QED
  BY <1>1, <1>3 DEF AtWork, Boxes

(* What an attempt of the side side that fails leaves *)
LEMMA NotYetSide ==
  ASSUME Shape, NEW t \in Tasks, NEW c, NotYet(t, c)
  PROVE  /\ side' \in [Tasks -> {"send", "wait", "done", "gaveup"}]
         /\ \A u \in Tasks : side'[u] = "done" => side[u] = "done"
  BY DEF NotYet, Through, Shape

(* Steps that change at most the side side's state, the log, the books,     *)
(* the rounds of a list in the queue, or mails on their way                 *)
LEMMA FilesKept ==
  ASSUME FileInv,
         UNCHANGED <<file, tmp, bak, up, queue, list, finish, recv, stopping, torn,
                     unmoved>>,
         AtWork',
         round' \in [Tasks -> Nat], pos' \in [Tasks -> Nat],
         \A t \in Tasks \ queue : round'[t] = round[t] /\ pos'[t] = pos[t],
         side' \in [Tasks -> {"send", "wait", "done", "gaveup"}],
         \A t \in Tasks : side'[t] = "done" =>
             side[t] = "done" \/ t \in bak \/ file[t] = Size[t] \/ t \in torn,
         DOMAIN out' = Tasks, \A t \in Tasks : out'[t] \in [Boxes(t) -> Int]
  PROVE  FileInv'
<1>1. Shape'
  BY DEF FileInv, Shape, Boxes
<1>2. Down'
  BY DEF FileInv, Down
<1>3. Receiving' /\ Over'
  BY DEF FileInv, Receiving, Over
<1>4. Queued'
  BY DEF FileInv, Queued
<1>5. Whole'
  BY DEF FileInv, Whole
<1>q. QED
  BY <1>1, <1>2, <1>3, <1>4, <1>5 DEF FileInv

LEMMA RefusedFiles ==
  ASSUME FileInv, NEW t \in Tasks, Refused(t) \/ Known(t) \/ NoAnswer(t)
  PROVE  FileInv'
<1>0. Shape
  BY DEF FileInv
<1>1. /\ UNCHANGED <<file, tmp, bak, up, queue, list, finish, recv, stopping, torn,
                     unmoved>>
      /\ UNCHANGED <<round, pos, ses, out>>
  BY DEF Refused, Known, NoAnswer, diskVars, listVars, engVars, histVars
<1>w. AtWork'
  BY <1>1, WorkKept DEF FileInv
<1>2. /\ round \in [Tasks -> Nat] /\ pos \in [Tasks -> Nat]
      /\ DOMAIN out = Tasks /\ \A u \in Tasks : out[u] \in [Boxes(u) -> Int]
  BY <1>0 DEF Shape
<1>3. CASE Refused(t) \/ NoAnswer(t)
  <2>1. /\ side' \in [Tasks -> {"send", "wait", "done", "gaveup"}]
        /\ \A u \in Tasks : side'[u] = "done" => side[u] = "done"
    BY <1>0, <1>3, NotYetSide DEF Refused, NoAnswer
  <2>q. QED
    BY <1>1, <1>w, <1>2, <2>1, FilesKept
<1>4. CASE Known(t)
  <2>1. /\ side' \in [Tasks -> {"send", "wait", "done", "gaveup"}]
        /\ \A u \in Tasks : side'[u] = "done" => side[u] = "done" \/ u = t
    BY <1>0, <1>4 DEF Known, Through, Shape
  <2>2. t \in bak \/ file[t] = Size[t] \/ t \in torn
    BY <1>4 DEF Known, FileInv, Whole
  <2>q. QED
    BY <1>1, <1>w, <1>2, <2>1, <2>2, FilesKept
<1>q. QED
  BY <1>3, <1>4

LEMMA GoFiles ==
  ASSUME FileInv, NEW t \in Tasks, Go(t)
  PROVE  FileInv'
<1>1. /\ up /\ file[t] = NoFile /\ t \notin bak /\ tmp' = tmp \cup {t}
      /\ recv' = [recv EXCEPT ![t] = "go"] /\ side' = [side EXCEPT ![t] = "wait"]
      /\ UNCHANGED <<file, bak, up, queue, list, finish, round, pos, ses, stopping, out,
                     torn, unmoved>>
  BY DEF Go, listVars, engVars, histVars
<1>2. t \notin queue
  BY <1>1 DEF FileInv, Queued, NoFile
<1>3. Shape' /\ AtWork'
  BY <1>1, WorkKept DEF FileInv, Shape, Boxes
<1>4. Down' /\ Queued' /\ Over'
  BY <1>1 DEF FileInv, Down, Queued, Over
<1>5. Receiving'
  BY <1>1, <1>2 DEF FileInv, Shape, Receiving
<1>6. Whole'
  BY <1>1 DEF FileInv, Shape, Whole
<1>q. QED
  BY <1>3, <1>4, <1>5, <1>6 DEF FileInv

LEMMA ReceiveFiles ==
  ASSUME FileInv, NEW t \in Tasks, Receive(t)
  PROVE  FileInv'
<1>1. /\ recv[t] = "go" /\ file[t] < Size[t] /\ file' = [file EXCEPT ![t] = @ + 1]
      /\ UNCHANGED <<tmp, bak, up, queue, list, finish, round, pos, ses, recv, stopping,
                     side, out, torn, unmoved>>
  BY DEF Receive, listVars, sideVars, engVars, histVars
<1>2. t \in tmp /\ t \notin queue /\ t \notin bak
  BY <1>1 DEF FileInv, Receiving
<1>3. file[t] \in Int /\ Size[t] \in Nat /\ file'[t] = file[t] + 1
      /\ \A u \in Tasks : u # t => file'[u] = file[u]
  BY <1>1, SizeNat DEF FileInv, Shape
<1>4. Shape'
  <2>1. file' \in [Tasks -> Int] /\ \A u \in Tasks : file'[u] \in NoFile .. Size[u]
    BY <1>1, <1>3 DEF FileInv, Shape, NoFile
  <2>q. QED
    BY <1>1, <2>1 DEF FileInv, Shape, Boxes
<1>5. AtWork' /\ Down' /\ Over'
  BY <1>1, WorkKept DEF FileInv, Down, Over
<1>6. Receiving'
  BY <1>1, <1>3 DEF FileInv, Receiving
<1>7. Queued'
  BY <1>1, <1>2, <1>3 DEF FileInv, Queued
<1>8. Whole'
  BY <1>1, <1>2, <1>3 DEF FileInv, Whole
<1>q. QED
  BY <1>4, <1>5, <1>6, <1>7, <1>8 DEF FileInv

LEMMA BrokenFiles ==
  ASSUME FileInv, NEW t \in Tasks, Broken(t)
  PROVE  FileInv'
<1>0. Shape
  BY DEF FileInv
<1>1. /\ recv[t] = "go" /\ file[t] < Size[t] /\ tmp' = tmp \ {t}
      /\ file' = [file EXCEPT ![t] = NoFile] /\ recv' = [recv EXCEPT ![t] = "idle"]
      /\ UNCHANGED <<bak, up, queue, list, finish, round, pos, ses, stopping, out, torn,
                     unmoved>>
  BY DEF Broken, listVars, engVars, histVars
<1>2. t \in tmp /\ t \notin queue /\ t \notin bak /\ Size[t] \in Nat
  BY <1>1, SizeNat DEF FileInv, Receiving
<1>3. /\ side' \in [Tasks -> {"send", "wait", "done", "gaveup"}]
      /\ \A u \in Tasks : side'[u] = "done" => side[u] = "done"
  <2>1. CASE side[t] = "wait"
    BY <1>0, <2>1, NotYetSide DEF Broken
  <2>2. CASE side[t] # "wait"
    BY <1>0, <2>2 DEF Broken, sideVars, Shape
  <2>q. QED
    BY <2>1, <2>2
<1>4. /\ file'[t] = NoFile /\ \A u \in Tasks : u # t => file'[u] = file[u]
      /\ recv'[t] = "idle" /\ \A u \in Tasks : u # t => recv'[u] = recv[u]
  BY <1>0, <1>1 DEF Shape
<1>5. Shape'
  <2>1. file' \in [Tasks -> Int] /\ \A u \in Tasks : file'[u] \in NoFile .. Size[u]
    BY <1>0, <1>1, <1>2, <1>4 DEF Shape, NoFile
  <2>q. QED
    BY <1>0, <1>1, <1>3, <2>1 DEF Shape, Boxes
<1>6. AtWork' /\ Down' /\ Over'
  BY <1>0, <1>1, WorkKept DEF FileInv, Down, Over, Shape
<1>7. Receiving'
  BY <1>1, <1>4 DEF FileInv, Receiving
<1>8. Queued'
  BY <1>1, <1>2, <1>4 DEF FileInv, Queued
<1>9. Whole'
  <2>1. file[t] # Size[t]
    BY <1>0, <1>1, <1>2 DEF Shape
  <2>q. QED
    BY <1>1, <1>2, <1>3, <1>4, <2>1 DEF FileInv, Whole
<1>q. QED
  BY <1>5, <1>6, <1>7, <1>8, <1>9 DEF FileInv

LEMMA ReceivedFiles ==
  ASSUME FileInv, NEW t \in Tasks, Received(t)
  PROVE  FileInv'
<1>1. /\ recv[t] = "go" /\ file[t] = Size[t] /\ tmp' = tmp \ {t}
      /\ recv' = [recv EXCEPT ![t] = "read"]
      /\ UNCHANGED <<file, bak, up, queue, list, finish, round, pos, ses, stopping, side,
                     out, torn, unmoved>>
  BY DEF Received, listVars, sideVars, engVars, histVars
<1>2. Shape' /\ AtWork'
  BY <1>1, WorkKept DEF FileInv, Shape, Boxes
<1>3. Down' /\ Over' /\ Queued'
  BY <1>1 DEF FileInv, Down, Over, Queued
<1>4. Receiving'
  BY <1>1 DEF FileInv, Shape, Receiving
<1>5. Whole'
  BY <1>1 DEF FileInv, Whole
<1>q. QED
  BY <1>2, <1>3, <1>4, <1>5 DEF FileInv

LEMMA AddTaskFiles ==
  ASSUME FileInv, NEW t \in Tasks, AddTask(t)
  PROVE  FileInv'
<1>0. Shape
  BY DEF FileInv
<1>1. /\ recv[t] = "read" /\ queue' = queue \cup {t}
      /\ list' = [list EXCEPT ![t] = file[t]] /\ recv' = [recv EXCEPT ![t] = "idle"]
      /\ UNCHANGED <<file, tmp, bak, up, finish, round, pos, ses, stopping, out, torn,
                     unmoved>>
  BY DEF AddTask, diskVars, engVars, histVars
<1>2. /\ t \notin queue /\ t \notin bak /\ file[t] = Size[t] /\ Size[t] \in Nat /\ up
      /\ finish[t] = "no" /\ round[t] = 0 /\ pos[t] = 0
  BY <1>1, SizeNat DEF FileInv, Receiving, Down, Queued
<1>3. /\ side' \in [Tasks -> {"send", "wait", "done", "gaveup"}]
      /\ \A u \in Tasks : side'[u] = "done" => side[u] = "done" \/ u = t
  <2>1. CASE side[t] # "wait"
    BY <1>0, <2>1 DEF AddTask, sideVars, Shape
  <2>2. CASE side[t] = "wait" /\ failed[t]
    BY <1>0, <2>2, NotYetSide DEF AddTask
  <2>3. CASE side[t] = "wait" /\ ~failed[t]
    BY <1>0, <2>3 DEF AddTask, Through, Shape
  <2>q. QED
    BY <2>1, <2>2, <2>3
<1>4. /\ recv'[t] = "idle" /\ \A u \in Tasks : u # t => recv'[u] = recv[u]
      /\ list'[t] = file[t] /\ \A u \in Tasks : u # t => list'[u] = list[u]
  BY <1>0, <1>1 DEF Shape
<1>5. Shape'
  BY <1>0, <1>1, <1>2, <1>3 DEF Shape, Boxes
<1>6. AtWork' /\ Down' /\ Over'
  BY <1>0, <1>1, <1>2, WorkKept DEF FileInv, Down, Over, Shape
<1>7. Receiving'
  BY <1>1, <1>4 DEF FileInv, Receiving
<1>8. Queued'
  BY <1>1, <1>2, <1>4 DEF FileInv, Queued
<1>9. Whole'
  BY <1>1, <1>2, <1>3 DEF FileInv, Whole
<1>q. QED
  BY <1>5, <1>6, <1>7, <1>8, <1>9 DEF FileInv

(* The steps of a session that hands out *)
LEMMA AskFiles ==
  ASSUME FileInv, NEW s \in Sessions,
         (\E t \in Tasks : Ask(s, t)) \/ Look(s) \/ EndSession(s)
  PROVE  FileInv' /\ UNCHANGED <<queue, list, pos, round, finish, book, file, bak, recv>>
<1>0. Shape /\ AtWork
  BY DEF FileInv
<1>1. UNCHANGED <<file, tmp, bak, up, queue, list, finish, round, pos, book, recv,
                  stopping, side, out, torn, unmoved>>
  BY DEF Ask, Look, EndSession, diskVars, sideVars, engVars, histVars
<1>2. ASSUME NEW t \in Tasks, Ask(s, t) PROVE AtWork'
  <2> DEFINE x == [pc |-> "asked", task |-> t, next |-> 0]
  <2>1. ses' = [ses EXCEPT ![s] = x] /\ t \in queue
    BY <1>2 DEF Ask
  <2>q. QED
    BY <1>0, <1>1, <2>1, WorkStep
<1>3. ASSUME Look(s) PROVE AtWork'
  <2> DEFINE t == ses[s].task
  <2>1. t \in queue /\ t \in Tasks /\ round[t] \in Nat
    BY <1>0, <1>3 DEF Look, AtWork, Shape
  <2>2. \/ \E i \in Candidates(t) :
             ses' = [ses EXCEPT ![s] = [pc |-> "give", task |-> t, next |-> i]]
        \/ ses' = [ses EXCEPT ![s] = [pc |-> "wrap", task |-> t, next |-> round[t]]]
    BY <1>3 DEF Look
  <2> HIDE DEF t
  <2>3. ASSUME NEW i \in Candidates(t),
               ses' = [ses EXCEPT ![s] = [pc |-> "give", task |-> t, next |-> i]]
        PROVE  AtWork'
    <3>1. i \in Boxes(t) /\ i \in Nat
      BY <2>1, SizeNat DEF Candidates, Boxes
    <3> DEFINE x == [pc |-> "give", task |-> t, next |-> i]
    <3>2. /\ x \in [pc : {"idle", "asked", "give", "wrap"}, task : Tasks \cup {NoTask},
                    next : Nat]
          /\ x.pc = "give" /\ x.task = t /\ x.next = i
      BY <2>1, <3>1
    <3>3. ses' = [ses EXCEPT ![s] = x]
      BY <2>3
    <3> HIDE DEF x
    <3>q. QED
      BY <1>0, <1>1, <2>1, <3>1, <3>2, <3>3, WorkStep
  <2>4. ASSUME ses' = [ses EXCEPT ![s] = [pc |-> "wrap", task |-> t, next |-> round[t]]]
        PROVE  AtWork'
    <3> DEFINE x == [pc |-> "wrap", task |-> t, next |-> round[t]]
    <3>2. /\ x \in [pc : {"idle", "asked", "give", "wrap"}, task : Tasks \cup {NoTask},
                    next : Nat]
          /\ x.pc = "wrap" /\ x.task = t
      BY <2>1
    <3>3. ses' = [ses EXCEPT ![s] = x]
      BY <2>4
    <3> HIDE DEF x
    <3>q. QED
      BY <1>0, <1>1, <2>1, <3>2, <3>3, WorkStep
  <2>q. QED
    BY <2>2, <2>3, <2>4
<1>4. ASSUME EndSession(s) PROVE AtWork'
  <2>1. ses' = [ses EXCEPT ![s] = Idle]
    BY <1>4 DEF EndSession
  <2>2. /\ Idle \in [pc : {"idle", "asked", "give", "wrap"}, task : Tasks \cup {NoTask},
                     next : Nat]
        /\ Idle.pc = "idle" /\ Idle.task = NoTask
    BY DEF Idle
  <2>q. QED
    BY <1>0, <1>1, <2>1, <2>2, WorkStep
<1>5. AtWork'
  BY <1>2, <1>3, <1>4
<1>6. FileInv'
  BY <1>0, <1>1, <1>5, FilesKept DEF Shape
<1>q. QED
  BY <1>1, <1>6

LEMMA ListFiles ==
  ASSUME FileInv, NEW s \in Sessions, HandOut(s) \/ NextRound(s)
  PROVE  FileInv'
<1> DEFINE t == ses[s].task
<1>0. Shape /\ AtWork /\ t \in queue /\ t \in Tasks /\ ses[s].next \in Nat
  BY DEF FileInv, HandOut, NextRound, AtWork, Shape
<1>1. /\ UNCHANGED <<file, tmp, bak, up, queue, list, finish, recv, stopping, side, torn,
                     unmoved>>
  BY DEF HandOut, NextRound, diskVars, sideVars, engVars, histVars
<1>2. CASE HandOut(s)
  <2> DEFINE i == ses[s].next
             x == [pc |-> "asked", task |-> t, next |-> 0]
  <2>1. /\ pos' = [pos EXCEPT ![t] = i]
        /\ out' = [out EXCEPT ![t][i] = @ + 1]
        /\ ses' = [ses EXCEPT ![s] = x]
        /\ UNCHANGED round
    BY <1>2 DEF HandOut
  <2>2. i \in Boxes(t) /\ i \in Nat
    BY <1>0, <1>2 DEF AtWork, HandOut
  <2> HIDE DEF t, i
  <2>w. AtWork'
    <3>1. /\ x \in [pc : {"idle", "asked", "give", "wrap"}, task : Tasks \cup {NoTask},
                    next : Nat]
          /\ x.pc = "asked" /\ x.task = t
      BY <1>0
    <3> HIDE DEF x
    <3>q. QED
      BY <1>0, <1>1, <2>1, <3>1, WorkStep
  <2>3. /\ round' \in [Tasks -> Nat] /\ pos' \in [Tasks -> Nat]
        /\ \A u \in Tasks \ queue : round'[u] = round[u] /\ pos'[u] = pos[u]
    BY <1>0, <2>1, <2>2 DEF Shape
  <2>4. out' = [out EXCEPT ![t] = [out[t] EXCEPT ![i] = out[t][i] + 1]]
    BY <1>0, <2>1, <2>2 DEF Shape
  <2>5. DOMAIN out' = Tasks /\ \A u \in Tasks : out'[u] \in [Boxes(u) -> Int]
    BY <1>0, <2>2, <2>4 DEF Shape
  <2>q. QED
    BY <1>0, <1>1, <2>w, <2>3, <2>5, FilesKept DEF Shape
<1>3. CASE NextRound(s)
  <2>1. /\ pos' = [pos EXCEPT ![t] = 0] /\ round' = [round EXCEPT ![t] = ses[s].next + 1]
        /\ ses' = [ses EXCEPT ![s] = Idle]
        /\ UNCHANGED out
    BY <1>3 DEF NextRound, engVars
  <2> HIDE DEF t
  <2>w. AtWork'
    <3>1. /\ Idle \in [pc : {"idle", "asked", "give", "wrap"},
                       task : Tasks \cup {NoTask}, next : Nat]
          /\ Idle.pc = "idle" /\ Idle.task = NoTask
      BY DEF Idle
    <3>q. QED
      BY <1>0, <1>1, <2>1, <3>1, WorkStep
  <2>2. /\ round' \in [Tasks -> Nat] /\ pos' \in [Tasks -> Nat]
        /\ \A u \in Tasks \ queue : round'[u] = round[u] /\ pos'[u] = pos[u]
    BY <1>0, <2>1 DEF Shape
  <2>q. QED
    BY <1>0, <1>1, <2>w, <2>1, <2>2, FilesKept DEF Shape
<1>q. QED
  BY <1>2, <1>3

(* The file of a task that is over *)
LEMMA Moved ==
  ASSUME Shape, NEW t \in Tasks, MoveFile(t)
  PROVE  /\ file' \in [Tasks -> Int] /\ \A u \in Tasks : file'[u] \in NoFile .. Size[u]
         /\ \A u \in Tasks : u # t => file'[u] = file[u]
         /\ \A u \in Tasks : u # t => (u \in bak' <=> u \in bak)
         /\ \A u \in Tasks : u # t => (u \in unmoved' <=> u \in unmoved)
         /\ \/ t \in bak' /\ file'[t] = NoFile
            \/ t \in unmoved' /\ file'[t] = file[t] /\ (t \in bak' <=> t \in bak)
<1>0. Size[t] \in Nat
  BY SizeNat
<1>1. CASE bak' = bak \cup {t} /\ file' = [file EXCEPT ![t] = NoFile]
           /\ unmoved' = unmoved \ {t}
  BY <1>0, <1>1 DEF Shape, NoFile
<1>2. CASE unmoved' = unmoved \cup {t} /\ UNCHANGED <<bak, file>>
  BY <1>2 DEF Shape
<1>q. QED
  BY <1>1, <1>2 DEF MoveFile

LEMMA FinishFiles ==
  ASSUME FileInv, NEW t \in Tasks, Finish(t)
  PROVE  FileInv'
<1>0. Shape
  BY DEF FileInv
<1>1. /\ t \in queue /\ finish[t] = "no" /\ finish' = [finish EXCEPT ![t] = "self"]
      /\ MoveFile(t)
      /\ UNCHANGED <<tmp, up, queue, list, round, pos, ses, recv, stopping, side, out,
                     torn>>
  BY DEF Finish, sideVars, engVars
<1>2. recv[t] = "idle" /\ up /\ stopping[t] \notin {"marked", "moved"}
  BY <1>1 DEF FileInv, Down, Receiving, Over
<1>m. /\ file' \in [Tasks -> Int] /\ \A u \in Tasks : file'[u] \in NoFile .. Size[u]
      /\ \A u \in Tasks : u # t => file'[u] = file[u]
      /\ \A u \in Tasks : u # t => (u \in bak' <=> u \in bak)
      /\ \A u \in Tasks : u # t => (u \in unmoved' <=> u \in unmoved)
      /\ \/ t \in bak' /\ file'[t] = NoFile
         \/ t \in unmoved' /\ file'[t] = file[t] /\ (t \in bak' <=> t \in bak)
  BY <1>0, <1>1, Moved
<1>f. finish'[t] = "self" /\ \A u \in Tasks : u # t => finish'[u] = finish[u]
  BY <1>0, <1>1 DEF Shape
<1>3. Shape' /\ AtWork'
  BY <1>0, <1>1, <1>m, WorkKept DEF FileInv, Shape, Boxes
<1>4. Down' /\ Receiving'
  BY <1>1, <1>2, <1>m DEF FileInv, Down, Receiving
<1>5. Queued' /\ Whole'
  BY <1>1, <1>m, <1>f DEF FileInv, Queued, Whole
<1>6. Over'
  BY <1>1, <1>2, <1>m, <1>f DEF FileInv, Over
<1>q. QED
  BY <1>3, <1>4, <1>5, <1>6 DEF FileInv

LEMMA RemoveFiles ==
  ASSUME FileInv, NEW t \in Tasks, Remove(t)
  PROVE  FileInv'
<1>0. Shape /\ AtWork
  BY DEF FileInv
<1>1. /\ t \in queue /\ finish[t] # "no" /\ queue' = queue \ {t}
      /\ list' = [list EXCEPT ![t] = 0] /\ finish' = [finish EXCEPT ![t] = "no"]
      /\ round' = [round EXCEPT ![t] = 0] /\ pos' = [pos EXCEPT ![t] = 0]
      /\ UNCHANGED <<file, tmp, bak, up, ses, recv, stopping, side, out, torn, unmoved>>
  BY DEF Remove, diskVars, sideVars, engVars, histVars
<1>2. stopping[t] \in {"no", "told"} /\ \A s \in Sessions : ses[s].pc = "idle"
  BY DEF Remove, NoReader
<1>3. /\ finish'[t] = "no" /\ round'[t] = 0 /\ pos'[t] = 0
      /\ \A u \in Tasks : u # t => /\ finish'[u] = finish[u] /\ round'[u] = round[u]
                                  /\ pos'[u] = pos[u] /\ list'[u] = list[u]
  BY <1>0, <1>1 DEF Shape
<1>4. Shape'
  BY <1>0, <1>1 DEF Shape, Boxes
<1>5. AtWork'
  BY <1>0, <1>1, <1>2, NobodyAtWork
<1>6. Down' /\ Receiving' /\ Whole'
  BY <1>1, <1>3 DEF FileInv, Down, Receiving, Whole
<1>7. Queued' /\ Over'
  BY <1>1, <1>2, <1>3 DEF FileInv, Queued, Over
<1>q. QED
  BY <1>4, <1>5, <1>6, <1>7 DEF FileInv

LEMMA StopFiles ==
  ASSUME FileInv, NEW t \in Tasks, StopTask(t) \/ StopMove(t) \/ StopTold(t)
  PROVE  FileInv'
<1>0. Shape
  BY DEF FileInv
<1>1. CASE StopTask(t)
  <2>1. /\ t \in queue /\ finish[t] = "no" /\ finish' = [finish EXCEPT ![t] = "stop"]
        /\ round' = [round EXCEPT ![t] = Ended]
        /\ stopping' = [stopping EXCEPT ![t] = "marked"]
        /\ UNCHANGED <<file, tmp, bak, up, queue, list, pos, ses, recv, side, out, torn,
                       unmoved>>
    BY <1>1 DEF StopTask, diskVars, sideVars, engVars, histVars
  <2>2. Shape' /\ AtWork' /\ Receiving' /\ Whole'
    BY <1>0, <2>1, WorkKept DEF FileInv, Shape, Receiving, Whole, Boxes, Ended
  <2>3. Down' /\ Queued' /\ Over'
    BY <1>0, <2>1 DEF FileInv, Shape, Down, Queued, Over
  <2>q. QED
    BY <2>2, <2>3 DEF FileInv
<1>2. CASE StopMove(t)
  <2>1. /\ stopping[t] = "marked" /\ stopping' = [stopping EXCEPT ![t] = "moved"]
        /\ MoveFile(t)
        /\ UNCHANGED <<tmp, up, queue, list, finish, round, pos, ses, recv, side, out,
                       torn>>
    BY <1>2 DEF StopMove, listVars, sideVars, engVars
  <2>2. t \in queue /\ finish[t] = "stop" /\ recv[t] = "idle" /\ up
    BY <2>1 DEF FileInv, Over, Receiving, Down
  <2>m. /\ file' \in [Tasks -> Int] /\ \A u \in Tasks : file'[u] \in NoFile .. Size[u]
        /\ \A u \in Tasks : u # t => file'[u] = file[u]
        /\ \A u \in Tasks : u # t => (u \in bak' <=> u \in bak)
        /\ \A u \in Tasks : u # t => (u \in unmoved' <=> u \in unmoved)
        /\ \/ t \in bak' /\ file'[t] = NoFile
           \/ t \in unmoved' /\ file'[t] = file[t] /\ (t \in bak' <=> t \in bak)
    BY <1>0, <2>1, Moved
  <2>f. stopping'[t] = "moved" /\ \A u \in Tasks : u # t => stopping'[u] = stopping[u]
    BY <1>0, <2>1 DEF Shape
  <2>3. Shape' /\ AtWork'
    BY <1>0, <2>1, <2>m, WorkKept DEF FileInv, Shape, Boxes
  <2>4. Down' /\ Receiving'
    BY <2>1, <2>2, <2>m, <2>f DEF FileInv, Down, Receiving
  <2>5. Queued' /\ Whole'
    BY <2>1, <2>2, <2>m DEF FileInv, Queued, Whole
  <2>6. Over'
    BY <2>1, <2>2, <2>m, <2>f DEF FileInv, Over
  <2>q. QED
    BY <2>3, <2>4, <2>5, <2>6 DEF FileInv
<1>3. CASE StopTold(t)
  <2>1. /\ stopping[t] = "moved" /\ stopping' = [stopping EXCEPT ![t] = "told"]
        /\ UNCHANGED <<file, tmp, bak, up, queue, list, finish, round, pos, ses, recv,
                       side, out, torn, unmoved>>
    BY <1>3 DEF StopTold, diskVars, listVars, sideVars, engVars, histVars
  <2>2. Shape' /\ AtWork' /\ Receiving' /\ Whole' /\ Queued'
    BY <1>0, <2>1, WorkKept DEF FileInv, Shape, Receiving, Whole, Queued, Boxes
  <2>3. Down' /\ Over'
    BY <1>0, <2>1 DEF FileInv, Shape, Down, Over
  <2>q. QED
    BY <2>2, <2>3 DEF FileInv
<1>q. QED
  BY <1>1, <1>2, <1>3

LEMMA CrashFiles ==
  ASSUME FileInv, Crash
  PROVE  FileInv'
<1>1. /\ up' = FALSE /\ queue' = {} /\ list' = [t \in Tasks |-> 0]
      /\ finish' = [t \in Tasks |-> "no"]
      /\ round' = [t \in Tasks |-> 0] /\ pos' = [t \in Tasks |-> 0]
      /\ recv' = [t \in Tasks |-> "idle"]
      /\ stopping' = [t \in Tasks |-> IF stopping[t] = "told" THEN "told" ELSE "no"]
      /\ ses' = [s \in Sessions |-> Idle]
      /\ UNCHANGED <<file, tmp, bak, side, out, torn, unmoved>>
  BY DEF Crash, diskVars, sideVars, engVars, histVars
<1>w. AtWork'
  BY <1>1 DEF AtWork, Idle
<1>2. Shape'
  <2>1. up' \in BOOLEAN
    BY <1>1
  <2>q. QED
    BY <1>1, <2>1 DEF FileInv, Shape, Boxes
<1>3. Down' /\ Receiving' /\ Queued'
  BY <1>1 DEF FileInv, Shape, Down, Receiving, Queued
<1>4. Whole' /\ Over'
  BY <1>1 DEF FileInv, Shape, Whole, Over
<1>q. QED
  BY <1>w, <1>2, <1>3, <1>4 DEF FileInv

LEMMA RecoverFiles ==
  ASSUME FileInv, RunRecover
  PROVE  FileInv'
<1> DEFINE read == {t \in Tasks : file[t] >= 0}
<1>1. /\ ~up /\ up' = TRUE /\ queue' = read
      /\ list' = [t \in Tasks |-> IF t \in read THEN file[t] ELSE 0]
      /\ file' = [t \in Tasks |-> IF t \in read THEN file[t] ELSE NoFile]
      /\ tmp' = {} /\ torn' = torn \cup {t \in read : file[t] < Size[t]}
      /\ UNCHANGED <<bak, finish, round, pos, ses, recv, stopping, side, out, unmoved>>
  BY DEF RunRecover, sideVars, engVars
<1>w. AtWork'
  <2>1. queue \subseteq queue'
    BY <1>1 DEF FileInv, Down
  <2>q. QED
    BY <1>1, <2>1, WorkKept DEF FileInv
<1>2. \A t \in Tasks : /\ recv[t] = "idle" /\ finish[t] = "no"
                       /\ round[t] = 0 /\ pos[t] = 0 /\ stopping[t] \in {"no", "told"}
                       /\ t \in bak => t \notin read
  BY <1>1 DEF FileInv, Down, Queued, NoFile
<1>3. Shape'
  <2>1. up' \in BOOLEAN
    BY <1>1
  <2>2. \A t \in Tasks : file'[t] \in NoFile .. Size[t] /\ file'[t] \in Int
    BY <1>1, SizeNat DEF FileInv, Shape, NoFile
  <2>q. QED
    BY <1>1, <2>1, <2>2 DEF FileInv, Shape, Boxes
<1>4. Down' /\ Receiving' /\ Queued' /\ Over'
  BY <1>1, <1>2 DEF FileInv, Shape, Down, Receiving, Queued, Over
<1>5. Whole'
  <2>1. ASSUME NEW t \in Tasks, t \in read PROVE file[t] = Size[t] \/ t \in torn'
    <3>1. file[t] \in NoFile .. Size[t] /\ Size[t] \in Nat /\ file[t] \in Int
      BY SizeNat DEF FileInv, Shape
    <3>2. file[t] = Size[t] \/ file[t] < Size[t]
      BY <3>1 DEF NoFile
    <3>q. QED
      BY <1>1, <2>1, <3>2
  <2>2. \A t \in Tasks : file[t] = Size[t] => t \in read
    BY SizeNat
  <2>q. QED
    BY <1>1, <2>1, <2>2 DEF FileInv, Whole
<1>q. QED
  BY <1>w, <1>3, <1>4, <1>5 DEF FileInv

(* What the sessions that receive reports leave alone *)
LEMMA ReporterStep ==
  ASSUME NEW p \in Reporters, Reporting(p) \/ \E B \in Packages : Package(p, B)
  PROVE  UNCHANGED <<file, tmp, bak, up, queue, list, finish, round, pos, ses, recv,
                     stopping, side, out, torn, unmoved>>
<1>1. CASE \E B \in Packages : Package(p, B)
  BY <1>1 DEF Package, diskVars, listVars, sideVars, engVars
<1>2. CASE Report(p)
  BY <1>2 DEF Report, diskVars, sideVars, engVars, histVars
<1>3. CASE LogPart(p) \/ LogRest(p)
  BY <1>3 DEF LogPart, LogRest, WriteLine, listVars, sideVars, engVars
<1>4. CASE Answer(p)
  BY <1>4 DEF Answer, diskVars, listVars, sideVars
<1>q. QED
  BY <1>1, <1>2, <1>3, <1>4 DEF Reporting

(* The steps of the engines and of the sessions that receive reports *)
LEMMA ReportFiles ==
  ASSUME FileInv,
         \/ \E t \in Tasks : \E i \in Boxes(t), k \in Kinds : Deliver(t, i, k)
         \/ \E p \in Reporters : Reporting(p) \/ \E B \in Packages : Package(p, B)
  PROVE  FileInv'
<1>0. Shape
  BY DEF FileInv
<1>1. UNCHANGED <<file, tmp, bak, up, queue, list, finish, round, pos, ses, recv,
                  stopping, side, torn, unmoved>>
  <2>1. CASE \E t \in Tasks : \E i \in Boxes(t), k \in Kinds : Deliver(t, i, k)
    BY <2>1 DEF Deliver, diskVars, listVars, sideVars, histVars
  <2>q. QED
    BY <2>1, ReporterStep
<1>2. DOMAIN out' = Tasks /\ \A u \in Tasks : out'[u] \in [Boxes(u) -> Int]
  <2>1. CASE UNCHANGED out
    BY <1>0, <2>1 DEF Shape
  <2>2. CASE \E t \in Tasks : \E i \in Boxes(t), k \in Kinds : Deliver(t, i, k)
    <3>0. PICK t \in Tasks : \E i \in Boxes(t) : out' = [out EXCEPT ![t][i] = @ - 1]
      BY <2>2 DEF Deliver
    <3>1. PICK i \in Boxes(t) : out' = [out EXCEPT ![t][i] = @ - 1]
      BY <3>0
    <3>2. out' = [out EXCEPT ![t] = [out[t] EXCEPT ![i] = out[t][i] - 1]]
      BY <1>0, <3>1 DEF Shape
    <3>q. QED
      BY <1>0, <3>1, <3>2 DEF Shape
  <2>q. QED
    BY <2>1, <2>2, ReporterStep
<1>w. AtWork'
  BY <1>1, WorkKept DEF FileInv
<1>q. QED
  BY <1>0, <1>1, <1>w, <1>2, FilesKept DEF Shape

LEMMA FileNext == FileInv /\ [Next]_vars => FileInv'
<1> SUFFICES ASSUME FileInv, [Next]_vars PROVE FileInv'
  OBVIOUS
<1>1. ASSUME NEW t \in Tasks, Handover(t) PROVE FileInv'
  BY <1>1, RefusedFiles, GoFiles, ReceiveFiles, BrokenFiles, ReceivedFiles, AddTaskFiles
     DEF Handover
<1>2. ASSUME NEW t \in Tasks,
             Finish(t) \/ Remove(t) \/ StopTask(t) \/ StopSession(t)
      PROVE  FileInv'
  BY <1>2, FinishFiles, RemoveFiles, StopFiles DEF StopSession
<1>7. ASSUME NEW s \in Sessions, Answering(s) PROVE FileInv'
  BY <1>7, AskFiles, ListFiles DEF Answering
<1>3. CASE \/ \E t \in Tasks : \E i \in Boxes(t), k \in Kinds : Deliver(t, i, k)
           \/ \E p \in Reporters : Reporting(p) \/ \E B \in Packages : Package(p, B)
  BY <1>3, ReportFiles
<1>4. CASE Crash
  BY <1>4, CrashFiles
<1>5. CASE RunRecover
  BY <1>5, RecoverFiles
<1>6. CASE UNCHANGED vars
  <2>1. UNCHANGED <<file, tmp, bak, up, queue, list, finish, round, pos, ses, recv,
                    stopping, side, out, torn, unmoved>>
    BY <1>6 DEF vars, diskVars, listVars, sideVars, engVars, histVars
  <2>2. AtWork'
    BY <2>1, WorkKept DEF FileInv
  <2>q. QED
    BY <2>1, <2>2, FilesKept DEF FileInv, Shape
<1>q. QED
  BY <1>1, <1>2, <1>3, <1>4, <1>5, <1>6, <1>7 DEF Next

LEMMA FileInvariant == Spec => []FileInv
<1>1. Init => FileInv
  BY FileInit
<1>2. FileInv /\ [Next]_vars => FileInv'
  BY FileNext
<1>q. QED
  BY <1>1, <1>2, PTL DEF Spec

(* A task the side side takes for handed over is in the directory, whole or *)
(* as the crash left it, or was moved when it was over: no answer HH or OK  *)
(* is given for a file that is then lost, whatever crashes come between.    *)
THEOREM KnownTasksAreWhole == Spec => []KnownIsWhole
<1>1. FileInv => KnownIsWhole
  BY DEF FileInv, Whole, KnownIsWhole
<1>q. QED
  BY <1>1, FileInvariant, PTL

(* No session takes up a task whose STOP was answered, in this process or   *)
(* in one that recovers, and none but those at work on it before hand out a *)
(* mailbox of it; unless the file could not be moved.                       *)
THEOREM StopsAreKept == Spec => StopIsKept
<1> DEFINE Kept(t) ==
      /\ \A s \in Sessions : ses'[s].task = t => ses[s].task = t
      /\ (\E i \in Boxes(t) : out'[t][i] > out[t][i]) =>
           \E s \in Sessions : ses[s].task = t
<1>1. ASSUME FileInv, Next, NEW t \in Tasks, stopping[t] = "told", t \notin unmoved
      PROVE  Kept(t)
  <2>0. Shape /\ AtWork /\ \A i \in Boxes(t) : out[t][i] \in Int
    BY <1>1 DEF FileInv, Shape
  <2>1. t \notin queue \/ finish[t] # "no"
    BY <1>1 DEF FileInv, Over, Queued
  <2>2. t # NoTask
    BY RecoverAssumption
  <2>3. ASSUME UNCHANGED <<ses, out>> PROVE Kept(t)
    BY <2>0, <2>3
  <2>4. ASSUME NEW s \in Sessions, Ask(s, NoTask) \/ (\E u \in Tasks : Ask(s, u))
        PROVE  Kept(t)
    <3>1. PICK u \in Tasks \cup {NoTask} : Ask(s, u)
      BY <2>4
    <3>2. u # t
      BY <2>1, <3>1 DEF Ask
    <3>3. ses' = [ses EXCEPT ![s] = [pc |-> "asked", task |-> u, next |-> 0]]
          /\ UNCHANGED out
      BY <3>1 DEF Ask, engVars
    <3>4. \A r \in Sessions : ses'[r].task = t => ses[r].task = t
      BY <2>0, <3>2, <3>3 DEF AtWork
    <3>q. QED
      BY <2>0, <3>3, <3>4
  <2>5. ASSUME NEW s \in Sessions, Look(s) \/ HandOut(s)
        PROVE  \A r \in Sessions : ses'[r].task = ses[r].task
    <3>1. \E x : ses' = [ses EXCEPT ![s] = x] /\ x.task = ses[s].task
      <4>1. CASE HandOut(s)
        <5> DEFINE x == [pc |-> "asked", task |-> ses[s].task, next |-> 0]
        <5>1. ses' = [ses EXCEPT ![s] = x] /\ x.task = ses[s].task
          BY <4>1 DEF HandOut
        <5> HIDE DEF x
        <5>q. QED
          BY <5>1
      <4>2. CASE Look(s)
        BY <4>2 DEF Look
      <4>q. QED
        BY <2>5, <4>1, <4>2
    <3>2. PICK x : ses' = [ses EXCEPT ![s] = x] /\ x.task = ses[s].task
      BY <3>1
    <3>q. QED
      BY <2>0, <3>2 DEF AtWork
  <2>6. ASSUME NEW s \in Sessions, NextRound(s) \/ EndSession(s)
        PROVE  Kept(t)
    <3>1. ses' = [ses EXCEPT ![s] = Idle] /\ UNCHANGED out
      BY <2>6 DEF NextRound, EndSession, engVars
    <3>2. \A r \in Sessions : ses'[r].task = t => ses[r].task = t
      BY <2>0, <2>2, <3>1 DEF AtWork, Idle
    <3>q. QED
      BY <2>0, <3>1, <3>2
  <2>7. ASSUME NEW s \in Sessions, Look(s)
        PROVE  Kept(t)
    <3>1. UNCHANGED out
      BY <2>7 DEF Look, engVars
    <3>q. QED
      BY <2>0, <2>5, <2>7, <3>1
  <2>8. ASSUME NEW s \in Sessions, HandOut(s)
        PROVE  Kept(t)
    <3>1. out' = [out EXCEPT ![ses[s].task][ses[s].next] = @ + 1]
      BY <2>8 DEF HandOut
    <3>2. CASE ses[s].task = t
      BY <2>5, <2>8, <3>2
    <3>3. CASE ses[s].task # t
      <4>1. out'[t] = out[t]
        BY <2>0, <3>1, <3>3 DEF Shape
      <4>q. QED
        BY <2>0, <2>5, <2>8, <4>1
    <3>q. QED
      BY <3>2, <3>3
  <2>9. ASSUME NEW u \in Tasks, NEW j \in Boxes(u), NEW k \in Kinds, Deliver(u, j, k)
        PROVE  Kept(t)
    <3>1. out' = [out EXCEPT ![u] = [out[u] EXCEPT ![j] = out[u][j] - 1]]
      BY <2>0, <2>9 DEF Deliver, Shape
    <3>2. \A i \in Boxes(t) : out'[t][i] = out[t][i] \/ out'[t][i] = out[t][i] - 1
      BY <2>0, <3>1 DEF Shape
    <3>3. UNCHANGED ses
      BY <2>9 DEF Deliver, listVars
    <3>q. QED
      BY <2>0, <3>2, <3>3
  <2>10. CASE Crash
    <3>1. ses' = [s \in Sessions |-> Idle] /\ UNCHANGED out
      BY <2>10 DEF Crash, engVars
    <3>2. \A r \in Sessions : ses'[r].task # t
      BY <2>2, <3>1 DEF Idle
    <3>q. QED
      BY <2>0, <3>1, <3>2
  <2>11. ASSUME NEW u \in Tasks,
                \/ Handover(u) \/ Finish(u) \/ Remove(u) \/ StopTask(u) \/ StopSession(u)
         PROVE  UNCHANGED <<ses, out>>
    <3>1. CASE Handover(u)
      BY <3>1 DEF Handover, Refused, Known, Go, Receive, Broken, Received, AddTask,
                  NoAnswer, listVars, engVars
    <3>2. CASE Finish(u) \/ Remove(u) \/ StopTask(u) \/ StopSession(u)
      BY <3>2 DEF Finish, Remove, StopTask, StopSession, StopMove, StopTold, listVars,
                  engVars
    <3>q. QED
      BY <2>11, <3>1, <3>2
  <2>12. ASSUME NEW p \in Reporters, Reporting(p) \/ \E B \in Packages : Package(p, B)
         PROVE  UNCHANGED <<ses, out>>
    BY <2>12, ReporterStep
  <2>13. CASE RunRecover
    BY <2>3, <2>13 DEF RunRecover, engVars
  <2> HIDE DEF Kept
  <2>q. QED
    BY <1>1, <2>3, <2>4, <2>6, <2>7, <2>8, <2>9, <2>10, <2>11, <2>12, <2>13
       DEF Next, Answering
<1>2. FileInv /\ [Next]_vars =>
        [\A t \in Tasks : stopping[t] = "told" /\ t \notin unmoved =>
           /\ \A s \in Sessions : ses'[s].task = t => ses[s].task = t
           /\ (\E i \in Boxes(t) : out'[t][i] > out[t][i]) =>
                \E s \in Sessions : ses[s].task = t]_vars
  BY <1>1
<1>q. QED
  BY <1>2, FileInvariant, PTL DEF Spec, StopIsKept

-----------------------------------------------------------------------------
LEMMA Counting ==
  ASSUME NEW n \in Nat
  PROVE  IsFiniteSet(1 .. n) /\ Cardinality(1 .. n) = n
  BY FS_Interval

(* The least-number principle, for a set of numbers *)
LEMMA Least ==
  ASSUME NEW T, T \subseteq Nat, T # {}
  PROVE  \E x \in T : \A y \in T : x <= y
<1> DEFINE R == OpToRel(<, Nat)
<1>1. IsWellFoundedOn(R, Nat)
  BY NatLessThanWellFounded
<1>2. PICK x \in T : \A y \in T : <<y, x>> \notin R
  <2> HIDE DEF R
  <2>q. QED
    BY <1>1, WFMin
<1>3. \A y \in T : ~(y < x)
  BY <1>2 DEF OpToRel
<1>q. QED
  BY <1>3

-----------------------------------------------------------------------------
(* Statuses and books *)

LEMMA KindStatus ==
  ASSUME NEW k \in Kinds
  PROVE  StatusOf(k) \in Status /\ ReplayStat(k) \in Status
<1>1. k[1] \in {"s", "d", "f"}
  BY RecoverAssumption DEF Letters
<1>2. \A x \in {"delay", "fail"} : TextStat(k[2], x) \in Status
  BY DEF TextStat, Status
<1>3. LetterStat(k[1]) \in Status
  BY <1>1 DEF LetterStat, Status
<1>4. ReplayStat(k) \in Status
  BY <1>3 DEF ReplayStat, Status
<1>5. StatusOf(k) \in Status
  BY <1>1, <1>2 DEF StatusOf, Status
<1>q. QED
  BY <1>4, <1>5

LEMMA SoundMore ==
  ASSUME NEW G, NEW H, G \subseteq H
  PROVE  /\ \A r : Reportable(r, G) => Reportable(r, H)
         /\ \A b, t : Sound(b, t, G) => Sound(b, t, H)
         /\ \A l : AllSound(l, G) => AllSound(l, H)
         /\ \A x : TodoIn(x, G) => TodoIn(x, H)
         /\ \A x : LineIn(x, G) => LineIn(x, H)
<1>1. \A r : Reportable(r, G) => Reportable(r, H)
  BY DEF Reportable
<1>2. \A b, t : Sound(b, t, G) => Sound(b, t, H)
  BY DEF Sound
<1>q. QED
  BY <1>1, <1>2 DEF AllSound, TodoIn, LineIn

(* A report makes nothing unsound; and where more successes were counted    *)
(* than mailboxes had one, it stays so.                                     *)
LEMMA SoundChanged ==
  ASSUME NEW t \in Tasks, NEW b, NEW G, Sound(b, t, G),
         NEW i \in Boxes(t), <<t, i>> \in G, NEW new \in Status
  PROVE  /\ Sound(Changed(b, i, new), t, G)
         /\ Changed(b, i, new).done = Cardinality(Changed(b, i, new).won) =>
              b.done = Cardinality(b.won)
<1> DEFINE c == Changed(b, i, new)
<1>1. /\ c.stat = [b.stat EXCEPT ![i] = new]
      /\ c.done = b.done + One(new = "success")
      /\ c.won = IF new = "success" THEN b.won \cup {i} ELSE b.won
      /\ c = [stat |-> c.stat, done |-> c.done, won |-> c.won]
  BY DEF Changed
<1>2. /\ b.stat \in [Boxes(t) -> Status] /\ b.done \in Nat /\ b.won \subseteq Boxes(t)
      /\ Cardinality(b.won) <= b.done
      /\ \A j \in b.won : <<t, j>> \in G
      /\ \A j \in Boxes(t) : b.stat[j] = "success" => j \in b.won
  BY DEF Sound
<1>3. IsFiniteSet(b.won) /\ Cardinality(b.won) \in Nat
  <2>1. IsFiniteSet(Boxes(t))
    BY SizeNat, FS_Interval DEF Boxes
  <2>q. QED
    BY <1>2, <2>1, FS_Subset, FS_CardinalityType
<1>4. /\ Cardinality(c.won) \in Nat /\ c.done \in Nat
      /\ Cardinality(c.won) <= c.done
      /\ c.done = Cardinality(c.won) => b.done = Cardinality(b.won)
  <2>1. CASE new = "success"
    <3>1. c.won = b.won \cup {i} /\ c.done = b.done + 1
      BY <1>1, <2>1 DEF One
    <3>2. Cardinality(b.won \cup {i}) \in {Cardinality(b.won), Cardinality(b.won) + 1}
      BY <1>3, FS_AddElement
    <3>q. QED
      BY <1>2, <1>3, <3>1, <3>2
  <2>2. CASE new # "success"
    <3>1. c.won = b.won /\ c.done = b.done
      BY <1>1, <1>2, <2>2 DEF One
    <3>q. QED
      BY <1>2, <1>3, <3>1
  <2>q. QED
    BY <2>1, <2>2
<1>5. /\ c.stat \in [Boxes(t) -> Status] /\ c.won \subseteq Boxes(t)
      /\ \A j \in c.won : <<t, j>> \in G
      /\ \A j \in Boxes(t) : c.stat[j] = "success" => j \in c.won
  BY <1>1, <1>2
<1>6. Sound(c, t, G)
  <2> HIDE DEF c
  <2>1. c \in [stat : [Boxes(t) -> Status], done : Nat, won : SUBSET Boxes(t)]
    BY <1>1, <1>4, <1>5
  <2>q. QED
    BY <1>4, <1>5, <2>1 DEF Sound
<1>q. QED
  BY <1>4, <1>6

(* The replay of a report, and of a line *)
LEMMA ReplaySound ==
  ASSUME NEW l, NEW G, AllSound(l, G), NEW r, Reportable(r, G)
  PROVE  AllSound(ReplayOne(l, r), G)
<1>1. r[1] \in Tasks /\ r[2] \in Boxes(r[1]) /\ <<r[1], r[2]>> \in G /\ r[3] \in Kinds
  BY DEF Reportable
<1>2. Sound(Changed(l[r[1]], r[2], ReplayStat(r[3])), r[1], G)
  BY <1>1, KindStatus, SoundChanged DEF AllSound
<1>q. QED
  BY <1>1, <1>2 DEF AllSound, ReplayOne

(* The recursion of Replayed has a solution, ... *)
Solves(f, l, line, n) ==
  f = [j \in 0 .. n |-> IF j = 0 THEN l ELSE ReplayOne(f[j - 1], line[j].what)]

LEMMA ReplayDefined ==
  ASSUME NEW l, NEW line, NEW n \in Nat
  PROVE  \E f : Solves(f, l, line, n)
<1> DEFINE T == {m \in Nat : ~\E f : Solves(f, l, line, m)}
<1>1. T = {}
  <2> SUFFICES ASSUME T # {} PROVE FALSE
    OBVIOUS
  <2>1. PICK m \in T : \A k \in T : m <= k
    <3>1. T \subseteq Nat
      OBVIOUS
    <3> HIDE DEF T
    <3>q. QED
      BY <3>1, Least
  <2>2. CASE m = 0
    <3>1. Solves([j \in 0 .. 0 |-> l], l, line, 0)
      BY DEF Solves
    <3>q. QED
      BY <2>2, <3>1
  <2>3. CASE m # 0
    <3>1. m \in Nat
      OBVIOUS
    <3>2. m - 1 \in Nat /\ m - 1 \notin T
      <4> HIDE DEF T
      <4>q. QED
        BY <2>1, <2>3, <3>1
    <3>3. PICK f : Solves(f, l, line, m - 1)
      BY <3>2
    <3> DEFINE g == [j \in 0 .. m |-> IF j = 0 THEN l ELSE ReplayOne(f[j - 1], line[j].what)]
    <3>4. \A j \in 0 .. m - 1 : g[j] = f[j]
      BY <3>1, <3>3 DEF Solves
    <3>5. \A j \in 0 .. m : j = 0 \/ j - 1 \in 0 .. m - 1
      BY <3>1
    <3>6. \A j \in 0 .. m :
            g[j] = IF j = 0 THEN l ELSE ReplayOne(g[j - 1], line[j].what)
      <4>1. ASSUME NEW j \in 0 .. m
            PROVE  g[j] = IF j = 0 THEN l ELSE ReplayOne(g[j - 1], line[j].what)
        <5>1. CASE j = 0
          BY <3>1, <5>1
        <5>2. CASE j # 0
          <6>1. g[j - 1] = f[j - 1]
            BY <3>4, <3>5, <5>2
          <6>2. g[j] = ReplayOne(f[j - 1], line[j].what)
            BY <5>2
          <6> HIDE DEF g
          <6>q. QED
            BY <5>2, <6>1, <6>2
        <5>q. QED
          BY <5>1, <5>2
      <4>q. QED
        BY <4>1
    <3>7. g = [j \in 0 .. m |-> g[j]]
      OBVIOUS
    <3>8. Solves(g, l, line, m)
      <4> HIDE DEF g
      <4>q. QED
        BY <3>6, <3>7 DEF Solves
    <3>q. QED
      BY <2>1, <3>8
  <2>q. QED
    BY <2>2, <2>3
<1>q. QED
  BY <1>1

LEMMA ReadCount ==
  ASSUME NEW line, Len(line) \in Nat
  PROVE  /\ Cardinality({j \in 1 .. Len(line) : Reads(line, j)}) \in Nat
         /\ Cardinality({j \in 1 .. Len(line) : Reads(line, j)}) <= Len(line)
<1> DEFINE T == {j \in 1 .. Len(line) : Reads(line, j)}
<1>1. IsFiniteSet(1 .. Len(line)) /\ Cardinality(1 .. Len(line)) = Len(line)
  BY Counting
<1>2. T \in SUBSET (1 .. Len(line))
  OBVIOUS
<1> HIDE DEF T
<1>3. IsFiniteSet(T) /\ Cardinality(T) <= Len(line)
  BY <1>1, <1>2, FS_Subset
<1>4. Cardinality(T) \in Nat
  BY <1>3, FS_CardinalityType
<1>q. QED
  BY <1>3, <1>4 DEF T

(* ... the replay of a line takes it to its end, ... *)
LEMMA ReplayedSolves ==
  ASSUME NEW l, NEW line, Len(line) \in Nat
  PROVE  LET n == Cardinality({j \in 1 .. Len(line) : Reads(line, j)})
         IN  \E f : Solves(f, l, line, n) /\ Replayed(l, line) = f[n]
<1> DEFINE n == Cardinality({j \in 1 .. Len(line) : Reads(line, j)})
<1>1. n \in Nat
  BY ReadCount
<1> HIDE DEF n
<1> DEFINE f == CHOOSE g : Solves(g, l, line, n)
<1>2. Solves(f, l, line, n)
  <2>1. \E g : Solves(g, l, line, n)
    BY <1>1, ReplayDefined
  <2>q. QED
    BY <2>1, Zenon
<1>3. Replayed(l, line) = f[n]
  BY DEF Replayed, n, Solves
<1> HIDE DEF f
<1>4. \E g : Solves(g, l, line, n) /\ Replayed(l, line) = g[n]
  BY <1>2, <1>3
<1>q. QED
  BY <1>4 DEF n

(* ... and leads from sound lists to sound lists. *)
LEMMA ReplayedSound ==
  ASSUME NEW l, NEW line, NEW G, AllSound(l, G), LineIn(line, G)
  PROVE  AllSound(Replayed(l, line), G)
<1> DEFINE n == Cardinality({j \in 1 .. Len(line) : Reads(line, j)})
<1>1. n \in Nat /\ n <= Len(line) /\ Len(line) \in Nat
  BY ReadCount DEF LineIn
<1>2. PICK f : Solves(f, l, line, n) /\ Replayed(l, line) = f[n]
  BY <1>1, ReplayedSolves
<1> HIDE DEF n
<1> DEFINE T == {m \in 0 .. n : ~AllSound(f[m], G)}
<1>4. T = {}
  <2> SUFFICES ASSUME T # {} PROVE FALSE
    OBVIOUS
  <2>1. PICK m \in T : \A k \in T : m <= k
    <3>1. T \subseteq Nat
      BY <1>1
    <3> HIDE DEF T
    <3>q. QED
      BY <3>1, Least
  <2>2. m # 0
    BY <1>1, <1>2 DEF Solves
  <2>3. m \in 1 .. Len(line) /\ m \in 0 .. n /\ m - 1 \in 0 .. n /\ m - 1 \notin T
    BY <1>1, <2>1, <2>2
  <2>4. AllSound(f[m - 1], G) /\ Reportable(line[m].what, G)
    BY <2>3 DEF LineIn
  <2>5. f[m] = ReplayOne(f[m - 1], line[m].what)
    BY <1>2, <2>2, <2>3 DEF Solves
  <2>6. AllSound(f[m], G)
    BY <2>4, <2>5, ReplaySound
  <2>q. QED
    BY <2>1, <2>6
<1>5. n \in 0 .. n
  BY <1>1
<1>q. QED
  BY <1>2, <1>4, <1>5

-----------------------------------------------------------------------------
(* What was handed out *)

LEMMA BlankSound ==
  ASSUME NEW t \in Tasks, NEW G
  PROVE  Sound(Blank(t), t, G)
<1>1. Blank(t).stat = [i \in Boxes(t) |-> "new"] /\ Blank(t).done = 0 /\ Blank(t).won = {}
  BY DEF Blank
<1>2. Blank(t) \in [stat : [Boxes(t) -> Status], done : Nat, won : SUBSET Boxes(t)]
  BY DEF Blank, Status
<1>q. QED
  BY <1>1, <1>2, FS_EmptySet DEF Sound

LEMMA QuietIn ==
  ASSUME NEW G
  PROVE  /\ DOMAIN Quiet = {"pc", "batch", "todo", "line"}
         /\ TodoIn(Quiet.todo, G) /\ LineIn(Quiet.line, G)
  BY DEF Quiet, TodoIn, LineIn

LEMMA BookInit == Init => BookInv
<1> SUFFICES ASSUME Init PROVE BookInv
  OBVIOUS
<1>1. FileInv
  BY FileInit
<1>2. Reports
  BY DEF Init, Reports
<1>3. InHand
  BY QuietIn DEF Init, InHand
<1>4. Books
  BY BlankSound DEF Init, Books, AllSound
<1>5. Begun /\ Rounds /\ Looking /\ FinishedTried
  BY DEF Init, Begun, Rounds, Looking, Idle, FinishedTried
<1>q. QED
  BY <1>1, <1>2, <1>3, <1>4, <1>5 DEF BookInv

LEMMA BooksKept ==
  ASSUME BookInv, UNCHANGED <<out, results, rep, book, logged, gave>>
  PROVE  Reports' /\ InHand' /\ Books'
  BY DEF BookInv, Reports, InHand, Books

LEMMA LookKept ==
  ASSUME BookInv, UNCHANGED ses, gave \subseteq gave',
         \A t \in queue : list'[t] = list[t]
  PROVE  Looking'
<1>1. \A s \in Sessions : ses[s].pc # "idle" => ses[s].task \in queue
  BY DEF BookInv, FileInv, AtWork
<1>q. QED
  BY <1>1 DEF BookInv, Looking

LEMMA HandoverBook ==
  ASSUME BookInv, NEW t \in Tasks, Handover(t)
  PROVE  BookInv'
<1>0. FileInv /\ FileInv' /\ Shape
  BY FileNext DEF BookInv, FileInv, Next
<1>1. UNCHANGED <<out, results, rep, book, logged, gave, bak, finish, round, pos, ses>>
  BY DEF Handover, Refused, Known, Go, Receive, Broken, Received, AddTask, NoAnswer,
         diskVars, listVars, engVars, histVars
<1>2. Reports' /\ InHand' /\ Books'
  BY <1>1, BooksKept
<1>3. CASE Refused(t) \/ Known(t) \/ NoAnswer(t)
  <2>1. UNCHANGED <<file, queue, list, recv>>
    BY <1>3 DEF Refused, Known, NoAnswer, diskVars, listVars
  <2>q. QED
    BY <1>0, <1>1, <1>2, <2>1, LookKept DEF BookInv, Begun, Rounds, FinishedTried
<1>4. CASE Go(t) \/ Receive(t) \/ Broken(t) \/ Received(t) \/ AddTask(t)
  <2>1. \A i \in Boxes(t) : <<t, i>> \notin gave
    <3>1. CASE Go(t)
      BY <1>0, <3>1 DEF Go, BookInv, Begun, NoFile, Boxes
    <3>2. CASE recv[t] # "idle"
      BY <1>0, <3>2 DEF BookInv, Begun, FileInv, Receiving
    <3>q. QED
      BY <1>4, <3>1, <3>2 DEF Receive, Broken, Received, AddTask
  <2>2. \A u \in Tasks : u # t => file'[u] = file[u] /\ recv'[u] = recv[u]
    BY <1>0, <1>4 DEF Go, Receive, Broken, Received, AddTask, diskVars, Shape
  <2>3. Begun'
    BY <1>1, <2>1, <2>2 DEF BookInv, Begun
  <2>4. CASE ~AddTask(t)
    <3>1. UNCHANGED <<queue, list>>
      BY <1>4, <2>4 DEF Go, Receive, Broken, Received, listVars
    <3>q. QED
      BY <1>0, <1>1, <1>2, <2>3, <3>1, LookKept DEF BookInv, Rounds, FinishedTried
  <2>5. CASE AddTask(t)
    <3>1. /\ queue' = queue \cup {t} /\ \A u \in queue : u # t => list'[u] = list[u]
          /\ finish[t] = "no" /\ round[t] = 0 /\ pos[t] = 0 /\ t \notin queue
      BY <1>0, <2>5 DEF AddTask, Shape, FileInv, Receiving, Queued
    <3>2. Rounds'
      BY <1>1, <3>1 DEF BookInv, Rounds
    <3>3. FinishedTried'
      BY <1>1, <3>1 DEF BookInv, FinishedTried
    <3>4. Looking'
      BY <1>1, <3>1, LookKept
    <3>q. QED
      BY <1>0, <1>2, <2>3, <3>2, <3>3, <3>4 DEF BookInv
  <2>q. QED
    BY <2>4, <2>5
<1>q. QED
  BY <1>3, <1>4 DEF Handover

(* What a session finds, or does not find *)
LEMMA AskBook ==
  ASSUME BookInv, NEW s \in Sessions,
         (\E t \in Tasks : Ask(s, t)) \/ Look(s) \/ EndSession(s)
  PROVE  BookInv'
<1>0. FileInv /\ FileInv' /\ Shape /\ AtWork
  BY AskFiles DEF BookInv, FileInv
<1>1. UNCHANGED <<queue, list, pos, round, finish, book, file, bak, recv>>
  BY AskFiles DEF BookInv
<1>2. UNCHANGED <<out, results, rep, logged, gave>>
  BY DEF Ask, Look, EndSession, diskVars, engVars, histVars
<1>3. Reports' /\ InHand' /\ Books'
  BY <1>1, <1>2, BooksKept
<1>4. Begun' /\ Rounds' /\ FinishedTried'
  BY <1>1, <1>2 DEF BookInv, Begun, Rounds, FinishedTried
<1>5. ASSUME NEW x, ses' = [ses EXCEPT ![s] = x], x.pc \in {"asked", "idle"}
      PROVE  Looking'
  <2>1. ses'[s] = x /\ \A r \in Sessions : r # s => ses'[r] = ses[r]
    BY <1>0, <1>5 DEF AtWork
  <2>q. QED
    BY <1>1, <1>2, <1>5, <2>1 DEF BookInv, Looking
<1>6. ASSUME NEW t \in Tasks, Ask(s, t) PROVE Looking'
  <2> DEFINE x == [pc |-> "asked", task |-> t, next |-> 0]
  <2>1. ses' = [ses EXCEPT ![s] = x] /\ x.pc = "asked"
    BY <1>6 DEF Ask
  <2> HIDE DEF x
  <2>q. QED
    BY <1>5, <2>1
<1>7. ASSUME EndSession(s) PROVE Looking'
  <2>1. ses' = [ses EXCEPT ![s] = Idle] /\ Idle.pc = "idle"
    BY <1>7 DEF EndSession, Idle
  <2>q. QED
    BY <1>5, <2>1
<1>8. ASSUME Look(s) PROVE Looking'
  <2> DEFINE t == ses[s].task
  <2>1. /\ t \in queue /\ t \in Tasks /\ list[t] \in Int /\ list[t] <= Size[t]
        /\ Size[t] \in Nat /\ pos[t] \in Nat
    BY <1>0, <1>8, SizeNat DEF Look, AtWork, FileInv, Shape, Queued
  <2>2. \/ \E i \in Candidates(t) :
             /\ \A j \in Candidates(t) : i <= j
             /\ ses' = [ses EXCEPT ![s] = [pc |-> "give", task |-> t, next |-> i]]
        \/ /\ Candidates(t) = {}
           /\ ses' = [ses EXCEPT ![s] = [pc |-> "wrap", task |-> t, next |-> round[t]]]
    BY <1>8 DEF Look
  <2> HIDE DEF t
  <2>3. ASSUME NEW j \in 1 .. list[t], j \notin Candidates(t) PROVE <<t, j>> \in gave
    <3>1. j \in Boxes(t) /\ j <= list[t] /\ j \in Nat
      BY <2>1 DEF Boxes
    <3>2. CASE j <= pos[t]
      BY <2>1, <3>2 DEF BookInv, Rounds
    <3>3. CASE ~(j <= pos[t])
      <4>1. book[t].stat[j] = "success"
        BY <2>1, <2>3, <3>1, <3>3 DEF Candidates
      <4>q. QED
        BY <2>1, <3>1, <4>1 DEF BookInv, Books, AllSound, Sound
    <3>q. QED
      BY <3>2, <3>3
  <2>4. ASSUME NEW i \in Candidates(t), \A j \in Candidates(t) : i <= j,
               ses' = [ses EXCEPT ![s] = [pc |-> "give", task |-> t, next |-> i]]
        PROVE  Looking'
    <3>1. i \in Nat /\ i <= list[t]
      BY <2>1 DEF Candidates, Boxes
    <3>2. \A j \in 1 .. i - 1 : j \in 1 .. list[t] /\ ~(i <= j)
      BY <2>1, <3>1
    <3>3. \A j \in 1 .. i - 1 : <<t, j>> \in gave
      BY <2>3, <2>4, <3>2
    <3>4. ses'[s] = [pc |-> "give", task |-> t, next |-> i]
          /\ \A r \in Sessions : r # s => ses'[r] = ses[r]
      BY <1>0, <2>4 DEF AtWork
    <3>5. ses'[s].pc = "give" /\ ses'[s].task = t /\ ses'[s].next = i
      BY <3>4
    <3>q. QED
      BY <1>1, <1>2, <3>1, <3>3, <3>4, <3>5 DEF BookInv, Looking
  <2>5. ASSUME Candidates(t) = {},
               ses' = [ses EXCEPT ![s] = [pc |-> "wrap", task |-> t, next |-> round[t]]]
        PROVE  Looking'
    <3>1. \A j \in 1 .. list[t] : <<t, j>> \in gave
      BY <2>3, <2>5
    <3>2. ses'[s] = [pc |-> "wrap", task |-> t, next |-> round[t]]
          /\ \A r \in Sessions : r # s => ses'[r] = ses[r]
      BY <1>0, <2>5 DEF AtWork
    <3>3. ses'[s].pc = "wrap" /\ ses'[s].task = t
      BY <3>2
    <3>q. QED
      BY <1>1, <1>2, <3>1, <3>2, <3>3 DEF BookInv, Looking
  <2>q. QED
    BY <2>2, <2>4, <2>5
<1>9. Looking'
  BY <1>6, <1>7, <1>8
<1>q. QED
  BY <1>0, <1>3, <1>4, <1>9 DEF BookInv

LEMMA HandOutBook ==
  ASSUME BookInv, NEW s \in Sessions, HandOut(s)
  PROVE  BookInv'
<1> DEFINE t == ses[s].task
           i == ses[s].next
<1>0. FileInv /\ FileInv' /\ Shape /\ AtWork
  BY ListFiles DEF BookInv, FileInv
<1>1. /\ pos' = [pos EXCEPT ![t] = i]
      /\ out' = [out EXCEPT ![t][i] = @ + 1]
      /\ gave' = gave \cup {<<t, i>>}
      /\ ses' = [ses EXCEPT ![s] = [pc |-> "asked", task |-> t, next |-> 0]]
  BY DEF HandOut
<1>2. UNCHANGED <<results, rep, book, logged, bak, file, recv, queue, list, finish, round>>
  BY DEF HandOut, diskVars
<1>3. /\ t \in queue /\ t \in Tasks /\ i \in Boxes(t) /\ i \in Nat
      /\ i <= list[t] /\ \A j \in 1 .. i - 1 : <<t, j>> \in gave
  BY <1>0 DEF HandOut, AtWork, Shape, BookInv, Looking
<1> HIDE DEF t, i
<1>4. recv[t] = "idle" /\ (t \notin bak => list[t] = file[t])
  BY <1>0, <1>3 DEF FileInv, Queued, Receiving
<1>5. gave \subseteq gave'
  BY <1>1
<1>6. InHand' /\ Books'
  BY <1>2, <1>5, SoundMore DEF BookInv, InHand, Books
<1>7. Reports'
  <2>1. out' = [out EXCEPT ![t] = [out[t] EXCEPT ![i] = out[t][i] + 1]]
    BY <1>0, <1>1, <1>3 DEF Shape
  <2>2. \A u \in Tasks : \A j \in Boxes(u) :
          out'[u][j] = out[u][j] \/ (u = t /\ j = i)
    BY <1>0, <1>3, <2>1 DEF Shape
  <2>3. \A u \in Tasks : \A j \in Boxes(u) : out'[u][j] > 0 => <<u, j>> \in gave'
    BY <1>1, <2>2 DEF BookInv, Reports
  <2>q. QED
    BY <1>2, <1>5, <2>3, SoundMore DEF BookInv, Reports
<1>8. Begun'
  BY <1>1, <1>2, <1>3, <1>4 DEF BookInv, Begun
<1>9. Rounds'
  <2> SUFFICES ASSUME NEW u \in queue, NEW j \in 1 .. list[u],
                      j <= pos'[u] \/ (round[u] > 0 /\ finish[u] # "stop")
               PROVE  <<u, j>> \in gave'
    BY <1>2 DEF Rounds
  <2>1. CASE u # t \/ (round[u] > 0 /\ finish[u] # "stop")
    BY <1>0, <1>1, <1>5, <2>1 DEF BookInv, Rounds, Shape
  <2>2. CASE u = t /\ j <= pos'[t]
    <3>1. pos'[t] = i
      BY <1>0, <1>1, <1>3 DEF Shape
    <3>2. j \in Nat /\ j >= 1
      OBVIOUS
    <3>3. j = i \/ j \in 1 .. i - 1
      BY <1>3, <2>2, <3>1, <3>2
    <3>q. QED
      BY <1>1, <1>3, <1>5, <2>2, <3>3
  <2>q. QED
    BY <2>1, <2>2
<1>10. FinishedTried'
  BY <1>2, <1>5 DEF BookInv, FinishedTried
<1>11. Looking'
  <2>1. ses'[s] = [pc |-> "asked", task |-> t, next |-> 0]
        /\ \A r \in Sessions : r # s => ses'[r] = ses[r]
    BY <1>0, <1>1 DEF AtWork
  <2>2. ses'[s].pc = "asked"
    BY <2>1
  <2>q. QED
    BY <1>2, <1>5, <2>1, <2>2 DEF BookInv, Looking
<1>q. QED
  BY <1>0, <1>6, <1>7, <1>8, <1>9, <1>10, <1>11 DEF BookInv

LEMMA NextRoundBook ==
  ASSUME BookInv, NEW s \in Sessions, NextRound(s)
  PROVE  BookInv'
<1> DEFINE t == ses[s].task
<1>0. FileInv /\ FileInv' /\ Shape /\ AtWork
  BY ListFiles DEF BookInv, FileInv
<1>1. /\ pos' = [pos EXCEPT ![t] = 0] /\ round' = [round EXCEPT ![t] = ses[s].next + 1]
      /\ ses' = [ses EXCEPT ![s] = Idle]
      /\ UNCHANGED <<out, results, rep, book, logged, gave, bak, file, recv, queue, list,
                     finish>>
  BY DEF NextRound, diskVars, engVars, histVars
<1>2. t \in queue /\ t \in Tasks /\ \A j \in 1 .. list[t] : <<t, j>> \in gave
  BY <1>0 DEF NextRound, AtWork, Shape, BookInv, Looking
<1> HIDE DEF t
<1>3. Reports' /\ InHand' /\ Books' /\ Begun' /\ FinishedTried'
  BY <1>1, BooksKept DEF BookInv, Begun, FinishedTried
<1>4. Rounds'
  BY <1>0, <1>1, <1>2 DEF BookInv, Rounds, Shape
<1>5. Looking'
  <2>1. ses'[s] = Idle /\ \A r \in Sessions : r # s => ses'[r] = ses[r]
    BY <1>0, <1>1 DEF AtWork
  <2>2. ses'[s].pc = "idle"
    BY <2>1 DEF Idle
  <2>q. QED
    BY <1>1, <2>1, <2>2 DEF BookInv, Looking
<1>q. QED
  BY <1>0, <1>3, <1>4, <1>5 DEF BookInv

(* All successes counted once: there are as many as mailboxes. *)
LEMMA FinishBook ==
  ASSUME BookInv, NEW t \in Tasks, Finish(t)
  PROVE  BookInv'
<1>0. FileInv /\ FileInv' /\ Shape
  BY FinishFiles DEF BookInv, FileInv
<1>1. /\ t \in queue /\ finish[t] = "no" /\ finish' = [finish EXCEPT ![t] = "self"]
      /\ ~Open(t) /\ MoveFile(t)
      /\ UNCHANGED <<out, results, rep, book, logged, gave, recv, queue, list, round, pos,
                     ses>>
  BY DEF Finish, engVars
<1>m. \A u \in Tasks : u \in bak' \/ (file'[u] = file[u] /\ u \notin bak)
  BY <1>0, <1>1, Moved DEF FileInv, Queued
<1>2. Reports' /\ InHand' /\ Books' /\ Looking'
  BY <1>1, BooksKept, LookKept
<1>r. Rounds'
  BY <1>0, <1>1 DEF BookInv, Rounds, Shape
<1>3. Begun'
  BY <1>1, <1>m DEF BookInv, Begun
<1>4. ASSUME book[t].done = Cardinality(book[t].won), NEW j \in 1 .. list[t]
      PROVE  <<t, j>> \in gave
  <2>1. CASE ~(round[t] < RoundNum)
    <3>1. round[t] > 0
      BY <1>0, <2>1, RecoverAssumption DEF Shape
    <3>q. QED
      BY <1>1, <3>1 DEF BookInv, Rounds
  <2>2. CASE Remain(t) = 0
    <3>1. /\ book[t].done \in Nat /\ book[t].won \subseteq Boxes(t)
          /\ \A i \in book[t].won : <<t, i>> \in gave
      BY DEF BookInv, Books, AllSound, Sound
    <3>2. list[t] = file[t] /\ t \notin bak /\ list[t] \in Nat
      BY <1>0, <1>1 DEF FileInv, Queued, Shape
    <3>3. book[t].won \in SUBSET (1 .. list[t])
      <4>1. ASSUME NEW i \in book[t].won PROVE i \in 1 .. list[t]
        <5>1. i \in Boxes(t) /\ <<t, i>> \in gave
          BY <3>1
        <5>2. i <= list[t]
          BY <3>2, <5>1 DEF BookInv, Begun
        <5>q. QED
          BY <3>2, <5>1, <5>2, SizeNat DEF Boxes
      <4>q. QED
        BY <4>1
    <3>4. list[t] = Cardinality(book[t].won)
      BY <1>4, <2>2, <3>1, <3>2 DEF Remain
    <3>5. IsFiniteSet(1 .. list[t]) /\ Cardinality(1 .. list[t]) = list[t]
      BY <3>2, Counting
    <3>6. 1 .. list[t] = book[t].won
      BY <3>3, <3>4, <3>5, FS_Subset
    <3>q. QED
      BY <3>1, <3>6
  <2>q. QED
    BY <1>1, <2>1, <2>2 DEF Open
<1>5. FinishedTried'
  BY <1>0, <1>1, <1>4 DEF BookInv, FinishedTried, Shape
<1>q. QED
  BY <1>0, <1>2, <1>r, <1>3, <1>5 DEF BookInv

LEMMA RemoveBook ==
  ASSUME BookInv, NEW t \in Tasks, Remove(t)
  PROVE  BookInv'
<1>0. FileInv /\ FileInv' /\ Shape
  BY RemoveFiles DEF BookInv, FileInv
<1>1. /\ queue' = queue \ {t} /\ book' = [book EXCEPT ![t] = Blank(t)]
      /\ list' = [list EXCEPT ![t] = 0] /\ finish' = [finish EXCEPT ![t] = "no"]
      /\ round' = [round EXCEPT ![t] = 0] /\ pos' = [pos EXCEPT ![t] = 0]
      /\ UNCHANGED <<out, results, rep, logged, gave, recv, bak, file, ses>>
  BY DEF Remove, diskVars, engVars, histVars
<1>2. Reports' /\ InHand' /\ Begun'
  BY <1>1 DEF BookInv, Reports, InHand, Begun
<1>3. Books'
  BY <1>1, BlankSound DEF BookInv, Books, AllSound
<1>4. DOMAIN book = Tasks
  BY DEF BookInv, Books, AllSound
<1>5. \A u \in queue' : /\ u \in queue /\ u \in Tasks
                        /\ list'[u] = list[u] /\ finish'[u] = finish[u]
                        /\ round'[u] = round[u] /\ pos'[u] = pos[u] /\ book'[u] = book[u]
  BY <1>0, <1>1, <1>4 DEF Shape
<1>6. Rounds' /\ FinishedTried'
  BY <1>1, <1>5 DEF BookInv, Rounds, FinishedTried
<1>7. Looking'
  <2>1. \A s \in Sessions : ses[s].pc = "idle"
    BY DEF Remove, NoReader
  <2>q. QED
    BY <1>1, <2>1 DEF Looking
<1>q. QED
  BY <1>0, <1>2, <1>3, <1>6, <1>7 DEF BookInv

LEMMA StopBook ==
  ASSUME BookInv, NEW t \in Tasks, StopTask(t) \/ StopSession(t)
  PROVE  BookInv'
<1>0. FileInv /\ FileInv' /\ Shape
  BY StopFiles DEF BookInv, FileInv, StopSession
<1>1. UNCHANGED <<out, results, rep, book, logged, gave, recv, queue, list, pos, ses>>
  BY DEF StopTask, StopSession, StopMove, StopTold, diskVars, listVars, engVars, histVars
<1>2. Reports' /\ InHand' /\ Books' /\ Looking'
  BY <1>1, BooksKept, LookKept
<1>3. \A u \in Tasks : \/ finish'[u] = finish[u] /\ round'[u] = round[u]
                       \/ finish'[u] = "stop"
  BY <1>0 DEF StopTask, StopSession, StopMove, StopTold, listVars, Shape
<1>4. Rounds'
  BY <1>0, <1>1, <1>3 DEF BookInv, Rounds, Shape
<1>5. FinishedTried'
  BY <1>0, <1>1, <1>3 DEF BookInv, FinishedTried, Shape
<1>6. \A u \in Tasks : u \in bak' \/ (file'[u] = file[u] /\ u \notin bak)
  <2>1. CASE StopMove(t)
    BY <1>0, <2>1, Moved DEF StopMove, FileInv, Queued
  <2>2. CASE StopTask(t) \/ StopTold(t)
    BY <2>2 DEF StopTask, StopTold, diskVars
  <2>q. QED
    BY <2>1, <2>2 DEF StopSession
<1>7. Begun'
  BY <1>1, <1>6 DEF BookInv, Begun
<1>q. QED
  BY <1>0, <1>2, <1>4, <1>5, <1>7 DEF BookInv

LEMMA CrashBook ==
  ASSUME BookInv, Crash
  PROVE  BookInv'
<1>0. FileInv /\ FileInv'
  BY FileNext DEF BookInv, Next
<1>1. /\ queue' = {} /\ book' = [t \in Tasks |-> Blank(t)]
      /\ rep' = [p \in Reporters |-> Quiet] /\ recv' = [t \in Tasks |-> "idle"]
      /\ ses' = [s \in Sessions |-> Idle]
      /\ UNCHANGED <<out, results, logged, gave, bak, file>>
  BY DEF Crash, diskVars, engVars, histVars
<1>2. Reports' /\ Rounds' /\ FinishedTried'
  BY <1>1 DEF BookInv, Reports, Rounds, FinishedTried
<1>6. Looking'
  BY <1>1 DEF Looking, Idle
<1>3. InHand'
  BY <1>1, QuietIn DEF InHand
<1>4. Books'
  BY <1>1, BlankSound DEF BookInv, Books, AllSound
<1>5. Begun'
  BY <1>1 DEF BookInv, Begun
<1>q. QED
  BY <1>0, <1>2, <1>3, <1>4, <1>5, <1>6 DEF BookInv

LEMMA RecoverBook ==
  ASSUME BookInv, RunRecover
  PROVE  BookInv'
<1> DEFINE read == {t \in Tasks : file[t] >= 0}
<1>0. FileInv /\ FileInv' /\ Shape
  BY FileNext DEF BookInv, FileInv, Next
<1>1. /\ ~up /\ queue' = read
      /\ book' = [t \in Tasks |-> IF t \in read THEN logged[t] ELSE Blank(t)]
      /\ file' = [t \in Tasks |-> IF t \in read THEN file[t] ELSE NoFile]
      /\ UNCHANGED <<out, results, rep, logged, gave, bak, recv, finish, round, pos, ses>>
  BY DEF RunRecover, Recovered, engVars
<1>7. Looking'
  <2>1. queue = {}
    BY <1>0, <1>1 DEF FileInv, Down
  <2>q. QED
    BY <1>1, <2>1, LookKept
<1>2. \A t \in Tasks : finish[t] = "no" /\ round[t] = 0 /\ pos[t] = 0
  BY <1>0, <1>1 DEF FileInv, Down
<1>3. Reports' /\ InHand'
  BY <1>1 DEF BookInv, Reports, InHand
<1>4. Books'
  BY <1>1, BlankSound DEF BookInv, Books, AllSound
<1>5. Begun'
  BY <1>0, <1>1 DEF BookInv, Begun, Boxes, Shape
<1>6. Rounds' /\ FinishedTried'
  BY <1>1, <1>2 DEF Rounds, FinishedTried
<1>q. QED
  BY <1>0, <1>3, <1>4, <1>5, <1>6, <1>7 DEF BookInv

LEMMA DeliverBook ==
  ASSUME BookInv, NEW t \in Tasks, NEW i \in Boxes(t), NEW k \in Kinds, Deliver(t, i, k)
  PROVE  BookInv'
<1>0. FileInv /\ FileInv' /\ Shape
  BY FileNext DEF BookInv, FileInv, Next
<1>1. /\ out[t][i] > 0 /\ out' = [out EXCEPT ![t][i] = @ - 1]
      /\ results' = results \cup {<<t, i, k>>}
      /\ UNCHANGED <<rep, book, logged, gave, bak, file, recv, queue, list, finish, round,
                     pos, ses>>
  BY DEF Deliver, diskVars, listVars, histVars
<1>2. InHand' /\ Books' /\ Begun' /\ Rounds' /\ Looking' /\ FinishedTried'
  BY <1>1, LookKept DEF BookInv, InHand, Books, Begun, Rounds, FinishedTried
<1>3. Reportable(<<t, i, k>>, gave)
  BY <1>1, SizeNat DEF BookInv, Reports, Reportable, Boxes
<1>4. ASSUME NEW u \in Tasks, NEW j \in Boxes(u), out'[u][j] > 0
      PROVE  <<u, j>> \in gave
  <2>1. out' = [out EXCEPT ![t] = [out[t] EXCEPT ![i] = out[t][i] - 1]]
    BY <1>0, <1>1 DEF Shape
  <2>2. out'[u][j] = out[u][j] \/ (u = t /\ j = i)
    BY <1>0, <2>1 DEF Shape
  <2>q. QED
    BY <1>1, <1>4, <2>2 DEF BookInv, Reports
<1>5. Reports'
  BY <1>1, <1>3, <1>4 DEF BookInv, Reports
<1>q. QED
  BY <1>0, <1>2, <1>5 DEF BookInv

(* What a session of reports leaves alone *)
LEMMA SessionBook ==
  ASSUME BookInv, FileInv', InHand', Books',
         UNCHANGED <<out, gave, bak, file, recv, queue, list, finish, round, pos, ses>>,
         results' \subseteq results, FinishedTried'
  PROVE  BookInv'
<1>1. Reports' /\ Begun' /\ Rounds' /\ Looking'
  BY LookKept DEF BookInv, Reports, Begun, Rounds
<1>q. QED
  BY <1>1 DEF BookInv

LEMMA PackageBook ==
  ASSUME BookInv, NEW p \in Reporters, NEW B \in Packages, Package(p, B)
  PROVE  BookInv'
<1>0. FileInv'
  BY FileNext DEF BookInv, Next
<1>1. /\ rep' = [rep EXCEPT ![p] = [pc |-> "batch", batch |-> B, todo |-> B, line |-> <<>>]]
      /\ UNCHANGED <<out, results, book, logged, gave, bak, file, recv, queue, list, finish,
                     round, pos, ses>>
  BY DEF Package, diskVars, listVars, engVars
<1>2. TodoIn(B, gave)
  <2>1. PICK n \in 1 .. MaxBatch : B \in [1 .. n -> results]
    BY DEF Packages
  <2>2. n \in Nat
    BY <2>1, RecoverAssumption
  <2>3. B \in Seq(results) /\ Len(B) = n
    BY <2>1, <2>2
  <2>4. \A j \in 1 .. Len(B) : Reportable(B[j], gave)
    BY <2>1, <2>3 DEF BookInv, Reports
  <2>5. results \subseteq Tasks \X Nat \X Kinds
    BY DEF BookInv, Reports, Reportable
  <2>6. B \in Seq(Tasks \X Nat \X Kinds)
    BY <2>3, <2>5
  <2>q. QED
    BY <2>2, <2>3, <2>4, <2>6 DEF TodoIn
<1>3. InHand'
  BY <1>1, <1>2, QuietIn DEF BookInv, InHand, Quiet
<1>4. Books' /\ FinishedTried'
  BY <1>1 DEF BookInv, Books, FinishedTried
<1>q. QED
  BY <1>0, <1>1, <1>3, <1>4, SessionBook

LEMMA TodoTail ==
  ASSUME NEW G, NEW x, TodoIn(x, G), x # <<>>
  PROVE  Reportable(x[1], G) /\ TodoIn(Tail(x), G)
<1>1. x \in Seq(Tasks \X Nat \X Kinds) /\ Len(x) \in Nat /\ Len(x) > 0
  BY DEF TodoIn
<1>2. /\ Tail(x) \in Seq(Tasks \X Nat \X Kinds) /\ Len(Tail(x)) = Len(x) - 1
      /\ \A j \in 1 .. Len(x) - 1 : Tail(x)[j] = x[j + 1]
  BY <1>1
<1>3. \A j \in 1 .. Len(x) - 1 : j + 1 \in 1 .. Len(x)
  BY <1>1
<1>4. Len(Tail(x)) \in Nat
  BY <1>1, <1>2
<1>q. QED
  BY <1>1, <1>2, <1>3, <1>4 DEF TodoIn

LEMMA LineAppend ==
  ASSUME NEW G, NEW x, LineIn(x, G), NEW r, Reportable(r, G), NEW b \in BOOLEAN
  PROVE  LineIn(Append(x, [what |-> r, found |-> b]), G)
<1> DEFINE e == [what |-> r, found |-> b]
<1>1. e \in [what : Tasks \X Nat \X Kinds, found : BOOLEAN] /\ e.what = r
  BY DEF Reportable
<1> HIDE DEF e
<1>2. x \in Seq([what : Tasks \X Nat \X Kinds, found : BOOLEAN]) /\ Len(x) \in Nat
  BY DEF LineIn
<1>3. /\ Append(x, e) \in Seq([what : Tasks \X Nat \X Kinds, found : BOOLEAN])
      /\ Len(Append(x, e)) = Len(x) + 1
      /\ \A j \in 1 .. Len(x) : Append(x, e)[j] = x[j]
      /\ Append(x, e)[Len(x) + 1] = e
  BY <1>1, <1>2
<1>4. \A j \in 1 .. Len(x) + 1 : j \in 1 .. Len(x) \/ j = Len(x) + 1
  BY <1>2
<1>5. \A j \in 1 .. Len(x) + 1 : Reportable(Append(x, e)[j].what, G)
  BY <1>1, <1>3, <1>4 DEF LineIn
<1>6. Len(Append(x, e)) \in Nat
  BY <1>2, <1>3
<1>7. LineIn(Append(x, e), G)
  BY <1>3, <1>5, <1>6 DEF LineIn
<1>q. QED
  BY <1>7 DEF e

(* A report of a task in the queue changes the book of one mailbox that was *)
(* handed out.                                                              *)
LEMMA ReportBook ==
  ASSUME BookInv, NEW p \in Reporters, Report(p)
  PROVE  BookInv'
<1> DEFINE r == rep[p].todo[1]
           b == r[1] \in queue
           x == Tail(rep[p].todo)
           y == Append(rep[p].line, [what |-> r, found |-> b])
<1>0. FileInv' /\ queue \subseteq Tasks
  BY FileNext DEF BookInv, Next, Reporting, FileInv, Shape
<1>1. /\ rep[p].todo # <<>>
      /\ rep' = [rep EXCEPT ![p].todo = x, ![p].line = y]
      /\ book' = IF b THEN [book EXCEPT ![r[1]] = Changed(book[r[1]], r[2], StatusOf(r[3]))]
                      ELSE book
      /\ UNCHANGED <<out, results, logged, gave, bak, file, recv, queue, list, finish, round,
                     pos, ses>>
  BY DEF Report, diskVars, engVars, histVars
<1>2. /\ DOMAIN rep = Reporters /\ DOMAIN rep[p] = {"pc", "batch", "todo", "line"}
      /\ TodoIn(rep[p].todo, gave) /\ LineIn(rep[p].line, gave)
  BY DEF BookInv, InHand
<1>3. Reportable(r, gave) /\ TodoIn(x, gave)
  BY <1>1, <1>2, TodoTail
<1>4. LineIn(y, gave)
  <2>1. b \in BOOLEAN
    OBVIOUS
  <2> HIDE DEF r, b
  <2>q. QED
    BY <1>2, <1>3, <2>1, LineAppend
<1>5. InHand'
  <2> HIDE DEF r, b, x, y
  <2>1. rep' = [rep EXCEPT ![p] = [rep[p] EXCEPT !.todo = x, !.line = y]]
    BY <1>1, <1>2
  <2>2. /\ DOMAIN rep'[p] = {"pc", "batch", "todo", "line"}
        /\ rep'[p].todo = x /\ rep'[p].line = y
        /\ DOMAIN rep' = Reporters /\ \A q \in Reporters : q # p => rep'[q] = rep[q]
    BY <1>2, <2>1
  <2>q. QED
    BY <1>1, <1>3, <1>4, <2>2 DEF BookInv, InHand
<1> HIDE DEF r
<1>6. /\ r[1] \in Tasks /\ r[2] \in Boxes(r[1]) /\ <<r[1], r[2]>> \in gave
      /\ StatusOf(r[3]) \in Status
  BY <1>3, KindStatus DEF Reportable
<1> DEFINE c == Changed(book[r[1]], r[2], StatusOf(r[3]))
<1>7. /\ Sound(c, r[1], gave)
      /\ c.done = Cardinality(c.won) => book[r[1]].done = Cardinality(book[r[1]].won)
  BY <1>6, SoundChanged DEF BookInv, Books, AllSound
<1>8. AllSound(book, gave)
  BY DEF BookInv, Books
<1> HIDE DEF c
<1>9. book' = IF b THEN [book EXCEPT ![r[1]] = c] ELSE book
  BY <1>1 DEF c
<1>10. Books'
  BY <1>1, <1>6, <1>7, <1>8, <1>9 DEF BookInv, Books, AllSound
<1>11. \A t \in Tasks : book'[t].done = Cardinality(book'[t].won) =>
                          book[t].done = Cardinality(book[t].won)
  BY <1>6, <1>7, <1>8, <1>9 DEF AllSound
<1>12. FinishedTried'
  BY <1>0, <1>1, <1>11 DEF BookInv, FinishedTried
<1>q. QED
  BY <1>0, <1>1, <1>5, <1>10, <1>12, SessionBook

LEMMA LogBook ==
  ASSUME BookInv, NEW p \in Reporters, LogPart(p) \/ LogRest(p)
  PROVE  BookInv'
<1>0. FileInv'
  BY FileNext DEF BookInv, Next, Reporting
<1>1. /\ logged' = Replayed(logged, rep[p].line)
      /\ UNCHANGED <<out, results, book, gave, bak, file, recv, queue, list, finish, round,
                     pos, ses>>
  BY DEF LogPart, LogRest, WriteLine, listVars, engVars
<1>2. /\ DOMAIN rep = Reporters /\ DOMAIN rep[p] = {"pc", "batch", "todo", "line"}
      /\ TodoIn(rep[p].todo, gave) /\ LineIn(rep[p].line, gave) /\ LineIn(<<>>, gave)
  BY QuietIn DEF BookInv, InHand, Quiet
<1>3. InHand'
  <2>1. /\ DOMAIN rep'[p] = {"pc", "batch", "todo", "line"}
        /\ rep'[p].todo = rep[p].todo /\ rep'[p].line = <<>>
        /\ DOMAIN rep' = Reporters /\ \A q \in Reporters : q # p => rep'[q] = rep[q]
    <3>1. CASE LogPart(p)
      <4>1. rep' = [rep EXCEPT ![p] = [rep[p] EXCEPT !.line = <<>>]]
        BY <1>2, <3>1 DEF LogPart
      <4>q. QED
        BY <1>2, <4>1
    <3>2. CASE LogRest(p)
      <4>1. rep' = [rep EXCEPT ![p] = [rep[p] EXCEPT !.pc = "answer", !.line = <<>>]]
        BY <1>2, <3>2 DEF LogRest
      <4>q. QED
        BY <1>2, <4>1
    <3>q. QED
      BY <3>1, <3>2
  <2>q. QED
    BY <1>1, <1>2, <2>1 DEF BookInv, InHand
<1>4. AllSound(Replayed(logged, rep[p].line), gave)
  BY <1>2, ReplayedSound DEF BookInv, Books
<1>5. Books' /\ FinishedTried'
  BY <1>1, <1>4 DEF BookInv, Books, FinishedTried
<1>q. QED
  BY <1>0, <1>1, <1>3, <1>5, SessionBook

LEMMA AnswerBook ==
  ASSUME BookInv, NEW p \in Reporters, Answer(p)
  PROVE  BookInv'
<1>0. FileInv'
  BY FileNext DEF BookInv, Next, Reporting
<1>1. /\ rep' = [rep EXCEPT ![p] = Quiet] /\ results' \subseteq results
      /\ UNCHANGED <<out, book, logged, gave, bak, file, recv, queue, list, finish, round,
                     pos, ses>>
  BY DEF Answer, diskVars, listVars
<1>2. InHand'
  BY <1>1, QuietIn DEF BookInv, InHand
<1>3. Books' /\ FinishedTried'
  BY <1>1 DEF BookInv, Books, FinishedTried
<1>q. QED
  BY <1>0, <1>1, <1>2, <1>3, SessionBook

LEMMA BookNext == BookInv /\ [Next]_vars => BookInv'
<1> SUFFICES ASSUME BookInv, [Next]_vars PROVE BookInv'
  OBVIOUS
<1>1. ASSUME NEW t \in Tasks,
             \/ Handover(t) \/ Finish(t) \/ Remove(t) \/ StopTask(t) \/ StopSession(t)
      PROVE  BookInv'
  BY <1>1, HandoverBook, FinishBook, RemoveBook, StopBook
<1>7. ASSUME NEW s \in Sessions, Answering(s) PROVE BookInv'
  BY <1>7, AskBook, HandOutBook, NextRoundBook DEF Answering
<1>2. CASE \E t \in Tasks : \E i \in Boxes(t), k \in Kinds : Deliver(t, i, k)
  BY <1>2, DeliverBook
<1>3. CASE \E p \in Reporters : Reporting(p) \/ \E B \in Packages : Package(p, B)
  BY <1>3, ReportBook, LogBook, AnswerBook, PackageBook DEF Reporting
<1>4. CASE Crash
  BY <1>4, CrashBook
<1>5. CASE RunRecover
  BY <1>5, RecoverBook
<1>6. CASE UNCHANGED vars
  <2>1. UNCHANGED <<out, results, rep, book, logged, gave, bak, file, recv, queue, list,
                    finish, round, pos, ses>>
    BY <1>6 DEF vars, diskVars, listVars, engVars, histVars
  <2>2. FileInv'
    BY FileNext DEF BookInv
  <2>3. Reports' /\ InHand' /\ Books' /\ FinishedTried'
    BY <2>1 DEF BookInv, Reports, InHand, Books, FinishedTried
  <2>q. QED
    BY <2>1, <2>2, <2>3, SessionBook
<1>q. QED
  BY <1>1, <1>2, <1>3, <1>4, <1>5, <1>6, <1>7 DEF Next

LEMMA BookInvariant == Spec => []BookInv
<1>1. Init => BookInv
  BY BookInit
<1>2. BookInv /\ [Next]_vars => BookInv'
  BY BookNext
<1>q. QED
  BY <1>1, <1>2, PTL DEF Spec

(* A task the main thread finishes was handed out to its last mailbox, in   *)
(* this process or before a crash, whatever the engines reported and        *)
(* however the log was replayed; the one exception is a list whose nCount   *)
(* the successes of a mailbox took down more than once.                     *)
THEOREM RecoveredAreTried == Spec => []FinishedTried
<1>1. BookInv => FinishedTried
  BY DEF BookInv
<1>q. QED
  BY <1>1, BookInvariant, PTL

-----------------------------------------------------------------------------
(* Answered results.  A session has applied the first reports of its        *)
(* package and logged the first of these; where it is, is told by what is   *)
(* left.                                                                    *)

About(r, t, i) == r[1] = t /\ r[2] = i

Applied(x) == Len(x.batch) - Len(x.todo)
Written(x) == Len(x.batch) - Len(x.todo) - Len(x.line)

(* The session x goes through its package in order. *)
InStep(x) ==
  /\ x.pc \in {"idle", "batch", "answer"}
  /\ Len(x.batch) \in Nat /\ Written(x) \in Nat
  /\ \A j \in 1 .. Len(x.todo) : x.todo[j] = x.batch[Applied(x) + j]
  /\ \A j \in 1 .. Len(x.line) : x.line[j].what = x.batch[Written(x) + j]
  /\ x.pc = "answer" => x.todo = <<>> /\ x.line = <<>>

(* Two sessions have no report in common, and none about a common mailbox   *)
(* unless it is noted in H.                                                 *)
Apart(A, B, H) ==
  \A j \in 1 .. Len(A), h \in 1 .. Len(B) :
    /\ A[j] # B[h]
    /\ A[j][1] = B[h][1] /\ A[j][2] = B[h][2] => <<A[j][1], A[j][2]>> \in H

Packaged ==
  \A p \in Reporters :
    /\ InStep(rep[p])
    /\ \A j \in 1 .. Len(rep[p].batch) : rep[p].batch[j] \in results
    /\ ~up => rep[p].batch = <<>>
    /\ \A q \in Reporters \ {p} : Apart(rep[p].batch, rep[q].batch, hurt)

(* The status s is that of the last of the first k reports about a mailbox. *)
Says(s, B, k, t, i) ==
  \A j \in 1 .. k :
    About(B[j], t, i) /\ (\A h \in 1 .. k : h > j => ~About(B[h], t, i)) =>
      s = StatusOf(B[j][3])

Follows(x, t, i, shown, written) ==
  /\ t \in queue => Says(shown, x.batch, Applied(x), t, i)
  /\ Says(written, x.batch, Written(x), t, i)

Followed ==
  \A p \in Reporters : \A t \in Tasks : \A i \in Boxes(t) : <<t, i>> \notin hurt =>
     Follows(rep[p], t, i, book[t].stat[i], logged[t].stat[i])

Untouched ==
  \A t \in Tasks : \A i \in Boxes(t) : <<t, i>> \notin gave =>
    acked[t][i] = "new" /\ book[t].stat[i] = "new" /\ logged[t].stat[i] = "new"

Pending(t, i, R) == \E r \in R : About(r, t, i)

Kept ==
  \A t \in Tasks : \A i \in Boxes(t) : ~Pending(t, i, results) /\ <<t, i>> \notin hurt =>
    /\ t \in queue => book[t].stat[i] = acked[t][i]
    /\ logged[t].stat[i] = acked[t][i]

Fits == \A t \in queue : list[t] <= Size[t]

KeepInv == BookInv /\ Packaged /\ Followed /\ Untouched /\ Kept /\ Fits

LEMMA Greatest ==
  ASSUME NEW n \in Nat, NEW T, T \subseteq 1 .. n, T # {}
  PROVE  \E x \in T : \A y \in T : y <= x
<1> DEFINE D == {d \in 0 .. n : n - d \in T}
<1>1. D \subseteq Nat /\ D # {}
  <2>1. PICK z \in T : TRUE
    OBVIOUS
  <2>2. z \in 1 .. n
    BY <2>1
  <2>3. n - z \in 0 .. n /\ n - (n - z) = z
    BY <2>2
  <2>4. n - z \in D
    BY <2>1, <2>3
  <2>5. D \subseteq Nat
    OBVIOUS
  <2>q. QED
    BY <2>4, <2>5
<1>2. PICK d \in D : \A e \in D : d <= e
  <2> HIDE DEF D
  <2>q. QED
    BY <1>1, Least
<1>3. \A y \in T : n - y \in 0 .. n /\ n - (n - y) = y /\ y \in Int
  OBVIOUS
<1>4. \A y \in T : d <= n - y
  BY <1>2, <1>3
<1>5. d \in 0 .. n /\ n - d \in T
  BY <1>2
<1>6. \A y \in T : y <= n - d
  BY <1>3, <1>4, <1>5
<1>q. QED
  BY <1>5, <1>6

(* What the status of a mailbox is after one more report *)
LEMMA SaysNext ==
  ASSUME NEW s, NEW z, NEW B, NEW k \in Nat, NEW t, NEW i, Says(s, B, k, t, i),
         z = IF About(B[k + 1], t, i) THEN StatusOf(B[k + 1][3]) ELSE s
  PROVE  Says(z, B, k + 1, t, i)
<1> SUFFICES ASSUME NEW j \in 1 .. k + 1, About(B[j], t, i),
                    \A h \in 1 .. k + 1 : h > j => ~About(B[h], t, i)
             PROVE  z = StatusOf(B[j][3])
  BY DEF Says
<1>1. CASE j = k + 1
  BY <1>1
<1>2. CASE j # k + 1
  <2>1. j \in 1 .. k /\ k + 1 \in 1 .. k + 1 /\ k + 1 > j
    BY <1>2
  <2>2. ~About(B[k + 1], t, i)
    BY <2>1
  <2>3. \A h \in 1 .. k : h > j => ~About(B[h], t, i)
    OBVIOUS
  <2>q. QED
    BY <2>1, <2>2, <2>3 DEF Says
<1>q. QED
  BY <1>1, <1>2

(* The reports of a line that are read are its first. *)
LEMMA ReadFirst ==
  ASSUME NEW line, Len(line) \in Nat, NEW h \in 1 .. Len(line), Reads(line, h)
  PROVE  h <= Cardinality({j \in 1 .. Len(line) : Reads(line, j)})
<1> DEFINE T == {j \in 1 .. Len(line) : Reads(line, j)}
<1>1. T \in SUBSET (1 .. Len(line)) /\ h \in Nat
  OBVIOUS
<1>2. 1 .. h \subseteq T
  <2>1. ASSUME NEW j \in 1 .. h PROVE j \in 1 .. Len(line) /\ Reads(line, j)
    <3>1. j \in 1 .. Len(line) /\ \A g \in 1 .. j - 1 : g \in 1 .. h - 1
      OBVIOUS
    <3>q. QED
      BY <3>1 DEF Reads
  <2>q. QED
    BY <2>1
<1> HIDE DEF T
<1>3. IsFiniteSet(1 .. Len(line)) /\ Cardinality(1 .. h) = h
  BY <1>1, Counting
<1>4. IsFiniteSet(T)
  BY <1>1, <1>3, FS_Subset
<1>5. Cardinality(1 .. h) <= Cardinality(T)
  BY <1>2, <1>4, FS_Subset
<1>q. QED
  BY <1>3, <1>5 DEF T

NoneAbout(line, t, i) == \A j \in 1 .. Len(line) : ~About(line[j].what, t, i)

LineSays(s, line, t, i) ==
  \A j \in 1 .. Len(line) :
    /\ About(line[j].what, t, i)
    /\ \A h \in 1 .. Len(line) : h > j => ~About(line[h].what, t, i)
    => s = StatusOf(line[j].what[3])

(* What the replay of a line does to the status of a mailbox: it stays, or  *)
(* becomes that of the last report about it, if all of them are read.       *)
LEMMA ReplayedStat ==
  ASSUME NEW l, NEW line, NEW G, AllSound(l, G), LineIn(line, G),
         NEW t \in Tasks, NEW i \in Boxes(t)
  PROVE  /\ NoneAbout(line, t, i) =>
              Replayed(l, line)[t].stat[i] = l[t].stat[i]
         /\ <<t, i>> \notin Boxed(Unread(line)) =>
              LineSays(Replayed(l, line)[t].stat[i], line, t, i)
<1> DEFINE n == Cardinality({j \in 1 .. Len(line) : Reads(line, j)})
<1>1. n \in Nat /\ n <= Len(line) /\ Len(line) \in Nat
  BY ReadCount DEF LineIn
<1>2. \A h \in 1 .. Len(line) : Reads(line, h) => h <= n
  BY <1>1, ReadFirst
<1>3. PICK f : Solves(f, l, line, n) /\ Replayed(l, line) = f[n]
  BY <1>1, ReplayedSolves
<1> HIDE DEF n
<1> DEFINE Right(m) ==
             /\ AllSound(f[m], G)
             /\ (\A j \in 1 .. m : ~About(line[j].what, t, i)) => f[m][t].stat[i] = l[t].stat[i]
             /\ \A j \in 1 .. m :
                  About(line[j].what, t, i) /\ (\A h \in 1 .. m : h > j => ~About(line[h].what, t, i))
                    => f[m][t].stat[i] = ReplayStat(line[j].what[3])
<1>4. Right(0)
  <2>1. f[0] = l
    BY <1>1, <1>3 DEF Solves
  <2>q. QED
    BY <2>1
<1>5. ASSUME NEW m \in 1 .. n, Right(m - 1) PROVE Right(m)
  <2> DEFINE r == line[m].what
  <2>1. m \in 1 .. Len(line) /\ m \in 0 .. n /\ m # 0 /\ m - 1 \in Nat
    BY <1>1
  <2>2. f[m] = ReplayOne(f[m - 1], r)
    BY <1>3, <2>1 DEF Solves
  <2>3. Reportable(r, G) /\ AllSound(f[m - 1], G)
    BY <1>5, <2>1 DEF LineIn
  <2>4. AllSound(f[m], G)
    BY <2>2, <2>3, ReplaySound
  <2>5. f[m][t].stat[i] = IF About(r, t, i) THEN ReplayStat(r[3]) ELSE f[m - 1][t].stat[i]
    <3> HIDE DEF r
    <3>1. f[m - 1][t].stat \in [Boxes(t) -> Status] /\ DOMAIN f[m - 1] = Tasks
      BY <2>3 DEF AllSound, Sound
    <3>2. f[m] = [f[m - 1] EXCEPT ![r[1]] = Changed(f[m - 1][r[1]], r[2], ReplayStat(r[3]))]
      BY <2>2 DEF ReplayOne
    <3>3. CASE r[1] = t
      <4>1. f[m][t] = Changed(f[m - 1][t], r[2], ReplayStat(r[3]))
        BY <3>1, <3>2, <3>3
      <4>2. f[m][t].stat = [f[m - 1][t].stat EXCEPT ![r[2]] = ReplayStat(r[3])]
        BY <4>1 DEF Changed
      <4>q. QED
        BY <3>1, <3>3, <4>2 DEF About
    <3>4. CASE r[1] # t
      BY <3>1, <3>2, <3>4 DEF About
    <3>q. QED
      BY <3>3, <3>4
  <2>6. \A j \in 1 .. m : j \in 1 .. m - 1 \/ j = m
    BY <2>1
  <2>7. \A j \in 1 .. m - 1 : j \in 1 .. m /\ m > j
    BY <2>1
  <2>8. m \in 1 .. m
    BY <2>1
  <2>9. (\A j \in 1 .. m : ~About(line[j].what, t, i)) => f[m][t].stat[i] = l[t].stat[i]
    BY <1>5, <2>5, <2>7, <2>8
  <2>10. ASSUME NEW j \in 1 .. m, About(line[j].what, t, i),
                \A h \in 1 .. m : h > j => ~About(line[h].what, t, i)
         PROVE  f[m][t].stat[i] = ReplayStat(line[j].what[3])
    <3>1. CASE j = m
      BY <2>5, <2>10, <3>1
    <3>2. CASE j \in 1 .. m - 1
      BY <1>5, <2>5, <2>7, <2>8, <2>10, <3>2
    <3>q. QED
      BY <2>6, <3>1, <3>2
  <2>q. QED
    BY <2>4, <2>9, <2>10
<1>6. Right(n)
  <2> DEFINE T == {m \in 0 .. n : ~Right(m)}
  <2>1. T = {}
    <3> SUFFICES ASSUME T # {} PROVE FALSE
      OBVIOUS
    <3> HIDE DEF Right
    <3>1. PICK m \in T : \A k \in T : m <= k
      <4>1. T \subseteq Nat
        BY <1>1
      <4> HIDE DEF T
      <4>q. QED
        BY <4>1, Least
    <3>2. m # 0 /\ m \in 0 .. n
      BY <1>4, <3>1
    <3>3. m \in 1 .. n /\ m - 1 \in 0 .. n /\ m - 1 \notin T
      BY <1>1, <3>1, <3>2
    <3>4. Right(m)
      BY <1>5, <3>3
    <3>q. QED
      BY <3>1, <3>4
  <2> HIDE DEF Right
  <2>q. QED
    BY <1>1, <2>1
<1>7. \A j \in 1 .. n : j \in 1 .. Len(line)
  BY <1>1
<1>8. ASSUME <<t, i>> \notin Boxed(Unread(line)), NEW j \in 1 .. Len(line),
             About(line[j].what, t, i)
      PROVE  j \in 1 .. n /\ ReplayStat(line[j].what[3]) = StatusOf(line[j].what[3])
  <2>1. line[j].what \notin Unread(line)
    BY <1>8 DEF Boxed, About
  <2>2. Reads(line, j) /\ ReplayStat(line[j].what[3]) = StatusOf(line[j].what[3])
    BY <2>1 DEF Unread
  <2>q. QED
    BY <1>1, <1>2, <2>2
<1>q. QED
  BY <1>3, <1>6, <1>7, <1>8 DEF NoneAbout, LineSays
LEMMA ReplayedSame ==
  ASSUME NEW l, NEW line, NEW G, AllSound(l, G), LineIn(line, G),
         NEW t \in Tasks, NEW i \in Boxes(t), NoneAbout(line, t, i)
  PROVE  Replayed(l, line)[t].stat[i] = l[t].stat[i]
  BY ReplayedStat

-----------------------------------------------------------------------------
LEMMA QuietStep ==
  /\ InStep(Quiet) /\ Quiet.batch = <<>> /\ Len(Quiet.batch) = 0
  /\ Applied(Quiet) = 0 /\ Written(Quiet) = 0
  BY DEF Quiet, InStep, Applied, Written

LEMMA SaysNone == \A s, B, t, i : Says(s, B, 0, t, i)
  BY DEF Says

LEMMA KeepInit == Init => KeepInv
<1> SUFFICES ASSUME Init PROVE KeepInv
  OBVIOUS
<1>1. BookInv
  BY BookInit
<1>2. Packaged
  BY QuietStep DEF Init, Packaged, Apart
<1>3. Followed
  BY QuietStep, SaysNone DEF Init, Followed, Follows
<1>4. \A t \in Tasks : \A i \in Boxes(t) :
        acked[t][i] = "new" /\ book[t].stat[i] = "new" /\ logged[t].stat[i] = "new"
  BY DEF Init, Blank
<1>5. queue = {}
  BY DEF Init
<1>q. QED
  BY <1>1, <1>2, <1>3, <1>4, <1>5 DEF KeepInv, Untouched, Kept, Fits

(* Where a session is in its package *)
LEMMA Where ==
  ASSUME NEW x, NEW G, InStep(x), TodoIn(x.todo, G), LineIn(x.line, G)
  PROVE  /\ Len(x.batch) \in Nat /\ Len(x.todo) \in Nat /\ Len(x.line) \in Nat
         /\ Written(x) \in Nat /\ Applied(x) \in Nat /\ Applied(x) <= Len(x.batch)
         /\ Written(x) + Len(x.line) = Applied(x)
         /\ Applied(x) + Len(x.todo) = Len(x.batch)
<1>1. /\ Len(x.batch) \in Nat /\ Written(x) \in Nat
      /\ Len(x.todo) \in Nat /\ Len(x.line) \in Nat
  BY DEF InStep, TodoIn, LineIn
<1> DEFINE a == Len(x.batch)
           b == Len(x.todo)
           c == Len(x.line)
<1>2. Applied(x) = a - b /\ Written(x) = a - b - c
  BY DEF Applied, Written
<1> HIDE DEF a, b, c
<1>3. a \in Nat /\ b \in Nat /\ c \in Nat /\ Written(x) \in Nat
  BY <1>1 DEF a, b, c
<1>4. /\ Applied(x) \in Nat /\ Applied(x) <= a
      /\ Written(x) + c = Applied(x) /\ Applied(x) + b = a
  BY <1>2, <1>3
<1>q. QED
  BY <1>1, <1>4 DEF a, b, c

LEMMA Places ==
  ASSUME KeepInv, NEW p \in Reporters
  PROVE  /\ Len(rep[p].batch) \in Nat /\ Len(rep[p].todo) \in Nat /\ Len(rep[p].line) \in Nat
         /\ Written(rep[p]) \in Nat /\ Applied(rep[p]) \in Nat
         /\ Applied(rep[p]) <= Len(rep[p].batch)
         /\ Written(rep[p]) + Len(rep[p].line) = Applied(rep[p])
         /\ Applied(rep[p]) + Len(rep[p].todo) = Len(rep[p].batch)
<1>1. InStep(rep[p]) /\ TodoIn(rep[p].todo, gave) /\ LineIn(rep[p].line, gave)
  BY DEF KeepInv, Packaged, BookInv, InHand
<1>q. QED
  BY <1>1, Where

(* It applies the next report, ... *)
LEMMA StepReport ==
  ASSUME NEW x, NEW y, NEW G, NEW b \in BOOLEAN, InStep(x), TodoIn(x.todo, G),
         LineIn(x.line, G), x.pc = "batch", x.todo # <<>>,
         y.pc = x.pc, y.batch = x.batch, y.todo = Tail(x.todo),
         y.line = Append(x.line, [what |-> x.todo[1], found |-> b])
  PROVE  /\ InStep(y) /\ Applied(y) = Applied(x) + 1 /\ Written(y) = Written(x)
         /\ Applied(x) + 1 \in 1 .. Len(x.batch) /\ x.batch[Applied(x) + 1] = x.todo[1]
<1> DEFINE e == [what |-> x.todo[1], found |-> b]
<1>1. /\ Len(x.batch) \in Nat /\ Len(x.todo) \in Nat /\ Len(x.line) \in Nat
      /\ Written(x) \in Nat /\ Applied(x) \in Nat
      /\ Written(x) + Len(x.line) = Applied(x)
      /\ Applied(x) + Len(x.todo) = Len(x.batch)
  BY Where
<1>2. x.todo \in Seq(Tasks \X Nat \X Kinds) /\ Len(x.todo) > 0
  BY <1>1 DEF TodoIn
<1>3. /\ Len(y.todo) = Len(x.todo) - 1
      /\ \A j \in 1 .. Len(x.todo) - 1 : y.todo[j] = x.todo[j + 1]
  <2>1. \A z \in Seq(Tasks \X Nat \X Kinds) : z # <<>> =>
          Len(Tail(z)) = Len(z) - 1 /\ \A j \in 1 .. Len(z) - 1 : Tail(z)[j] = z[j + 1]
    OBVIOUS
  <2>q. QED
    BY <1>2, <2>1
<1>4. e \in [what : Tasks \X Nat \X Kinds, found : BOOLEAN] /\ e.what = x.todo[1]
  BY <1>2
<1> HIDE DEF e
<1>5. /\ Len(y.line) = Len(x.line) + 1 /\ y.line[Len(x.line) + 1] = e
      /\ \A j \in 1 .. Len(x.line) : y.line[j] = x.line[j]
  <2>1. \A z \in Seq([what : Tasks \X Nat \X Kinds, found : BOOLEAN]) :
          /\ Len(Append(z, e)) = Len(z) + 1 /\ Append(z, e)[Len(z) + 1] = e
          /\ \A j \in 1 .. Len(z) : Append(z, e)[j] = z[j]
    BY <1>4
  <2>2. x.line \in Seq([what : Tasks \X Nat \X Kinds, found : BOOLEAN])
    BY DEF LineIn
  <2>q. QED
    BY <2>1, <2>2 DEF e
<1>6. Applied(y) = Applied(x) + 1 /\ Written(y) = Written(x)
  <2>1. Applied(y) = Len(x.batch) - (Len(x.todo) - 1)
    BY <1>3 DEF Applied
  <2>2. Written(y) = Len(x.batch) - (Len(x.todo) - 1) - (Len(x.line) + 1)
    BY <1>3, <1>5 DEF Written
  <2> DEFINE a == Len(x.batch)
             n == Len(x.todo)
             c == Len(x.line)
  <2>3. a \in Nat /\ n \in Nat /\ c \in Nat /\ Applied(x) = a - n /\ Written(x) = a - n - c
    BY <1>1 DEF Applied, Written
  <2> HIDE DEF a, n, c
  <2>4. Applied(y) = a - (n - 1) /\ Written(y) = a - (n - 1) - (c + 1)
    BY <2>1, <2>2 DEF a, n, c
  <2>q. QED
    BY <2>3, <2>4
<1>7. Applied(x) + 1 \in 1 .. Len(x.batch) /\ x.batch[Applied(x) + 1] = x.todo[1]
  <2>1. 1 \in 1 .. Len(x.todo)
    BY <1>2, <1>1
  <2>2. x.batch[Applied(x) + 1] = x.todo[1]
    BY <2>1 DEF InStep
  <2> DEFINE a == Len(x.batch)
             n == Len(x.todo)
  <2>3. a \in Nat /\ n \in Nat /\ n > 0 /\ Applied(x) \in Nat /\ Applied(x) + n = a
    BY <1>1, <1>2
  <2> HIDE DEF a, n
  <2>4. Applied(x) + 1 \in 1 .. a
    BY <2>3
  <2>q. QED
    BY <2>2, <2>4 DEF a
<1>8. ASSUME NEW j \in 1 .. Len(y.todo) PROVE y.todo[j] = y.batch[Applied(y) + j]
  <2>1. j \in 1 .. Len(x.todo) - 1 /\ j + 1 \in 1 .. Len(x.todo)
        /\ Applied(x) + (j + 1) = (Applied(x) + 1) + j
    <3> DEFINE n == Len(x.todo)
    <3>1. n \in Nat /\ j \in 1 .. n - 1 /\ Applied(x) \in Nat
      BY <1>1, <1>3
    <3> HIDE DEF n
    <3>2. j + 1 \in 1 .. n /\ Applied(x) + (j + 1) = (Applied(x) + 1) + j
      BY <3>1
    <3>q. QED
      BY <3>1, <3>2 DEF n
  <2>q. QED
    BY <1>3, <1>6, <2>1 DEF InStep
<1>9. ASSUME NEW j \in 1 .. Len(y.line) PROVE y.line[j].what = y.batch[Written(y) + j]
  <2>1. CASE j \in 1 .. Len(x.line)
    BY <1>5, <1>6, <2>1 DEF InStep
  <2>2. CASE j = Len(x.line) + 1
    <3>1. Written(x) + j = Applied(x) + 1
      BY <1>1, <2>2
    <3>q. QED
      BY <1>4, <1>5, <1>6, <1>7, <2>2, <3>1
  <2>q. QED
    BY <1>1, <1>5, <2>1, <2>2
<1>q. QED
  BY <1>1, <1>6, <1>7, <1>8, <1>9 DEF InStep

(* ... and writes what it applied. *)
LEMMA StepLog ==
  ASSUME NEW x, NEW y, NEW G, InStep(x), TodoIn(x.todo, G), LineIn(x.line, G),
         y.pc \in {"batch", "answer"}, y.pc = "answer" => x.todo = <<>>,
         y.batch = x.batch, y.todo = x.todo, y.line = <<>>
  PROVE  InStep(y) /\ Applied(y) = Applied(x) /\ Written(y) = Applied(x)
<1>1. Len(x.batch) \in Nat /\ Len(x.todo) \in Nat /\ Applied(x) \in Nat
  BY Where
<1>2. Applied(y) = Applied(x) /\ Written(y) = Applied(x) /\ Len(y.line) = 0
  BY <1>1 DEF Applied, Written
<1>q. QED
  BY <1>1, <1>2 DEF InStep

(* Steps that leave the sessions of reports and what they write alone *)
LEMMA KeepSame ==
  ASSUME KeepInv, BookInv', Fits', UNCHANGED <<rep, book, logged, acked, hurt, up>>,
         results \subseteq results', gave \subseteq gave',
         \A t \in queue' \ queue : t \in Tasks /\ \A i \in Boxes(t) : <<t, i>> \notin gave
  PROVE  KeepInv'
<1>1. Packaged'
  BY DEF KeepInv, Packaged
<1>2. ASSUME NEW p \in Reporters, NEW t \in queue' \ queue, NEW i \in Boxes(t), NEW k \in Nat,
             k <= Len(rep[p].batch)
      PROVE  \A j \in 1 .. k : ~About(rep[p].batch[j], t, i)
  <2>1. Len(rep[p].batch) \in Nat
    BY DEF KeepInv, Packaged, InStep
  <2>2. \A j \in 1 .. k : Reportable(rep[p].batch[j], gave)
    BY <1>2, <2>1 DEF KeepInv, Packaged, BookInv, Reports
  <2>q. QED
    BY <1>2, <2>2 DEF Reportable, About
<1>3. Followed'
  <2> SUFFICES ASSUME NEW p \in Reporters, NEW t \in Tasks, NEW i \in Boxes(t),
                      <<t, i>> \notin hurt
               PROVE  Follows(rep[p], t, i, book[t].stat[i], logged[t].stat[i])'
    BY DEF Followed
  <2>1. Follows(rep[p], t, i, book[t].stat[i], logged[t].stat[i])
    BY DEF KeepInv, Followed
  <2>2. CASE t \in queue \/ t \notin queue'
    BY <2>1, <2>2 DEF Follows
  <2>3. CASE t \in queue' \ queue
    <3>1. Applied(rep[p]) \in Nat /\ Applied(rep[p]) <= Len(rep[p].batch)
      BY Places
    <3>2. Says(book[t].stat[i], rep[p].batch, Applied(rep[p]), t, i)
      BY <1>2, <2>3, <3>1 DEF Says
    <3>q. QED
      BY <2>1, <3>2 DEF Follows
  <2>q. QED
    BY <2>2, <2>3
<1>4. Untouched'
  BY DEF KeepInv, Untouched
<1>5. Kept'
  <2> SUFFICES ASSUME NEW t \in Tasks, NEW i \in Boxes(t), ~Pending(t, i, results'),
                      <<t, i>> \notin hurt
               PROVE  /\ t \in queue' => book[t].stat[i] = acked[t][i]
                      /\ logged[t].stat[i] = acked[t][i]
    BY DEF Kept
  <2>1. ~Pending(t, i, results)
    BY DEF Pending
  <2>2. CASE t \in queue \/ t \notin queue'
    BY <2>1, <2>2 DEF KeepInv, Kept
  <2>3. CASE t \in queue' \ queue
    BY <2>1, <2>3 DEF KeepInv, Kept, Untouched
  <2>q. QED
    BY <2>2, <2>3
<1>q. QED
  BY <1>1, <1>3, <1>4, <1>5 DEF KeepInv

LEMMA OtherKeep ==
  ASSUME KeepInv, BookInv',
         \/ \E t \in Tasks : Handover(t) \/ Finish(t) \/ StopTask(t) \/ StopSession(t)
         \/ \E s \in Sessions : Answering(s)
         \/ \E t \in Tasks : \E i \in Boxes(t), k \in Kinds : Deliver(t, i, k)
         \/ UNCHANGED vars
  PROVE  KeepInv'
<1>1. /\ UNCHANGED <<rep, book, logged, acked, hurt, up>>
      /\ results \subseteq results' /\ gave \subseteq gave'
  <2>1. ASSUME NEW t \in Tasks, Handover(t)
        PROVE  UNCHANGED <<rep, book, logged, acked, hurt, up, results, gave>>
    BY <2>1 DEF Handover, Refused, Known, Go, Receive, Broken, Received, AddTask, NoAnswer,
                diskVars, listVars, engVars, histVars
  <2>2. ASSUME NEW t \in Tasks, Finish(t) \/ StopTask(t) \/ StopSession(t)
        PROVE  UNCHANGED <<rep, book, logged, acked, hurt, up, results, gave>>
    BY <2>2 DEF Finish, StopTask, StopSession, StopMove, StopTold, diskVars, listVars,
                engVars, histVars
  <2>3. ASSUME NEW s \in Sessions, HandOut(s)
        PROVE  UNCHANGED <<rep, book, logged, acked, hurt, up, results>> /\ gave \subseteq gave'
    BY <2>3 DEF HandOut, diskVars
  <2>6. ASSUME NEW s \in Sessions,
               (\E t \in Tasks : Ask(s, t)) \/ Look(s) \/ NextRound(s) \/ EndSession(s)
        PROVE  UNCHANGED <<rep, book, logged, acked, hurt, up, results, gave>>
    BY <2>6 DEF Ask, Look, NextRound, EndSession, diskVars, engVars, histVars
  <2>4. ASSUME NEW t \in Tasks, NEW i \in Boxes(t), NEW k \in Kinds, Deliver(t, i, k)
        PROVE  /\ UNCHANGED <<rep, book, logged, acked, hurt, up, gave>>
               /\ results \subseteq results'
    BY <2>4 DEF Deliver, diskVars, listVars, histVars
  <2>5. CASE UNCHANGED vars
    BY <2>5 DEF vars, diskVars, listVars, engVars, histVars
  <2>q. QED
    BY <2>1, <2>2, <2>3, <2>4, <2>5, <2>6 DEF Answering
<1>2. CASE UNCHANGED list /\ queue' \subseteq queue
  <2>1. Fits'
    BY <1>2 DEF KeepInv, Fits
  <2>q. QED
    BY <1>1, <1>2, <2>1, KeepSame
<1>3. ASSUME NEW t \in Tasks, AddTask(t) PROVE KeepInv'
  <2>1. Shape /\ recv[t] = "read" /\ queue' = queue \cup {t} /\ list' = [list EXCEPT ![t] = file[t]]
    BY <1>3 DEF AddTask, KeepInv, BookInv, FileInv
  <2>2. \A i \in Boxes(t) : <<t, i>> \notin gave
    BY <2>1 DEF KeepInv, BookInv, FileInv, Receiving, Begun
  <2>3. file[t] <= Size[t]
    BY <2>1, SizeNat DEF Shape
  <2>4. Fits'
    BY <2>1, <2>3 DEF KeepInv, Fits, Shape
  <2>q. QED
    BY <1>1, <2>1, <2>2, <2>4, KeepSame
<1>4. \/ \E t \in Tasks : AddTask(t)
      \/ UNCHANGED list /\ queue' \subseteq queue
  <2>1. ASSUME NEW t \in Tasks, Handover(t)
        PROVE  AddTask(t) \/ (UNCHANGED list /\ queue' \subseteq queue)
    BY <2>1 DEF Handover, Refused, Known, Go, Receive, Broken, Received, NoAnswer, listVars
  <2>2. ASSUME NEW s \in Sessions, Answering(s)
        PROVE  UNCHANGED list /\ queue' \subseteq queue
    BY <2>2 DEF Answering, Ask, Look, HandOut, NextRound, EndSession
  <2>3. ASSUME NEW t \in Tasks, Finish(t) \/ StopTask(t) \/ StopSession(t)
        PROVE  UNCHANGED list /\ queue' \subseteq queue
    BY <2>3 DEF Finish, StopTask, StopSession, StopMove, StopTold, listVars
  <2>4. ASSUME NEW t \in Tasks, NEW i \in Boxes(t), NEW k \in Kinds, Deliver(t, i, k)
        PROVE  UNCHANGED list /\ queue' \subseteq queue
    BY <2>4 DEF Deliver, listVars
  <2>5. CASE UNCHANGED vars
    BY <2>5 DEF vars, listVars
  <2>q. QED
    BY <2>1, <2>2, <2>3, <2>4, <2>5
<1>q. QED
  BY <1>2, <1>3, <1>4

LEMMA RemoveKeep ==
  ASSUME KeepInv, BookInv', NEW t \in Tasks, Remove(t)
  PROVE  KeepInv'
<1>1. /\ queue' = queue \ {t} /\ book' = [book EXCEPT ![t] = Blank(t)]
      /\ list' = [list EXCEPT ![t] = 0]
      /\ UNCHANGED <<rep, logged, acked, hurt, up, results, gave>>
  BY DEF Remove, diskVars, engVars, histVars
<1>2. DOMAIN book = Tasks /\ list \in [Tasks -> Int] /\ queue \subseteq Tasks
  BY DEF KeepInv, BookInv, FileInv, Shape, Books, AllSound
<1>3. \A u \in Tasks : u # t => book'[u] = book[u] /\ list'[u] = list[u]
  BY <1>1, <1>2
<1>4. \A i \in Boxes(t) : book'[t].stat[i] = "new"
  BY <1>1, <1>2 DEF Blank
<1>5. Packaged'
  BY <1>1 DEF KeepInv, Packaged
<1>6. Followed'
  <2> SUFFICES ASSUME NEW p \in Reporters, NEW u \in Tasks, NEW i \in Boxes(u),
                      <<u, i>> \notin hurt
               PROVE  Follows(rep[p], u, i, book[u].stat[i], logged[u].stat[i])'
    BY <1>1 DEF Followed
  <2>1. Follows(rep[p], u, i, book[u].stat[i], logged[u].stat[i])
    BY DEF KeepInv, Followed
  <2>2. CASE u = t
    BY <1>1, <2>1, <2>2 DEF Follows
  <2>3. CASE u # t
    BY <1>1, <1>3, <2>1, <2>3 DEF Follows
  <2>q. QED
    BY <2>2, <2>3
<1>7. Untouched'
  BY <1>1, <1>3, <1>4 DEF KeepInv, Untouched
<1>8. Kept'
  BY <1>1, <1>3 DEF KeepInv, Kept
<1>9. Fits'
  BY <1>1, <1>2, <1>3 DEF KeepInv, Fits
<1>q. QED
  BY <1>5, <1>6, <1>7, <1>8, <1>9 DEF KeepInv

LEMMA CrashKeep ==
  ASSUME KeepInv, BookInv', Crash
  PROVE  KeepInv'
<1>1. /\ queue' = {} /\ book' = [t \in Tasks |-> Blank(t)]
      /\ rep' = [p \in Reporters |-> Quiet]
      /\ UNCHANGED <<results, logged, gave, acked, hurt>>
  BY DEF Crash, diskVars, engVars, histVars
<1>2. Packaged'
  BY <1>1, QuietStep DEF Packaged, Apart
<1>3. Followed'
  BY <1>1, QuietStep, SaysNone DEF Followed, Follows
<1>4. \A t \in Tasks : \A i \in Boxes(t) : book'[t].stat[i] = "new"
  BY <1>1 DEF Blank
<1>5. Untouched' /\ Kept' /\ Fits'
  BY <1>1, <1>4 DEF KeepInv, Untouched, Kept, Fits
<1>q. QED
  BY <1>2, <1>3, <1>5 DEF KeepInv

LEMMA RecoverKeep ==
  ASSUME KeepInv, BookInv', RunRecover
  PROVE  KeepInv'
<1> DEFINE read == {t \in Tasks : file[t] >= 0}
<1>1. /\ ~up /\ queue' = read
      /\ list' = [t \in Tasks |-> IF t \in read THEN file[t] ELSE 0]
      /\ book' = [t \in Tasks |-> IF t \in read THEN logged[t] ELSE Blank(t)]
      /\ UNCHANGED <<results, rep, logged, gave, acked, hurt>>
  BY DEF RunRecover, Recovered, engVars
<1>2. Packaged'
  BY <1>1 DEF KeepInv, Packaged
<1>3. ASSUME NEW p \in Reporters
      PROVE  Applied(rep[p]) = 0 /\ Written(rep[p]) = 0
  <2>1. Len(rep[p].batch) = 0
    BY <1>1 DEF KeepInv, Packaged
  <2>q. QED
    BY <2>1, Places
<1>4. Followed'
  BY <1>1, <1>3, SaysNone DEF Followed, Follows
<1>5. \A t \in Tasks : \A i \in Boxes(t) :
        /\ t \in read => book'[t].stat[i] = logged[t].stat[i]
        /\ t \notin read => book'[t].stat[i] = "new"
  BY <1>1 DEF Blank
<1>6. Untouched' /\ Kept'
  BY <1>1, <1>5 DEF KeepInv, Untouched, Kept
<1>7. Fits'
  <2>1. \A t \in Tasks : file[t] <= Size[t]
    BY SizeNat DEF KeepInv, BookInv, FileInv, Shape
  <2>q. QED
    BY <1>1, <2>1 DEF Fits
<1>q. QED
  BY <1>2, <1>4, <1>6, <1>7 DEF KeepInv
LEMMA PackageKeep ==
  ASSUME KeepInv, BookInv', NEW p \in Reporters, NEW B \in Packages, Package(p, B)
  PROVE  KeepInv'
<1> DEFINE x == [pc |-> "batch", batch |-> B, todo |-> B, line |-> <<>>]
           now == {B[j] : j \in 1 .. Len(B)}
           others == UNION {InBatch(q) : q \in Reporters \ {p}}
<1>1. /\ rep' = [rep EXCEPT ![p] = x] /\ up /\ now \cap others = {}
      /\ hurt' = hurt \cup (Boxed(now) \cap Boxed(others))
      /\ UNCHANGED <<results, book, logged, gave, acked, up, queue, list>>
  BY DEF Package, diskVars, listVars, engVars
<1>2. Len(B) \in Nat /\ \A j \in 1 .. Len(B) : B[j] \in results
  <2>1. PICK n \in 1 .. MaxBatch : B \in [1 .. n -> results]
    BY DEF Packages
  <2>2. n \in Nat
    BY <2>1, RecoverAssumption
  <2>q. QED
    BY <2>1, <2>2
<1>3. /\ rep'[p] = x /\ x.batch = B /\ \A q \in Reporters : q # p => rep'[q] = rep[q]
  BY <1>1 DEF KeepInv, BookInv, InHand
<1>4. InStep(x) /\ Applied(x) = 0 /\ Written(x) = 0
  <2>1. Len(x.line) = 0 /\ x.todo = B
    OBVIOUS
  <2>2. Applied(x) = 0 /\ Written(x) = 0
    BY <1>2, <2>1 DEF Applied, Written
  <2>q. QED
    BY <1>2, <2>2 DEF InStep
<1> HIDE DEF x
<1>5. ASSUME NEW q \in Reporters \ {p}
      PROVE  Apart(B, rep[q].batch, hurt') /\ Apart(rep[q].batch, B, hurt')
  <2>1. ASSUME NEW j \in 1 .. Len(B), NEW h \in 1 .. Len(rep[q].batch)
        PROVE  /\ B[j] # rep[q].batch[h]
               /\ B[j][1] = rep[q].batch[h][1] /\ B[j][2] = rep[q].batch[h][2] =>
                    <<B[j][1], B[j][2]>> \in hurt'
    <3>1. B[j] \in now
      OBVIOUS
    <3>2. rep[q].batch[h] \in others
      BY DEF InBatch
    <3>3. /\ <<B[j][1], B[j][2]>> \in Boxed(now)
          /\ <<rep[q].batch[h][1], rep[q].batch[h][2]>> \in Boxed(others)
      <4> HIDE DEF now, others
      <4>q. QED
        BY <3>1, <3>2 DEF Boxed
    <3> HIDE DEF now, others
    <3>q. QED
      BY <1>1, <3>1, <3>2, <3>3
  <2>q. QED
    BY <2>1 DEF Apart
<1> HIDE DEF now, others
<1>6. hurt \subseteq hurt'
  BY <1>1
<1>7. Packaged'
  <2>1. ASSUME NEW q \in Reporters
        PROVE  /\ InStep(rep'[q])
               /\ \A j \in 1 .. Len(rep'[q].batch) : rep'[q].batch[j] \in results
    BY <1>2, <1>3, <1>4 DEF KeepInv, Packaged
  <2>2. ASSUME NEW q \in Reporters, NEW o \in Reporters \ {q}
        PROVE  Apart(rep'[q].batch, rep'[o].batch, hurt')
    <3>1. CASE q = p \/ o = p
      BY <1>3, <1>5, <3>1
    <3>2. CASE q # p /\ o # p
      <4>1. Apart(rep[q].batch, rep[o].batch, hurt)
        BY DEF KeepInv, Packaged
      <4>2. rep'[q].batch = rep[q].batch /\ rep'[o].batch = rep[o].batch
        BY <1>3, <3>2
      <4>3. Apart(rep[q].batch, rep[o].batch, hurt')
        BY <1>6, <4>1 DEF Apart
      <4>q. QED
        BY <4>2, <4>3
    <3>q. QED
      BY <3>1, <3>2
  <2>q. QED
    BY <1>1, <2>1, <2>2 DEF Packaged
<1>8. Followed'
  <2> SUFFICES ASSUME NEW q \in Reporters, NEW t \in Tasks, NEW i \in Boxes(t),
                      <<t, i>> \notin hurt'
               PROVE  Follows(rep[q], t, i, book[t].stat[i], logged[t].stat[i])'
    BY DEF Followed
  <2>1. CASE q = p
    BY <1>3, <1>4, <2>1, SaysNone DEF Follows
  <2>2. CASE q # p
    <3>1. Follows(rep[q], t, i, book[t].stat[i], logged[t].stat[i])
      BY <1>6 DEF KeepInv, Followed
    <3>q. QED
      BY <1>1, <1>3, <2>2, <3>1 DEF Follows
  <2>q. QED
    BY <2>1, <2>2
<1>9. Untouched' /\ Kept' /\ Fits'
  BY <1>1, <1>6 DEF KeepInv, Untouched, Kept, Fits
<1>q. QED
  BY <1>7, <1>8, <1>9 DEF KeepInv

(* What a session does to a mailbox that is not noted in hurt, no other     *)
(* session has said anything about.                                         *)
LEMMA OnlyOne ==
  ASSUME KeepInv, NEW p \in Reporters, NEW q \in Reporters, p # q,
         NEW t \in Tasks, NEW i \in Boxes(t), <<t, i>> \notin hurt,
         NEW j \in 1 .. Len(rep[p].batch), About(rep[p].batch[j], t, i)
  PROVE  \A s : Says(s, rep[q].batch, Applied(rep[q]), t, i)
                /\ Says(s, rep[q].batch, Written(rep[q]), t, i)
<1>1. Apart(rep[p].batch, rep[q].batch, hurt)
  BY DEF KeepInv, Packaged
<1>2. \A h \in 1 .. Len(rep[q].batch) : ~About(rep[q].batch[h], t, i)
  BY <1>1 DEF Apart, About
<1>3. /\ Applied(rep[q]) \in Nat /\ Written(rep[q]) \in Nat /\ Len(rep[q].batch) \in Nat
      /\ Applied(rep[q]) <= Len(rep[q].batch) /\ Written(rep[q]) <= Applied(rep[q])
  <2>1. /\ Applied(rep[q]) \in Nat /\ Written(rep[q]) \in Nat /\ Len(rep[q].batch) \in Nat
        /\ Len(rep[q].line) \in Nat
        /\ Applied(rep[q]) <= Len(rep[q].batch)
        /\ Written(rep[q]) + Len(rep[q].line) = Applied(rep[q])
    BY Places
  <2>q. QED
    BY <2>1
<1>4. \A h \in 1 .. Applied(rep[q]) : h \in 1 .. Len(rep[q].batch)
  BY <1>3
<1>5. \A h \in 1 .. Written(rep[q]) : h \in 1 .. Len(rep[q].batch)
  BY <1>3
<1>q. QED
  BY <1>2, <1>4, <1>5 DEF Says
LEMMA PackagedSame ==
  ASSUME Packaged, \A p \in Reporters : InStep(rep'[p]),
         \A p \in Reporters : rep'[p].batch = rep[p].batch,
         results' = results, up' = up, hurt \subseteq hurt'
  PROVE  Packaged'
<1>1. ASSUME NEW p \in Reporters, NEW q \in Reporters \ {p}
      PROVE  Apart(rep'[p].batch, rep'[q].batch, hurt')
  <2>1. Apart(rep[p].batch, rep[q].batch, hurt)
    BY DEF Packaged
  <2>2. Apart(rep[p].batch, rep[q].batch, hurt')
    BY <2>1 DEF Apart
  <2>3. rep'[p].batch = rep[p].batch /\ rep'[q].batch = rep[q].batch
    OBVIOUS
  <2>q. QED
    BY <2>2, <2>3
<1>2. ASSUME NEW p \in Reporters
      PROVE  /\ \A j \in 1 .. Len(rep'[p].batch) : rep'[p].batch[j] \in results'
             /\ ~up' => rep'[p].batch = <<>>
  <2>1. /\ \A j \in 1 .. Len(rep[p].batch) : rep[p].batch[j] \in results
        /\ ~up => rep[p].batch = <<>>
    BY DEF Packaged
  <2>2. rep'[p].batch = rep[p].batch
    OBVIOUS
  <2>q. QED
    BY <2>1, <2>2
<1>q. QED
  BY <1>1, <1>2 DEF Packaged

LEMMA ReportKeep ==
  ASSUME KeepInv, BookInv', NEW p \in Reporters, Report(p)
  PROVE  KeepInv'
<1> DEFINE r == rep[p].todo[1]
           b == r[1] \in queue
           k == Applied(rep[p])
<1>1. /\ rep[p].pc = "batch" /\ rep[p].todo # <<>>
      /\ rep' = [rep EXCEPT ![p].todo = Tail(rep[p].todo),
                            ![p].line = Append(rep[p].line, [what |-> r, found |-> b])]
      /\ book' = IF b THEN [book EXCEPT ![r[1]] = Changed(book[r[1]], r[2], StatusOf(r[3]))]
                      ELSE book
      /\ UNCHANGED <<results, logged, gave, acked, hurt, up, queue, list>>
  BY DEF Report, diskVars, engVars, histVars
<1>2. /\ DOMAIN rep = Reporters /\ DOMAIN rep[p] = {"pc", "batch", "todo", "line"}
      /\ TodoIn(rep[p].todo, gave) /\ LineIn(rep[p].line, gave) /\ InStep(rep[p])
  BY DEF KeepInv, Packaged, BookInv, InHand
<1>3. /\ rep'[p].pc = rep[p].pc /\ rep'[p].batch = rep[p].batch
      /\ rep'[p].todo = Tail(rep[p].todo)
      /\ rep'[p].line = Append(rep[p].line, [what |-> r, found |-> b])
      /\ \A q \in Reporters : q # p => rep'[q] = rep[q]
  <2> DEFINE y == Tail(rep[p].todo)
             z == Append(rep[p].line, [what |-> r, found |-> b])
  <2> HIDE DEF y, z
  <2>1. rep' = [rep EXCEPT ![p] = [rep[p] EXCEPT !.todo = y, !.line = z]]
    BY <1>1, <1>2 DEF y, z
  <2>2. /\ rep'[p].pc = rep[p].pc /\ rep'[p].batch = rep[p].batch
        /\ rep'[p].todo = y /\ rep'[p].line = z
        /\ \A q \in Reporters : q # p => rep'[q] = rep[q]
    BY <1>2, <2>1
  <2>q. QED
    BY <2>2 DEF y, z
<1>4. /\ InStep(rep'[p]) /\ Applied(rep'[p]) = k + 1 /\ Written(rep'[p]) = Written(rep[p])
      /\ k + 1 \in 1 .. Len(rep[p].batch) /\ rep[p].batch[k + 1] = r
  <2>1. b \in BOOLEAN
    OBVIOUS
  <2> HIDE DEF b
  <2>q. QED
    BY <1>1, <1>2, <1>3, <2>1, StepReport
<1>5. k \in Nat
  BY Places
<1> HIDE DEF k
<1>6. \A q \in Reporters : rep'[q].batch = rep[q].batch
  BY <1>3
<1>7. Packaged'
  <2>1. \A q \in Reporters : InStep(rep'[q])
    BY <1>3, <1>4 DEF KeepInv, Packaged
  <2>q. QED
    BY <1>1, <1>6, <2>1, PackagedSame DEF KeepInv
<1> HIDE DEF r
<1>8. r \in results /\ Reportable(r, gave)
  BY <1>4 DEF KeepInv, Packaged, BookInv, Reports
<1>9. ASSUME NEW t \in Tasks, NEW i \in Boxes(t)
      PROVE  book'[t].stat[i] =
               IF About(r, t, i) /\ t \in queue THEN StatusOf(r[3]) ELSE book[t].stat[i]
  <2>1. DOMAIN book = Tasks /\ book[t].stat \in [Boxes(t) -> Status] /\ r[1] \in Tasks
    BY <1>8 DEF KeepInv, BookInv, Books, AllSound, Sound, Reportable
  <2>2. CASE ~b
    BY <1>1, <2>2 DEF About
  <2>3. CASE b /\ r[1] # t
    BY <1>1, <2>1, <2>3 DEF About
  <2>4. CASE b /\ r[1] = t
    <3>1. book'[t] = Changed(book[t], r[2], StatusOf(r[3]))
      BY <1>1, <2>1, <2>4
    <3>2. book'[t].stat = [book[t].stat EXCEPT ![r[2]] = StatusOf(r[3])]
      BY <3>1 DEF Changed
    <3>q. QED
      BY <2>1, <2>4, <3>2 DEF About
  <2>q. QED
    BY <2>2, <2>3, <2>4
<1>10. Followed'
  <2> SUFFICES ASSUME NEW q \in Reporters, NEW t \in Tasks, NEW i \in Boxes(t),
                      <<t, i>> \notin hurt
               PROVE  Follows(rep[q], t, i, book[t].stat[i], logged[t].stat[i])'
    BY <1>1 DEF Followed
  <2>1. Follows(rep[q], t, i, book[t].stat[i], logged[t].stat[i])
    BY DEF KeepInv, Followed
  <2>2. CASE q = p
    <3>1. Says(logged'[t].stat[i], rep'[p].batch, Written(rep'[p]), t, i)
      BY <1>1, <1>3, <1>4, <2>1, <2>2 DEF Follows
    <3>2. ASSUME t \in queue PROVE Says(book'[t].stat[i], rep'[p].batch, Applied(rep'[p]), t, i)
      <4>1. Says(book[t].stat[i], rep[p].batch, k, t, i)
        BY <2>1, <2>2, <3>2 DEF Follows, k
      <4>2. book'[t].stat[i] = IF About(rep[p].batch[k + 1], t, i)
                               THEN StatusOf(rep[p].batch[k + 1][3]) ELSE book[t].stat[i]
        BY <1>4, <1>9, <3>2
      <4>3. Says(book'[t].stat[i], rep[p].batch, k + 1, t, i)
        BY <1>5, <4>1, <4>2, SaysNext
      <4>q. QED
        BY <1>3, <1>4, <4>3
    <3>q. QED
      BY <1>1, <2>2, <3>1, <3>2 DEF Follows
  <2>3. CASE q # p
    <3>1. CASE ~About(r, t, i)
      <4>1. book'[t].stat[i] = book[t].stat[i]
        BY <1>9, <3>1
      <4>q. QED
        BY <1>1, <1>3, <2>1, <2>3, <4>1 DEF Follows
    <3>2. CASE About(r, t, i)
      <4>1. \A s : /\ Says(s, rep[q].batch, Applied(rep[q]), t, i)
                   /\ Says(s, rep[q].batch, Written(rep[q]), t, i)
        BY <1>4, <2>3, <3>2, OnlyOne
      <4>q. QED
        BY <1>3, <2>3, <4>1 DEF Follows
    <3>q. QED
      BY <3>1, <3>2
  <2>q. QED
    BY <2>2, <2>3
<1>11. Untouched'
  <2>1. \A t \in Tasks : \A i \in Boxes(t) : <<t, i>> \notin gave => ~About(r, t, i)
    BY <1>8 DEF Reportable, About
  <2>q. QED
    BY <1>1, <1>9, <2>1 DEF KeepInv, Untouched
<1>12. Kept'
  <2>1. \A t \in Tasks : \A i \in Boxes(t) : ~Pending(t, i, results) => ~About(r, t, i)
    BY <1>8 DEF Pending
  <2>q. QED
    BY <1>1, <1>9, <2>1 DEF KeepInv, Kept
<1>13. Fits'
  BY <1>1 DEF KeepInv, Fits
<1>q. QED
  BY <1>7, <1>10, <1>11, <1>12, <1>13 DEF KeepInv

LEMMA LogKeep ==
  ASSUME KeepInv, BookInv', NEW p \in Reporters, LogPart(p) \/ LogRest(p)
  PROVE  KeepInv'
<1> DEFINE line == rep[p].line
           B == rep[p].batch
           m == Written(rep[p])
           k == Applied(rep[p])
<1>1. /\ logged' = Replayed(logged, line) /\ hurt' = hurt \cup Boxed(Unread(line))
      /\ UNCHANGED <<results, book, gave, acked, up, queue, list>>
  BY DEF LogPart, LogRest, WriteLine, listVars, engVars
<1>2. /\ DOMAIN rep = Reporters /\ DOMAIN rep[p] = {"pc", "batch", "todo", "line"}
      /\ TodoIn(rep[p].todo, gave) /\ LineIn(line, gave) /\ InStep(rep[p])
      /\ AllSound(logged, gave)
  BY DEF KeepInv, Packaged, BookInv, InHand, Books
<1>3. /\ rep'[p].batch = B /\ rep'[p].todo = rep[p].todo /\ rep'[p].line = <<>>
      /\ rep'[p].pc \in {"batch", "answer"} /\ (rep'[p].pc = "answer" => rep[p].todo = <<>>)
      /\ \A q \in Reporters : q # p => rep'[q] = rep[q]
  <2>1. CASE LogPart(p)
    <3>1. rep' = [rep EXCEPT ![p] = [rep[p] EXCEPT !.line = <<>>]] /\ rep[p].pc = "batch"
      BY <1>2, <2>1 DEF LogPart
    <3>q. QED
      BY <1>2, <3>1
  <2>2. CASE LogRest(p)
    <3>1. /\ rep' = [rep EXCEPT ![p] = [rep[p] EXCEPT !.pc = "answer", !.line = <<>>]]
          /\ rep[p].todo = <<>>
      BY <1>2, <2>2 DEF LogRest
    <3>q. QED
      BY <1>2, <3>1
  <2>q. QED
    BY <2>1, <2>2
<1>4. InStep(rep'[p]) /\ Applied(rep'[p]) = k /\ Written(rep'[p]) = k
  BY <1>2, <1>3, StepLog
<1>5. /\ m \in Nat /\ k \in Nat /\ Len(line) \in Nat /\ Len(B) \in Nat
      /\ m + Len(line) = k /\ k <= Len(B)
  BY Places
<1>6. \A j \in 1 .. Len(line) : line[j].what = B[m + j] /\ m + j \in 1 .. Len(B)
  <2>1. \A j \in 1 .. Len(line) : m + j \in 1 .. Len(B)
    <3> DEFINE n == Len(line)
               c == Len(B)
    <3>1. m \in Nat /\ n \in Nat /\ c \in Nat /\ m + n <= c
      BY <1>5
    <3> HIDE DEF n, c, m
    <3>2. \A j \in 1 .. n : m + j \in 1 .. c
      BY <3>1
    <3>q. QED
      BY <3>2 DEF n, c
  <2>q. QED
    BY <1>2, <2>1 DEF InStep
<1> HIDE DEF line, B, m, k
<1>7. hurt \subseteq hurt' /\ \A q \in Reporters : rep'[q].batch = rep[q].batch
  BY <1>1, <1>3 DEF B
<1>8. Packaged'
  <2>1. \A q \in Reporters : InStep(rep'[q])
    BY <1>3, <1>4 DEF KeepInv, Packaged
  <2>q. QED
    BY <1>1, <1>7, <2>1, PackagedSame DEF KeepInv
<1>9. ASSUME NEW t \in Tasks, NEW i \in Boxes(t),
             \A j \in 1 .. Len(line) : ~About(line[j].what, t, i)
      PROVE  logged'[t].stat[i] = logged[t].stat[i]
  <2>1. Replayed(logged, line)[t].stat[i] = logged[t].stat[i]
    <3>1. AllSound(logged, gave) /\ LineIn(line, gave)
      BY <1>2
    <3>2. NoneAbout(line, t, i)
      BY <1>9 DEF NoneAbout
    <3>q. QED
      BY <3>1, <3>2, ReplayedSame
  <2>q. QED
    BY <1>1, <2>1
<1>10. ASSUME NEW t \in Tasks, NEW i \in Boxes(t), <<t, i>> \notin hurt'
       PROVE  Says(logged'[t].stat[i], B, k, t, i)
  <2> SUFFICES ASSUME NEW j \in 1 .. k, About(B[j], t, i),
                      \A h \in 1 .. k : h > j => ~About(B[h], t, i)
               PROVE  logged'[t].stat[i] = StatusOf(B[j][3])
    BY DEF Says
  <2>0. \A g \in 1 .. Len(line) : m + g \in 1 .. k
    <3> DEFINE n == Len(line)
    <3>1. m \in Nat /\ n \in Nat /\ m + n = k
      BY <1>5
    <3> HIDE DEF n
    <3>2. \A g \in 1 .. n : m + g \in 1 .. k
      BY <3>1
    <3>q. QED
      BY <3>2 DEF n
  <2>1. CASE j <= m
    <3>1. j \in 1 .. m /\ \A h \in 1 .. m : h \in 1 .. k
      <4>1. m <= k
        BY <1>5
      <4>q. QED
        BY <1>5, <2>1, <4>1
    <3>2. ASSUME NEW g \in 1 .. Len(line) PROVE ~About(line[g].what, t, i)
      <4>1. m + g \in 1 .. k /\ m + g > j
        BY <1>5, <2>0, <2>1
      <4>q. QED
        BY <1>6, <4>1
    <3>3. logged'[t].stat[i] = logged[t].stat[i]
      BY <1>9, <3>2
    <3>4. Says(logged[t].stat[i], B, m, t, i)
      BY <1>7, <1>10 DEF KeepInv, Followed, Follows, B, m
    <3>q. QED
      BY <3>1, <3>3, <3>4 DEF Says
  <2>2. CASE j > m
    <3> DEFINE g == j - m
    <3>1. g \in 1 .. Len(line) /\ m + g = j
      <4> DEFINE n == Len(line)
      <4>1. m \in Nat /\ n \in Nat /\ k \in Nat /\ m + n = k
        BY <1>5
      <4> HIDE DEF n
      <4>2. g \in 1 .. n /\ m + g = j
        BY <2>2, <4>1
      <4>q. QED
        BY <4>2 DEF n
    <3> HIDE DEF g
    <3>2. line[g].what = B[j]
      BY <1>6, <3>1
    <3>3. ASSUME NEW h \in 1 .. Len(line), h > g PROVE ~About(line[h].what, t, i)
      <4>1. m + h \in 1 .. k /\ m + h > j
        BY <1>5, <2>0, <3>1, <3>3
      <4>q. QED
        BY <1>6, <4>1
    <3>4. <<t, i>> \notin Boxed(Unread(line))
      BY <1>1, <1>10
    <3>5. Replayed(logged, line)[t].stat[i] = StatusOf(line[g].what[3])
      <4>1. LineSays(Replayed(logged, line)[t].stat[i], line, t, i)
        BY <1>2, <3>4, ReplayedStat
      <4>q. QED
        BY <3>1, <3>2, <3>3, <4>1 DEF LineSays
    <3>q. QED
      BY <1>1, <3>2, <3>5
  <2>q. QED
    BY <1>5, <2>1, <2>2
<1>11. Followed'
  <2> SUFFICES ASSUME NEW q \in Reporters, NEW t \in Tasks, NEW i \in Boxes(t),
                      <<t, i>> \notin hurt'
               PROVE  Follows(rep[q], t, i, book[t].stat[i], logged[t].stat[i])'
    BY DEF Followed
  <2>1. Follows(rep[q], t, i, book[t].stat[i], logged[t].stat[i])
    BY <1>7 DEF KeepInv, Followed
  <2>2. CASE q = p
    <3>1. Says(logged'[t].stat[i], B, k, t, i)
      BY <1>10
    <3>q. QED
      BY <1>1, <1>3, <1>4, <2>1, <2>2, <3>1 DEF Follows, B, k
  <2>3. CASE q # p
    <3>1. CASE \A j \in 1 .. Len(line) : ~About(line[j].what, t, i)
      <4>1. logged'[t].stat[i] = logged[t].stat[i]
        BY <1>9, <3>1
      <4>q. QED
        BY <1>1, <1>3, <2>1, <2>3, <4>1 DEF Follows
    <3>2. CASE \E j \in 1 .. Len(line) : About(line[j].what, t, i)
      <4>1. \E j \in 1 .. Len(rep[p].batch) : About(rep[p].batch[j], t, i)
        BY <1>6, <3>2 DEF B
      <4>2. \A s : /\ Says(s, rep[q].batch, Applied(rep[q]), t, i)
                   /\ Says(s, rep[q].batch, Written(rep[q]), t, i)
        BY <1>7, <2>3, <4>1, OnlyOne
      <4>q. QED
        BY <1>3, <2>3, <4>2 DEF Follows
    <3>q. QED
      BY <3>1, <3>2
  <2>q. QED
    BY <2>2, <2>3
<1>12. \A j \in 1 .. Len(line) : line[j].what \in results
  BY <1>6 DEF KeepInv, Packaged, B
<1>13. Untouched'
  <2>1. ASSUME NEW t \in Tasks, NEW i \in Boxes(t), <<t, i>> \notin gave
        PROVE  logged'[t].stat[i] = "new"
    <3>1. \A j \in 1 .. Len(line) : ~About(line[j].what, t, i)
      BY <1>12, <2>1 DEF KeepInv, BookInv, Reports, Reportable, About
    <3>q. QED
      BY <1>9, <2>1, <3>1 DEF KeepInv, Untouched
  <2>q. QED
    BY <1>1, <2>1 DEF KeepInv, Untouched
<1>14. Kept'
  <2>1. ASSUME NEW t \in Tasks, NEW i \in Boxes(t), ~Pending(t, i, results)
        PROVE  logged'[t].stat[i] = logged[t].stat[i]
    BY <1>9, <1>12, <2>1 DEF Pending
  <2>q. QED
    BY <1>1, <1>7, <2>1 DEF KeepInv, Kept
<1>15. Fits'
  BY <1>1 DEF KeepInv, Fits
<1>q. QED
  BY <1>8, <1>11, <1>13, <1>14, <1>15 DEF KeepInv
(* A package that is answered was applied and logged to its end. *)
LEMMA AnswerKeep ==
  ASSUME KeepInv, BookInv', NEW p \in Reporters, Answer(p)
  PROVE  KeepInv'
<1> DEFINE B == rep[p].batch
           last(t, i) == {j \in 1 .. Len(B) : B[j][1] = t /\ B[j][2] = i}
<1>1. /\ rep[p].pc = "answer" /\ rep' = [rep EXCEPT ![p] = Quiet]
      /\ results' = results \ InBatch(p)
      /\ acked' = [t \in Tasks |-> [i \in Boxes(t) |->
           IF last(t, i) = {} THEN acked[t][i]
           ELSE StatusOf(B[CHOOSE j \in last(t, i) : \A h \in last(t, i) : h <= j][3])]]
      /\ UNCHANGED <<book, logged, gave, hurt, up, queue, list>>
  BY DEF Answer, diskVars, listVars
<1>2. rep'[p] = Quiet /\ \A q \in Reporters : q # p => rep'[q] = rep[q]
  BY <1>1 DEF KeepInv, BookInv, InHand
<1>3. Len(B) \in Nat /\ Applied(rep[p]) = Len(B) /\ Written(rep[p]) = Len(B)
  <2>1. rep[p].todo = <<>> /\ rep[p].line = <<>>
    BY <1>1 DEF KeepInv, Packaged, InStep
  <2>2. Len(B) \in Nat /\ Len(rep[p].todo) = 0 /\ Len(rep[p].line) = 0
    BY <2>1, Places
  <2>q. QED
    BY <2>2 DEF Applied, Written
<1>4. InBatch(p) = {B[j] : j \in 1 .. Len(B)}
  BY DEF InBatch
<1>5. \A j \in 1 .. Len(B) : B[j] \in results /\ Reportable(B[j], gave)
  BY DEF KeepInv, Packaged, BookInv, Reports
<1>6. Packaged'
  <2>1. ASSUME NEW q \in Reporters
        PROVE  /\ InStep(rep'[q])
               /\ \A j \in 1 .. Len(rep'[q].batch) : rep'[q].batch[j] \in results'
               /\ ~up' => rep'[q].batch = <<>>
    <3>1. CASE q = p
      BY <1>2, <3>1, QuietStep
    <3>2. CASE q # p
      <4>1. /\ InStep(rep[q]) /\ Apart(rep[p].batch, rep[q].batch, hurt)
            /\ \A j \in 1 .. Len(rep[q].batch) : rep[q].batch[j] \in results
            /\ ~up => rep[q].batch = <<>>
        BY <3>2 DEF KeepInv, Packaged
      <4>2. \A j \in 1 .. Len(rep[q].batch) : rep[q].batch[j] \notin InBatch(p)
        BY <1>4, <4>1 DEF Apart
      <4>3. \A j \in 1 .. Len(rep[q].batch) : rep[q].batch[j] \in results'
        BY <1>1, <4>1, <4>2
      <4>4. rep'[q] = rep[q] /\ up' = up
        BY <1>1, <1>2, <3>2
      <4>q. QED
        BY <4>1, <4>3, <4>4
    <3>q. QED
      BY <3>1, <3>2
  <2>2. ASSUME NEW q \in Reporters, NEW o \in Reporters \ {q}
        PROVE  Apart(rep'[q].batch, rep'[o].batch, hurt')
    <3>1. CASE q = p \/ o = p
      BY <1>2, <3>1, QuietStep DEF Apart
    <3>2. CASE q # p /\ o # p
      <4>1. Apart(rep[q].batch, rep[o].batch, hurt)
        BY DEF KeepInv, Packaged
      <4>2. rep'[q] = rep[q] /\ rep'[o] = rep[o] /\ hurt' = hurt
        BY <1>1, <1>2, <3>2
      <4>q. QED
        BY <4>1, <4>2
    <3>q. QED
      BY <3>1, <3>2
  <2>q. QED
    BY <2>1, <2>2 DEF Packaged
<1>7. Followed'
  <2> SUFFICES ASSUME NEW q \in Reporters, NEW t \in Tasks, NEW i \in Boxes(t),
                      <<t, i>> \notin hurt
               PROVE  Follows(rep[q], t, i, book[t].stat[i], logged[t].stat[i])'
    BY <1>1 DEF Followed
  <2>1. CASE q = p
    BY <1>2, <2>1, QuietStep, SaysNone DEF Follows
  <2>2. CASE q # p
    <3>1. Follows(rep[q], t, i, book[t].stat[i], logged[t].stat[i])
      BY DEF KeepInv, Followed
    <3>2. rep'[q] = rep[q] /\ UNCHANGED <<book, logged, queue>>
      BY <1>1, <1>2, <2>2
    <3>q. QED
      BY <3>1, <3>2 DEF Follows
  <2>q. QED
    BY <2>1, <2>2
<1>8. ASSUME NEW t \in Tasks, NEW i \in Boxes(t), \A j \in 1 .. Len(B) : ~About(B[j], t, i)
      PROVE  acked'[t][i] = acked[t][i]
  <2>1. last(t, i) = {}
    BY <1>8 DEF About
  <2>q. QED
    BY <1>1, <2>1
<1>9. ASSUME NEW t \in Tasks, NEW i \in Boxes(t), \E j \in 1 .. Len(B) : About(B[j], t, i),
             NEW s, Says(s, B, Len(B), t, i)
      PROVE  acked'[t][i] = s
  <2> DEFINE L == last(t, i)
             j == CHOOSE g \in L : \A h \in L : h <= g
  <2>1. L # {} /\ L \subseteq 1 .. Len(B) /\ \A g \in 1 .. Len(B) : g \in L <=> About(B[g], t, i)
    BY <1>9 DEF About
  <2>2. acked'[t][i] = StatusOf(B[j][3])
    BY <1>1, <2>1
  <2> HIDE DEF L
  <2>3. \E g \in L : \A h \in L : h <= g
    BY <1>3, <2>1, Greatest
  <2>4. j \in L /\ \A h \in L : h <= j
    BY <2>3, Zenon
  <2> HIDE DEF j
  <2>5. j \in 1 .. Len(B) /\ About(B[j], t, i)
    BY <2>1, <2>4
  <2>6. ASSUME NEW h \in 1 .. Len(B), h > j PROVE ~About(B[h], t, i)
    BY <1>3, <2>1, <2>4, <2>5, <2>6
  <2>7. s = StatusOf(B[j][3])
    BY <1>9, <2>5, <2>6 DEF Says
  <2>q. QED
    BY <2>2, <2>7
<1>10. Untouched'
  <2>1. ASSUME NEW t \in Tasks, NEW i \in Boxes(t), <<t, i>> \notin gave
        PROVE  acked'[t][i] = acked[t][i]
    <3>1. \A j \in 1 .. Len(B) : ~About(B[j], t, i)
      BY <1>5, <2>1 DEF Reportable, About
    <3>q. QED
      BY <1>8, <3>1
  <2>2. UNCHANGED <<book, logged, gave>>
    BY <1>1
  <2>q. QED
    BY <2>1, <2>2 DEF KeepInv, Untouched
<1>11. Kept'
  <2> SUFFICES ASSUME NEW t \in Tasks, NEW i \in Boxes(t), ~Pending(t, i, results'),
                      <<t, i>> \notin hurt
               PROVE  /\ t \in queue => book[t].stat[i] = acked'[t][i]
                      /\ logged[t].stat[i] = acked'[t][i]
    <3>1. UNCHANGED <<book, logged, queue, hurt>>
      BY <1>1
    <3>q. QED
      BY <3>1 DEF Kept
  <2>1. CASE \A j \in 1 .. Len(B) : ~About(B[j], t, i)
    <3>1. ~Pending(t, i, results)
      BY <1>1, <1>4, <2>1 DEF Pending
    <3>2. acked'[t][i] = acked[t][i]
      BY <1>8, <2>1
    <3>q. QED
      BY <3>1, <3>2 DEF KeepInv, Kept
  <2>2. CASE \E j \in 1 .. Len(B) : About(B[j], t, i)
    <3>1. /\ t \in queue => Says(book[t].stat[i], B, Len(B), t, i)
          /\ Says(logged[t].stat[i], B, Len(B), t, i)
      BY <1>3 DEF KeepInv, Followed, Follows
    <3>q. QED
      BY <1>9, <2>2, <3>1
  <2>q. QED
    BY <2>1, <2>2
<1>12. Fits'
  BY <1>1 DEF KeepInv, Fits
<1>q. QED
  BY <1>6, <1>7, <1>10, <1>11, <1>12 DEF KeepInv

LEMMA KeepNext == KeepInv /\ [Next]_vars => KeepInv'
<1> SUFFICES ASSUME KeepInv, [Next]_vars PROVE KeepInv'
  OBVIOUS
<1>1. BookInv'
  BY BookNext DEF KeepInv
<1>2. CASE \/ \E t \in Tasks : Handover(t) \/ Finish(t) \/ StopTask(t) \/ StopSession(t)
           \/ \E s \in Sessions : Answering(s)
           \/ \E t \in Tasks : \E i \in Boxes(t), k \in Kinds : Deliver(t, i, k)
           \/ UNCHANGED vars
  BY <1>1, <1>2, OtherKeep
<1>6. CASE \E t \in Tasks : Remove(t)
  BY <1>1, <1>6, RemoveKeep
<1>3. CASE \E p \in Reporters : Reporting(p) \/ \E B \in Packages : Package(p, B)
  BY <1>1, <1>3, ReportKeep, LogKeep, AnswerKeep, PackageKeep DEF Reporting
<1>4. CASE Crash
  BY <1>1, <1>4, CrashKeep
<1>5. CASE RunRecover
  BY <1>1, <1>5, RecoverKeep
<1>q. QED
  BY <1>2, <1>3, <1>4, <1>5, <1>6 DEF Next

(* A result that was answered to its engine, which then forgets it, is the  *)
(* status in the list, in this process and in one that recovers from the    *)
(* log at any point; except where a later result is on its way, or the log  *)
(* does not give the result back (hurt).                                    *)
THEOREM AnswersAreKept == Spec => []AnsweredKept
<1>1. Init => KeepInv
  BY KeepInit
<1>2. KeepInv /\ [Next]_vars => KeepInv'
  BY KeepNext
<1>3. KeepInv => AnsweredKept
  <2> SUFFICES ASSUME KeepInv, NEW t \in queue, NEW i \in 1 .. list[t],
                      <<t, i>> \notin Boxed(results), <<t, i>> \notin hurt
               PROVE  book[t].stat[i] = acked[t][i]
    BY DEF AnsweredKept
  <2>1. t \in Tasks /\ list[t] \in Int /\ list[t] <= Size[t] /\ Size[t] \in Nat
    BY SizeNat DEF KeepInv, BookInv, FileInv, Shape, Fits
  <2>2. i \in Boxes(t)
    BY <2>1 DEF Boxes
  <2>3. ~Pending(t, i, results)
    BY DEF Pending, About, Boxed
  <2>q. QED
    BY <2>1, <2>2, <2>3 DEF KeepInv, Kept
<1>q. QED
  BY <1>1, <1>2, <1>3, PTL DEF Spec
=============================================================================
