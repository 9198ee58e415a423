-------------------------- MODULE StopNotify_proofs --------------------------
(* Proofs about StopNotify, for any number of tasks, engines and slots. *)
EXTENDS StopNotify, TLAPS

(* TypeOK is not inductive alone: a message is filled from the table. *)
PendingIsTask == \A i \in Slots : table[i].pending => table[i].sid \in Tasks

(* A stop is pending, in a message or known only once its session is done. *)
Entered ==
  \A t \in Tasks :
    stage[t] # "entered" =>
      Waiting(t) = {} /\ Sending(t) = {} /\ Knowing(t) = {}

StopInv == TypeOK /\ PendingIsTask /\ AnnouncedOnce /\ Entered

LEMMA StopInit == Init => StopInv
<1> SUFFICES ASSUME Init PROVE StopInv
  OBVIOUS
<1>1. TypeOK /\ PendingIsTask
  BY StopAssumption DEF Init, TypeOK, PendingIsTask, Slots, Entry, Start
<1>2. \A t \in Tasks : Waiting(t) = {} /\ Sending(t) = {} /\ Knowing(t) = {}
  BY DEF Init, Waiting, Sending, Knowing
<1>q. QED
  BY <1>1, <1>2 DEF StopInv, AnnouncedOnce, Entered

LEMMA TypeNext ==
  TypeOK /\ PendingIsTask /\ [Next]_vars => TypeOK' /\ PendingIsTask'
<1> SUFFICES ASSUME TypeOK, PendingIsTask, [Next]_vars
             PROVE  TypeOK' /\ PendingIsTask'
  OBVIOUS
<1> USE DEF TypeOK, PendingIsTask
<1>0. CASE UNCHANGED vars
  BY <1>0 DEF vars
<1>1. ASSUME NEW t \in Tasks, StopTask(t) \/ AnswerStop(t)
      PROVE  TypeOK' /\ PendingIsTask'
  BY <1>1 DEF StopTask, AnswerStop
<1>2. ASSUME NEW t \in Tasks, NEW i \in Slots, EnterStop(t, i)
      PROVE  TypeOK' /\ PendingIsTask'
  <2>1. [time |-> now, sid |-> t, pending |-> TRUE] \in Entry
    BY StopAssumption DEF Entry, Start
  <2>2. size' \in 0 .. MaxStop - 1
    BY <1>2, StopAssumption DEF EnterStop
  <2>q. QED
    BY <1>2, <2>1, <2>2 DEF EnterStop
<1>3. ASSUME NEW e \in Engines, Collect(e)
      PROVE  TypeOK' /\ PendingIsTask'
  <2>1. \A i \in Slots : LET f == [table[i] EXCEPT !.pending = FALSE]
                         IN  f \in Entry /\ ~f.pending
    BY DEF Entry
  <2>2. table' \in [Slots -> Entry]
    BY <1>3, <2>1 DEF Collect
  <2>3. PendingIsTask'
    BY <1>3, <2>1 DEF Collect
  <2>4. \A i \in Pending : table[i].sid \in Tasks
    BY DEF Pending
  <2>5. PICK took \in SUBSET Pending :
          msg' = [msg EXCEPT ![e] = {table[i].sid : i \in took}]
    BY <1>3 DEF Collect
  <2>6. {table[i].sid : i \in took} \subseteq Tasks
    BY <2>4
  <2>7. msg' \in [Engines -> SUBSET Tasks]
    BY <2>5, <2>6
  <2>8. UNCHANGED <<stage, size, now, told, fails>>
    BY <1>3 DEF Collect
  <2>q. QED
    BY <2>2, <2>3, <2>7, <2>8
<1>4. ASSUME NEW e \in Engines, Notify(e) \/ NotifyFail(e)
      PROVE  TypeOK' /\ PendingIsTask'
  BY <1>4, StopAssumption DEF Notify, NotifyFail
<1>5. CASE Tick
  BY <1>5, StopAssumption DEF Tick, Start
<1>q. QED
  BY <1>0, <1>1, <1>2, <1>3, <1>4, <1>5
    DEF Next, StopSession, EnterAny, Session

(* What a collection moves from the table into a message. *)
LEMMA CollectMoves ==
  ASSUME TypeOK, NEW e \in Engines, Collect(e), NEW t \in Tasks
  PROVE  /\ Waiting(t)' \subseteq Waiting(t)
         /\ Sending(t)' \subseteq Sending(t) \cup {e}
         /\ e \in Sending(t)' => \E i \in Waiting(t) : i \notin Waiting(t)'
<1>1. PICK took \in SUBSET Pending :
        /\ msg' = [msg EXCEPT ![e] = {table[i].sid : i \in took}]
        /\ table' = [i \in Slots |->
             IF i \in took THEN [table[i] EXCEPT !.pending = FALSE] ELSE table[i]]
  BY DEF Collect
<1>2. \A i \in took : i \in Slots /\ table[i].pending /\ ~table'[i].pending
  BY <1>1 DEF Pending, TypeOK, Entry
<1>3. \A i \in Slots \ took : table'[i] = table[i]
  BY <1>1
<1>4. Waiting(t)' = Waiting(t) \ took
  BY <1>2, <1>3 DEF Waiting
<1>5. /\ msg'[e] = {table[i].sid : i \in took}
      /\ \A d \in Engines \ {e} : msg'[d] = msg[d]
  BY <1>1 DEF TypeOK
<1>6. Sending(t)' \subseteq Sending(t) \cup {e}
  BY <1>5 DEF Sending
<1>7. ASSUME e \in Sending(t)'
      PROVE  \E i \in Waiting(t) : i \notin Waiting(t)'
  <2>1. PICK i \in took : table[i].sid = t
    BY <1>5, <1>7 DEF Sending
  <2>q. QED
    BY <1>2, <1>4, <2>1 DEF Waiting
<1>q. QED
  BY <1>4, <1>6, <1>7

LEMMA OnceNext == StopInv /\ [Next]_vars => AnnouncedOnce' /\ Entered'
<1> SUFFICES ASSUME StopInv, [Next]_vars PROVE AnnouncedOnce' /\ Entered'
  OBVIOUS
<1> USE DEF StopInv
<1>0. ASSUME UNCHANGED <<table, msg, told>>,
             \A t \in Tasks : stage[t] = "entered" => stage'[t] = "entered"
      PROVE  AnnouncedOnce' /\ Entered'
  <2>1. \A t \in Tasks : /\ Waiting(t)' = Waiting(t)
                         /\ Sending(t)' = Sending(t)
                         /\ Knowing(t)' = Knowing(t)
    BY <1>0 DEF Waiting, Sending, Knowing
  <2>q. QED
    BY <1>0, <2>1 DEF AnnouncedOnce, Entered
<1>1. ASSUME NEW t \in Tasks, NEW i \in Slots, EnterStop(t, i)
      PROVE  AnnouncedOnce' /\ Entered'
  <2>1. \A s \in Tasks : Sending(s)' = Sending(s) /\ Knowing(s)' = Knowing(s)
    BY <1>1 DEF EnterStop, Sending, Knowing
  <2>2. /\ table'[i].sid = t
        /\ \A j \in Slots \ {i} : table'[j] = table[j]
    BY <1>1 DEF EnterStop, TypeOK
  <2>3. \A s \in Tasks \ {t} : Waiting(s)' \subseteq Waiting(s)
    BY <2>2 DEF Waiting
  <2>4. Waiting(t)' \subseteq Waiting(t) \cup {i}
    BY <2>2 DEF Waiting
  <2>5. Waiting(t) = {} /\ Sending(t) = {} /\ Knowing(t) = {}
    BY <1>1 DEF EnterStop, Entered
  <2>6. stage'[t] = "entered" /\ \A s \in Tasks \ {t} : stage'[s] = stage[s]
    BY <1>1 DEF EnterStop, TypeOK
  <2>7. AnnouncedOnce'
    <3> SUFFICES ASSUME NEW s \in Tasks
                 PROVE  /\ \A j, k \in Waiting(s)' : j = k
                        /\ \A d, e \in Sending(s)' \cup Knowing(s)' : d = e
                        /\ Waiting(s)' = {} \/ Sending(s)' \cup Knowing(s)' = {}
                        /\ Sending(s)' = {} \/ Knowing(s)' = {}
      BY DEF AnnouncedOnce
    <3>1. CASE s = t
      BY <2>1, <2>4, <2>5, <3>1
    <3>2. CASE s # t
      BY <2>1, <2>3, <3>2 DEF AnnouncedOnce
    <3>q. QED
      BY <3>1, <3>2
  <2>8. Entered'
    BY <2>1, <2>3, <2>6 DEF Entered
  <2>q. QED
    BY <2>7, <2>8
<1>2. ASSUME NEW e \in Engines, Collect(e)
      PROVE  AnnouncedOnce' /\ Entered'
  <2>1. ASSUME NEW t \in Tasks
        PROVE  /\ Knowing(t)' = Knowing(t)
               /\ Waiting(t)' \subseteq Waiting(t)
               /\ \/ Sending(t)' \subseteq Sending(t)
                  \/ /\ Sending(t) = {} /\ Knowing(t) = {} /\ Waiting(t)' = {}
                     /\ Sending(t)' \subseteq {e}
    <3>1. Knowing(t)' = Knowing(t)
      BY <1>2 DEF Collect, Knowing
    <3>2. CASE e \in Sending(t)'
      <4>1. PICK i \in Waiting(t) : i \notin Waiting(t)'
        BY <1>2, <3>2, CollectMoves
      <4>2. Waiting(t)' = {} /\ Sending(t) = {} /\ Knowing(t) = {}
        BY <1>2, <4>1, CollectMoves DEF AnnouncedOnce
      <4>q. QED
        BY <1>2, <3>1, <4>2, CollectMoves
    <3>3. CASE e \notin Sending(t)'
      BY <1>2, <3>1, <3>3, CollectMoves
    <3>q. QED
      BY <3>2, <3>3
  <2>2. \A t \in Tasks : Waiting(t) = {} => Sending(t)' \subseteq Sending(t)
    BY <1>2, CollectMoves
  <2>3. UNCHANGED stage
    BY <1>2 DEF Collect
  <2>4. AnnouncedOnce'
    BY <2>1 DEF AnnouncedOnce
  <2>5. Entered'
    BY <2>1, <2>2, <2>3 DEF Entered
  <2>q. QED
    BY <2>4, <2>5
<1>3. ASSUME NEW e \in Engines, Notify(e) \/ NotifyFail(e)
      PROVE  AnnouncedOnce' /\ Entered'
  <2>1. ASSUME NEW t \in Tasks
        PROVE  /\ Waiting(t)' = Waiting(t)
               /\ Sending(t)' = Sending(t) \ {e}
               /\ \/ Knowing(t)' = Knowing(t)
                  \/ e \in Sending(t) /\ Knowing(t)' = Knowing(t) \cup {e}
    BY <1>3 DEF Notify, NotifyFail, TypeOK, Waiting, Sending, Knowing
  <2>2. UNCHANGED stage
    BY <1>3 DEF Notify, NotifyFail
  <2>3. AnnouncedOnce'
    BY <2>1 DEF AnnouncedOnce
  <2>4. Entered'
    BY <2>1, <2>2 DEF Entered
  <2>q. QED
    BY <2>3, <2>4
<1>4. ASSUME NEW t \in Tasks, StopTask(t) \/ AnswerStop(t)
      PROVE  AnnouncedOnce' /\ Entered'
  BY <1>0, <1>4 DEF StopTask, AnswerStop, TypeOK
<1>5. CASE Tick \/ UNCHANGED vars
  BY <1>0, <1>5 DEF Tick, vars
<1>q. QED
  BY <1>1, <1>2, <1>3, <1>4, <1>5 DEF Next, StopSession, EnterAny, Session

(* Every stop is announced in at most one message, to at most one engine,   *)
(* because make_stop_delivery_notify marks what it takes under the lock and *)
(* a task's stop is entered once.                                           *)
THEOREM StopAnnouncedOnce == Spec => []AnnouncedOnce
<1>1. Init => StopInv
  BY StopInit
<1>2. StopInv /\ [Next]_vars => StopInv'
  BY TypeNext, OnceNext DEF StopInv
<1>3. StopInv => AnnouncedOnce
  BY DEF StopInv
<1>q. QED
  BY <1>1, <1>2, <1>3, PTL DEF Spec

(* A session tells an engine of a stop only once the dispatcher hands out   *)
(* no more mails of that task.                                              *)
THEOREM ToldAfterFinish == Spec => []ToldIsFinished
<1>1. StopInv => ToldIsFinished
  BY DEF StopInv, TypeOK, Entered, ToldIsFinished, Sending, Knowing
<1>2. Init => StopInv
  BY StopInit
<1>3. StopInv /\ [Next]_vars => StopInv'
  BY TypeNext, OnceNext DEF StopInv
<1>q. QED
  BY <1>1, <1>2, <1>3, PTL DEF Spec

(* The variables keep their types; size never passes the last but one slot. *)
THEOREM StopTypeCorrect == Spec => []TypeOK
<1>1. Init => TypeOK /\ PendingIsTask
  BY StopInit DEF StopInv
<1>2. TypeOK /\ PendingIsTask /\ [Next]_vars => TypeOK' /\ PendingIsTask'
  BY TypeNext
<1>q. QED
  BY <1>1, <1>2, PTL DEF Spec

(* Every step of the table, its sessions and the engines is a step of the   *)
(* abstract specification, or none.                                         *)
LEMMA OnceStep ==
  ASSUME StopInv, [Next]_vars
  PROVE  [Once!Next]_<<{t \in Tasks : stage[t] # "runs"}, told>>
<1> DEFINE ended == {t \in Tasks : stage[t] # "runs"}
<1>1. ASSUME NEW t \in Tasks, StopTask(t)
      PROVE  Once!End(t)
  <2>1. stage[t] = "runs" /\ stage' = [stage EXCEPT ![t] = "finished"] /\ told' = told
    BY <1>1 DEF StopTask
  <2>2. t \notin ended /\ ended' = ended \cup {t}
    BY <2>1 DEF StopInv, TypeOK
  <2>q. QED
    BY <2>1, <2>2 DEF Once!End
<1>2. ASSUME NEW t \in Tasks, StopSession(t)
      PROVE  UNCHANGED <<ended, told>>
  <2>1. told' = told /\ \E s : s # "runs" /\ stage' = [stage EXCEPT ![t] = s]
    BY <1>2 DEF StopSession, AnswerStop, EnterAny, EnterStop
  <2>2. stage[t] # "runs"
    BY <1>2 DEF StopSession, AnswerStop, EnterAny, EnterStop
  <2>q. QED
    BY <2>1, <2>2 DEF StopInv, TypeOK
<1>3. ASSUME NEW e \in Engines, Notify(e)
      PROVE  Once!Hear(e, msg[e])
  <2>1. msg[e] \subseteq Tasks /\ \A t \in msg[e] : e \in Sending(t)
    BY DEF StopInv, TypeOK, Sending
  <2>2. \A t \in msg[e] : Knowing(t) = {} /\ stage[t] = "entered"
    BY <2>1 DEF StopInv, AnnouncedOnce, Entered
  <2>3. \A d \in Engines, t \in msg[e] : <<d, t>> \notin told
    BY <2>2 DEF Knowing
  <2>4. told' = told \cup ({e} \X msg[e]) /\ UNCHANGED stage
    BY <1>3 DEF Notify
  <2>q. QED
    BY <2>1, <2>2, <2>3, <2>4 DEF Once!Hear
<1>4. ASSUME NEW e \in Engines, Collect(e) \/ NotifyFail(e)
      PROVE  UNCHANGED <<stage, told>>
  BY <1>4 DEF Collect, NotifyFail
<1>5. CASE Tick \/ UNCHANGED vars
  BY <1>5 DEF Tick, vars
<1>6. \A e \in Engines : msg[e] \in SUBSET Tasks
  BY DEF StopInv, TypeOK
<1>q. QED
  BY <1>1, <1>2, <1>3, <1>4, <1>5, <1>6 DEF Next, Session, Once!Next

(* The dispatcher's table of stops implements what the engines rely on: a   *)
(* stop is heard of once, by one engine, after the task ended.              *)
THEOREM StopsImplementOnce == Spec => ImplementsOnce
<1>1. Init => StopInv /\ Once!Init
  <2>1. Init => {t \in Tasks : stage[t] # "runs"} = {} /\ told = {}
    BY DEF Init
  <2>q. QED
    BY <2>1, StopInit DEF Once!Init
<1>2. StopInv /\ [Next]_vars => StopInv'
  BY TypeNext, OnceNext DEF StopInv
<1>3. StopInv /\ [Next]_vars => [Once!Next]_<<{t \in Tasks : stage[t] # "runs"}, told>>
  BY OnceStep
<1>q. QED
  BY <1>1, <1>2, <1>3, PTL DEF Spec, ImplementsOnce, Once!Spec

-----------------------------------------------------------------------------
(* As long as the table grows, the slots beyond size were never written. *)
Unused ==
  size < MaxStop - 1 => \A i \in Slots : size <= i => ~table[i].pending

LEMMA UnusedNext == TypeOK /\ Unused /\ [Next]_vars => Unused'
<1> SUFFICES ASSUME TypeOK, Unused, [Next]_vars PROVE Unused'
  OBVIOUS
<1>0. CASE UNCHANGED <<size, table>>
  BY <1>0 DEF Unused
<1>1. ASSUME NEW t \in Tasks, NEW i \in Slots, EnterStop(t, i)
      PROVE  Unused'
  <2>1. CASE size < MaxStop - 1
    <3>1. i = size /\ size' = size + 1 /\ size \in Nat
      BY <1>1, <2>1 DEF EnterStop, SlotFor, TypeOK
    <3>2. \A j \in Slots \ {i} : table'[j] = table[j]
      BY <1>1 DEF EnterStop, TypeOK
    <3>q. QED
      BY <2>1, <3>1, <3>2 DEF Unused, Slots
  <2>2. CASE ~(size < MaxStop - 1)
    BY <1>1, <2>2 DEF EnterStop, Unused
  <2>q. QED
    BY <2>1, <2>2
<1>2. ASSUME NEW e \in Engines, Collect(e)
      PROVE  Unused'
  <2>1. PICK took \in SUBSET Pending :
          table' = [i \in Slots |->
            IF i \in took THEN [table[i] EXCEPT !.pending = FALSE] ELSE table[i]]
    BY <1>2 DEF Collect
  <2>2. \A i \in Slots : ~table[i].pending => ~table'[i].pending
    BY <2>1 DEF TypeOK, Entry
  <2>q. QED
    BY <1>2, <2>2 DEF Collect, Unused
<1>q. QED
  BY <1>0, <1>1, <1>2 DEF Next, StopSession, EnterAny, Session, StopTask, AnswerStop,
    Notify, NotifyFail, Tick, vars

LEMMA FreshStep ==
  ASSUME TypeOK, Unused, [Next]_vars, NEW i \in Slots, table[i].pending, Fresh(i)
  PROVE  \/ table'[i] = table[i]
         \/ \E e \in Engines : table[i].sid \in msg'[e]
         \/ \A j \in Slots : ~Expired(j) /\ table[i].time <= table[j].time
<1>1. ASSUME NEW t \in Tasks, NEW k \in Slots, EnterStop(t, k), k = i
      PROVE  \A j \in Slots : ~Expired(j) /\ table[i].time <= table[j].time
  <2>1. ~(size < MaxStop - 1)
    BY <1>1 DEF EnterStop, SlotFor, Unused, TypeOK
  <2>2. ~Expired(i)
    BY StopAssumption DEF Fresh, Expired, TypeOK, Entry, Start
  <2>q. QED
    BY <1>1, <2>1, <2>2 DEF EnterStop, SlotFor, Oldest
<1>2. ASSUME NEW t \in Tasks, NEW k \in Slots, EnterStop(t, k), k # i
      PROVE  table'[i] = table[i]
  BY <1>2 DEF EnterStop, TypeOK
<1>3. ASSUME NEW e \in Engines, Collect(e)
      PROVE  table'[i] = table[i] \/ table[i].sid \in msg'[e]
  <2>1. PICK took \in SUBSET Pending :
          /\ msg' = [msg EXCEPT ![e] = {table[j].sid : j \in took}]
          /\ table' = [j \in Slots |->
               IF j \in took THEN [table[j] EXCEPT !.pending = FALSE] ELSE table[j]]
    BY <1>3 DEF Collect
  <2>2. CASE i \in took
    BY <2>1, <2>2 DEF TypeOK
  <2>3. CASE i \notin took
    BY <2>1, <2>3
  <2>q. QED
    BY <2>2, <2>3
<1>4. CASE UNCHANGED table
  BY <1>4
<1>q. QED
  BY <1>1, <1>2, <1>3, <1>4 DEF Next, StopSession, EnterAny, Session, StopTask,
    AnswerStop, Notify, NotifyFail, Tick, vars

(* The search for a slot in the STOP session never sacrifices a pending     *)
(* stop younger than Keep while an expired or an older entry exists.        *)
THEOREM FreshStopKept == Spec => FreshKept
<1>1. Init => TypeOK /\ PendingIsTask /\ Unused
  BY StopInit DEF StopInv, Init, Unused
<1>2. TypeOK /\ PendingIsTask /\ Unused /\ [Next]_vars
      => TypeOK' /\ PendingIsTask' /\ Unused'
  BY TypeNext, UnusedNext
<1>3. TypeOK /\ Unused /\ [Next]_vars =>
      [\A i \in Slots :
         table[i].pending /\ Fresh(i) =>
           \/ table'[i] = table[i]
           \/ \E e \in Engines : table[i].sid \in msg'[e]
           \/ \A j \in Slots : ~Expired(j) /\ table[i].time <= table[j].time]_vars
  BY FreshStep
<1>q. QED
  BY <1>1, <1>2, <1>3, PTL DEF Spec, FreshKept
=============================================================================
