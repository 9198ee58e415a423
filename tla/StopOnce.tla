------------------------------ MODULE StopOnce ------------------------------
(***************************************************************************)
(* What the engines may rely on about stops: a task ends once; only then   *)
(* may an engine hear of it, in a notification that names several tasks;   *)
(* and of all the engines one at most hears of it, once.                   *)
(*                                                                         *)
(* StopNotify implements this with its table, locks and messages, and      *)
(* DeliverEngine assumes it of the notifications it receives.              *)
(***************************************************************************)
CONSTANTS Tasks, Engines

VARIABLES
  ended,     \* tasks of which no more mails are handed out
  heard      \* <<e, t>>: engine e heard that t is stopped

Init == ended = {} /\ heard = {}

End(t) ==
  /\ t \notin ended
  /\ ended' = ended \cup {t}
  /\ UNCHANGED heard

Hear(e, S) ==
  /\ S \subseteq ended
  /\ \A d \in Engines, t \in S : <<d, t>> \notin heard
  /\ heard' = heard \cup ({e} \X S)
  /\ UNCHANGED ended

Next ==
  \/ \E t \in Tasks : End(t)
  \/ \E e \in Engines, S \in SUBSET Tasks : Hear(e, S)

Spec == Init /\ [][Next]_<<ended, heard>>
=============================================================================
