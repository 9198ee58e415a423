----------------------------- MODULE MailStatus -----------------------------
(***************************************************************************)
(* What the dispatcher (service/maillist) makes of the report of an        *)
(* engine: the status byte of the mailbox and the counters of its list.    *)
(* Used by the sessions that receive reports (MailList) and by the replay  *)
(* of the log after a crash (Recover).                                     *)
(***************************************************************************)
EXTENDS Integers

(* A report gives a letter (success, delay, fail) and the text of the last  *)
(* answer.  Of the text counts whether it says that there is no such user,  *)
(* with or without a code ":5..", that the connection ("step 1--") or the   *)
(* domain ("Domain not exist") failed, that the mail is spam, and whether   *)
(* it has a bracket "[" in it.                                              *)
Letters == {"s", "d", "f"}
Texts   == {"nouser5", "nouser", "step1", "domain", "spam", "bracket", "other"}

(* The last byte of an entry of sOffsetList: D_MailList_... *)
Status == {"new", "success", "fail", "delay", "notfound", "dns", "spam"}

FailLike  == {"fail", "notfound", "spam"}
DelayLike == {"delay", "dns"}

One(b) == IF b THEN 1 ELSE 0

(* Fault: the old status is not taken back. *)
CountedTwice(c, old, new) ==
  [remain   |-> c.remain - One(new = "success"),
   success  |-> c.success + One(new = "success"),
   fail     |-> c.fail + One(new \in FailLike),
   delay    |-> c.delay + One(new \in DelayLike),
   notfound |-> c.notfound + One(new = "notfound"),
   dns      |-> c.dns + One(new = "dns"),
   spam     |-> c.spam + One(new = "spam")]

(* Fault: only a first result counts. *)
CountedFirst(c, old, new) ==
  [remain   |-> c.remain - One(new = "success" /\ old = "new"),
   success  |-> c.success + One(new = "success" /\ old = "new"),
   fail     |-> c.fail + One(new \in FailLike) - One(old \in FailLike),
   delay    |-> c.delay + One(new \in DelayLike) - One(old \in DelayLike),
   notfound |-> c.notfound + One(new = "notfound") - One(old = "notfound"),
   dns      |-> c.dns + One(new = "dns") - One(old = "dns"),
   spam     |-> c.spam + One(new = "spam") - One(old = "spam")]

(* The counters after a status change.  A success is taken back only by     *)
(* another success, and remain is never taken back.                         *)
Counted(c, old, new) ==
  [remain   |-> c.remain - One(new = "success"),
   success  |-> c.success + One(new = "success" /\ old # "success"),
   fail     |-> c.fail + One(new \in FailLike) - One(old \in FailLike),
   delay    |-> c.delay + One(new \in DelayLike) - One(old \in DelayLike),
   notfound |-> c.notfound + One(new = "notfound") - One(old = "notfound"),
   dns      |-> c.dns + One(new = "dns") - One(old = "dns"),
   spam     |-> c.spam + One(new = "spam") - One(old = "spam")]

(* What the text of a failure says, and the status otherwise *)
TextStat(text, otherwise) ==
  CASE text = "nouser5"            -> "notfound"
    [] text \in {"step1", "domain"} -> "dns"
    [] text = "spam"               -> "spam"
    [] OTHER                       -> otherwise

(* The status a report leads to; only the text tells a bounce from a delay  *)
(* when it is of a known kind.                                              *)
StatusOf(k) ==
  CASE k[1] = "s" -> "success"
    [] k[1] = "d" -> TextStat(k[2], "delay")
    [] k[1] = "f" -> TextStat(k[2], "fail")
=============================================================================
