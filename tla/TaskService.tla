------------------------------ MODULE TaskService -----------------------------
(***************************************************************************)
(* What a thread pool promises, without threads, locks or wakeups: tasks   *)
(* are begun once, in the order they came, and all of them end; a service  *)
(* that is closed takes no task, and is down only when everything it ever  *)
(* took has ended.                                                         *)
(***************************************************************************)
EXTENDS Integers

VARIABLES
  accepted,  \* tasks 1..accepted have come
  begun,     \* tasks 1..begun have begun
  ended,     \* the tasks that have ended
  phase      \* "open", "closing" or "down"
vars == <<accepted, begun, ended, phase>>

TypeOK ==
  /\ accepted \in Nat /\ begun \in 0..accepted
  /\ ended \subseteq 1..begun
  /\ phase \in {"open", "closing", "down"}

Init == accepted = 0 /\ begun = 0 /\ ended = {} /\ phase = "open"

Accept ==
  /\ phase = "open" /\ accepted' = accepted + 1
  /\ UNCHANGED <<begun, ended, phase>>

Begin ==
  /\ begun < accepted /\ begun' = begun + 1
  /\ UNCHANGED <<accepted, ended, phase>>

End(t) ==
  /\ ended' = ended \cup {t}
  /\ UNCHANGED <<accepted, begun, phase>>

Close ==
  /\ phase = "open" /\ phase' = "closing"
  /\ UNCHANGED <<accepted, begun, ended>>

GoDown ==
  /\ phase = "closing" /\ ended = 1..accepted /\ phase' = "down"
  /\ UNCHANGED <<accepted, begun, ended>>

Next == Accept \/ Begin \/ Close \/ GoDown \/ \E t \in 1..begun \ ended : End(t)
Spec == Init /\ [][Next]_vars

FairSpec ==
  /\ Spec
  /\ WF_vars(Begin)
  /\ WF_vars(\E t \in 1..begun \ ended : End(t))
  /\ WF_vars(GoDown)
===============================================================================
