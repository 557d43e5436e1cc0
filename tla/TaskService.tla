---------------------------- MODULE TaskService ----------------------------
(***************************************************************************)
(* What the pod promises about background tasks, whatever threads carry    *)
(* them out: a task is accepted or refused once, an accepted task is begun *)
(* at most once, and a begun task ends at most once, complete or failed.   *)
(* Dispatcher.tla is shown to implement this module.                       *)
(***************************************************************************)
CONSTANT Task           \* the tasks handlers may ask for

VARIABLE status         \* status[t]: how far task t has got

Status == {"new", "refused", "accepted", "running", "complete", "failed"}

Init == status = [t \in Task |-> "new"]

Move(t, from, to) ==
  /\ status[t] = from
  /\ status' = [status EXCEPT ![t] = to]

Accept(t) == Move(t, "new", "accepted")

Refuse(t) == Move(t, "new", "refused")

Begin(t) == Move(t, "accepted", "running")

End(t) ==
  \/ Move(t, "running", "complete")
  \/ Move(t, "running", "failed")

Next == \E t \in Task : Accept(t) \/ Refuse(t) \/ Begin(t) \/ End(t)

Spec == Init /\ [][Next]_status

Ended(t) == status[t] \in {"complete", "failed"}

(* Every task a handler got an id for is eventually worked off.            *)
AcceptedTasksEnd == \A t \in Task : status[t] = "accepted" ~> Ended(t)
=============================================================================
