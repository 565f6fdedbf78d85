----------------------------- MODULE IssueBoard -----------------------------
(***************************************************************************)
(* What the board promises of an issue and its session: every change is    *)
(* one step, taken from what is there and not from what was read before.   *)
(* An issue is worked on or reviewed until it is completed, which ends a   *)
(* session that runs; a completed issue goes nowhere but to the backlog,   *)
(* and an issue in the backlog has no session that could complete it.      *)
(***************************************************************************)
VARIABLES
    issue,   \* the status of the issue
    session  \* the status of its session

Init == issue \in {"running", "review"} /\ session = "running"

Move ==
    /\ issue # "completed"
    /\ issue' \in {"running", "review"}
    /\ UNCHANGED session

Complete ==
    /\ issue \in {"running", "review"} /\ session # "deleted"
    /\ issue' = "completed"
    /\ session' = IF session = "running" THEN "closed" ELSE session

ReturnToBacklog ==
    /\ issue # "backlog"
    /\ issue' = "backlog" /\ session' = "deleted"

SessionEnds ==
    /\ session = "running" /\ session' = "stopped"
    /\ UNCHANGED issue

Next == Move \/ Complete \/ ReturnToBacklog \/ SessionEnds

Spec == Init /\ [][Next]_<<issue, session>>
=============================================================================
