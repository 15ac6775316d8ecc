--------------------------- MODULE ApplicationStates ---------------------------
(***************************************************************************)
(* The hiring pipeline of one application: the values of                   *)
(* Application.Status and the two tables that say which changes the API    *)
(* accepts (apps/applications/models.py).                                  *)
(***************************************************************************)

Status == {"applied", "reviewing", "shortlisted", "interview", "offered",
           "rejected", "withdrawn"}

\* What a recruiter may choose next.  A status that is missing has no successor.
VALID_TRANSITIONS ==
  [applied     |-> {"reviewing", "rejected"},
   reviewing   |-> {"shortlisted", "rejected"},
   shortlisted |-> {"interview", "rejected"},
   interview   |-> {"offered", "rejected"},
   offered     |-> {"rejected"}]

\* VALID_TRANSITIONS.get(status, set())
NextStatuses(s) ==
  IF s \in DOMAIN VALID_TRANSITIONS THEN VALID_TRANSITIONS[s] ELSE {}

\* From where the candidate may withdraw.
WITHDRAWABLE_STATUSES == {"applied", "reviewing", "shortlisted", "interview"}

\* A change the documented state machine has an edge for.
LegalMove(old, new) ==
  \/ new \in NextStatuses(old)
  \/ new = "withdrawn" /\ old \in WITHDRAWABLE_STATUSES
================================================================================
