--------------------------- MODULE ApplicationWorkflow ---------------------------
(***************************************************************************)
(* What the applications API promises, with every operation in one step:   *)
(* a candidate has at most one application to a job, its status only moves *)
(* along the edges of the state machine, and applications disappear only   *)
(* together (with their job), never to return under the same id.           *)
(***************************************************************************)
EXTENDS ApplicationStates

CONSTANTS
  AppIds,   \* the identities of applications
  Keys,     \* the (job, applicant) pairs
  None      \* no application

VARIABLES
  app,      \* app[a]: the key and the status of a, or None
  used      \* the identities that have been given out

wvars == <<app, used>>

Application == [key : Keys, status : Status]

WInit == app = [a \in AppIds |-> None] /\ used = {}

(* A candidate applies to a job for the first time. *)
Submit(a, k) ==
  /\ a \notin used
  /\ \A b \in AppIds : app[b] # None => app[b].key # k
  /\ app' = [app EXCEPT ![a] = [key |-> k, status |-> "applied"]]
  /\ used' = used \cup {a}

(* A recruiter's decision, or the candidate's withdrawal. *)
Move(a, s) ==
  /\ app[a] # None
  /\ LegalMove(app[a].status, s)
  /\ app' = [app EXCEPT ![a].status = s]
  /\ UNCHANGED used

(* A job goes, and takes its applications along. *)
Remove(gone) ==
  /\ app' = [a \in AppIds |-> IF a \in gone THEN None ELSE app[a]]
  /\ UNCHANGED used

WNext ==
  \/ \E a \in AppIds, k \in Keys : Submit(a, k)
  \/ \E a \in AppIds, s \in Status : Move(a, s)
  \/ \E gone \in SUBSET AppIds : Remove(gone)

WSpec == WInit /\ [][WNext]_wvars

WTypeOK == app \in [AppIds -> Application \cup {None}] /\ used \subseteq AppIds
================================================================================
