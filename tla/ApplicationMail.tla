----------------------------- MODULE ApplicationMail -----------------------------
(***************************************************************************)
(* The applications API and the Celery pool together: the signals of the   *)
(* one append to the log from which the other takes its tasks, and the     *)
(* tasks load the rows that the handlers write.  Without admin edits a     *)
(* request hands over one task at most, so the bound on requests is the    *)
(* bound on the log.                                                       *)
(***************************************************************************)
EXTENDS NotificationTasks

CONSTANTS Workers, Candidates, Jobs, Notes, Blank, None  \* of Applications

VARIABLES
  job, row, issued, pc, kind, pk, obj, cascade, accepted,  \* of Applications
  shown                       \* history: every status an application has had

Web == INSTANCE Applications WITH AppIds <- Apps, MaxRequests <- MaxLog, AdminEditing <- FALSE

ASSUME MailAssumption ==
  /\ Blank \in Notes
  /\ None \notin Web!Row /\ None \notin Apps /\ None \notin Web!Workflow!Application
  /\ Apps \cap Jobs = {}

webvars == <<job, row, issued, pc, kind, pk, obj, cascade, accepted, shown>>
allvars == <<world, tvars, webvars>>

MailInit == Web!Init /\ TInit /\ live = {} /\ shown = {}

WebActs(A) ==
  /\ A
  /\ live' = {a \in Apps : row'[a] # None}
  /\ shown' = shown \cup {<<a, row'[a].status>> : a \in live'}
  /\ UNCHANGED tvars

PoolActs(A) == A /\ UNCHANGED webvars

MailNext == WebActs(Web!Next) \/ PoolActs(TaskStep)

MailSpec == MailInit /\ [][MailNext]_allvars

\* A process of the pool that is not killed finishes its task; compose restarts
\* Redis, so a task that stays in the queue is taken once Redis is back.
MailFairSpec ==
  /\ MailSpec
  /\ \A i \in Tasks : WF_allvars(PoolActs(Run(i))) /\ SF_allvars(PoolActs(Take(i)))
  /\ WF_allvars(WebActs(~broker /\ Web!BrokerToggles))

--------------------------------------------------------------------------------
MailTypeOK == Web!TypeOK /\ TTypeOK

(* The web process is an environment the tasks are specified for: it only adds to
   the end of the log, and never more than the tasks are prepared for. *)
PoolIsAComponent == TSpec

\* The handler that sent the signal is still there to write the status.
StillToWrite(a, s) ==
  \E w \in Workers : pc[w] = "signalled" /\ pk[w] = a /\ obj[w].status = s

(* Notify the candidate when the application's status changes: a Notification may be
   ahead of the UPDATE of a handler that still runs, but otherwise it is about a
   status the row has had. *)
NoticesAreTrue ==
  \A i \in 1..Len(log) :
    notices[i] = 1 /\ log[i].task = "status" =>
      \/ <<log[i].app, log[i].new>> \in shown
      \/ StillToWrite(log[i].app, log[i].new)
================================================================================
