------------------------------ MODULE Applications ------------------------------
(***************************************************************************)
(* The applications API of HireFlow over its PostgreSQL tables.            *)
(*                                                                         *)
(* Each gunicorn worker answers one request at a time.  There is no        *)
(* ATOMIC_REQUESTS and no explicit transaction in these handlers, so every *)
(* query is a step of its own: a handler loads a model instance (obj),     *)
(* validates what it loaded, lets the pre_save signal re-read the row and  *)
(* queue an e-mail task, and only then runs its UPDATE.  Other workers may *)
(* run between any two of these steps.                                     *)
(***************************************************************************)
EXTENDS ApplicationStates, Naturals, Sequences

CONSTANTS
  Workers,       \* gunicorn worker processes
  Candidates,    \* users with role "candidate"
  Jobs,          \* job listings
  AppIds,        \* primary keys (uuid4) applications may get
  Notes,         \* values of recruiter_notes
  Blank,         \* the default of recruiter_notes, ""
  None,          \* no row, no instance, no key
  MaxRequests,   \* bound: requests accepted in one behaviour
  AdminEditing   \* whether staff save the admin site's change page of applications

Row == [job : Jobs, applicant : Candidates, status : Status, notes : Notes]

ASSUME ConstantsAssumption ==
  /\ Blank \in Notes
  /\ None \notin Row /\ None \notin AppIds
  /\ AppIds \cap Jobs = {}
  /\ MaxRequests \in Nat
  /\ AdminEditing \in BOOLEAN

VARIABLES
  job,        \* job[j]: open (published, its deadline not passed), shut, or deleted
  row,        \* row[a]: the committed row of application a, or None
  issued,     \* the ids some INSERT has used: a uuid is never drawn twice
  log,        \* the tasks handed to the Celery broker, in order
  broker,     \* whether Redis, which is the broker and the Django cache, answers
  pc,         \* pc[w]: how far worker w is with its request, or how it answered
  kind,       \* kind[w]: the handler
  pk,         \* pk[w]: the application, or the job to delete, it is about
  obj,        \* obj[w]: the model instance in the worker's memory
  cascade,    \* cascade[w]: rows deleted by w's transaction, not yet committed
  accepted    \* requests accepted so far

db == <<job, row, issued>>
local == <<kind, pk, obj>>
vars == <<job, row, issued, log, broker, pc, kind, pk, obj, cascade, accepted>>

JobStates == {"open", "shut", "deleted"}
Kinds == {"none", "create", "withdraw", "patch", "patch_notes", "admin", "delete_job"}

\* How a request ends: 201, 200 (or 204), 400, 404, 500.
Answered == {"idle", "created", "saved", "refused", "missing", "failed"}
InFlight == {"validated", "checked", "inserted", "loaded", "signalled", "deleting"}

Message == [task : {"received", "status"}, app : AppIds, old : Status, new : Status]

\* The row of a is deleted by an open transaction: writers of it wait.
Locked(a) == \E w \in Workers : a \in cascade[w]

\* Mutant: a withdrawn application does not count.
ActiveRivals(a, r) ==
  {b \in AppIds \ {a} :
     /\ row[b] # None
     /\ row[b].job = r.job
     /\ row[b].applicant = r.applicant
     /\ row[b].status # "withdrawn"}

\* The other row with r's (job, applicant), which unique_together forbids.
Rivals(a, r) ==
  {b \in AppIds \ {a} :
     /\ row[b] # None
     /\ row[b].job = r.job
     /\ row[b].applicant = r.applicant}

\* Mutant: the foreign key to jobs without a database constraint.
JobUnconstrained(j) == TRUE

\* The foreign key of an application to job j holds.
JobExists(j) == job[j] # "deleted"

\* A task for application a that tells of status s has been handed to the broker.
Announced(a, s) ==
  \E i \in 1..Len(log) : log[i].task = "status" /\ log[i].app = a /\ log[i].new = s

Init ==
  /\ job = [j \in Jobs |-> "open"]
  /\ row = [a \in AppIds |-> None]
  /\ issued = {}
  /\ log = <<>>
  /\ broker = TRUE
  /\ pc = [w \in Workers |-> "idle"]
  /\ kind = [w \in Workers |-> "none"]
  /\ pk = [w \in Workers |-> None]
  /\ obj = [w \in Workers |-> None]
  /\ cascade = [w \in Workers |-> {}]
  /\ accepted = 0

--------------------------------------------------------------------------------
\* A free worker takes a request of kind k about i and gets as far as p.
Begin(w, k, i, o, p) ==
  /\ pc[w] \in Answered
  /\ accepted < MaxRequests
  /\ accepted' = accepted + 1
  /\ kind' = [kind EXCEPT ![w] = k]
  /\ pk' = [pk EXCEPT ![w] = i]
  /\ obj' = [obj EXCEPT ![w] = o]
  /\ pc' = [pc EXCEPT ![w] = p]

\* check_throttles, before the handler of an API view: the default throttles count the
\* request in the Django cache, by default the Redis that is the broker too.
ThrottlesAnswer == broker

(* The request ends there: too many of them (429), or an error of the cache (500). *)
TurnedAway(w) ==
  /\ Begin(w, "none", None, None, IF ThrottlesAnswer THEN "refused" ELSE "failed")
  /\ UNCHANGED <<db, log, broker, cascade>>

Goto(w, p) == pc' = [pc EXCEPT ![w] = p]

\* Mutant: the signal swallows the broker's error.
DelaySilently(w, msg, p) ==
  /\ log' = IF broker THEN Append(log, msg) ELSE log
  /\ Goto(w, p)

\* Mutant: the receiver is connected twice.
DelayTwice(w, msg, p) ==
  \/ /\ broker
     /\ log' = log \o <<msg, msg>>
     /\ Goto(w, p)
  \/ /\ ~broker
     /\ Goto(w, "failed")
     /\ UNCHANGED log

\* .delay(): the task is in the broker's queue, or the call raises and the
\* request ends in a 500.
Delay(w, msg, p) ==
  \/ /\ broker
     /\ log' = Append(log, msg)
     /\ Goto(w, p)
  \/ /\ ~broker
     /\ Goto(w, "failed")
     /\ UNCHANGED log

(* POST /api/applications/.  validate_job judges the job row it loaded. *)
ApplyValidateJob(w, c, j, a) ==
  /\ ThrottlesAnswer
  /\ a \notin issued
  /\ \A v \in Workers : pk[v] = a => pc[v] \in Answered
  /\ Begin(w, "create", a,
           [job |-> j, applicant |-> c, status |-> "applied", notes |-> Blank],
           IF job[j] = "open" THEN "validated" ELSE "refused")
  /\ UNCHANGED <<db, log, broker, cascade>>

(* validate: the exists() query for an earlier application of this user. *)
ApplyCheckDuplicate(w) ==
  /\ pc[w] = "validated"
  /\ Goto(w, IF Rivals(pk[w], obj[w]) = {} THEN "checked" ELSE "refused")
  /\ UNCHANGED <<db, log, broker, local, cascade, accepted>>

(* create: the INSERT.  The unique index waits for a rival row that is being
   deleted; a committed rival or a deleted job is an IntegrityError. *)
ApplyInsert(w) ==
  /\ pc[w] = "checked"
  /\ \A b \in Rivals(pk[w], obj[w]) : ~Locked(b)
  /\ IF Rivals(pk[w], obj[w]) = {} /\ JobExists(obj[w].job)
     THEN /\ row' = [row EXCEPT ![pk[w]] = obj[w]]
          /\ issued' = issued \cup {pk[w]}
          /\ Goto(w, "inserted")
     ELSE /\ Goto(w, "failed")
          /\ UNCHANGED <<row, issued>>
  /\ UNCHANGED <<job, log, broker, local, cascade, accepted>>

Received(a) == [task |-> "received", app |-> a, old |-> "applied", new |-> "applied"]

(* on_application_created, after the row is committed. *)
ApplyPostSave(w) ==
  /\ pc[w] = "inserted"
  /\ Delay(w, Received(pk[w]), "created")
  /\ UNCHANGED <<db, broker, local, cascade, accepted>>

(* DELETE /api/applications/{id}/ by its applicant: load, check, set. *)
Withdraw(w, a) ==
  /\ ThrottlesAnswer
  /\ a \in issued
  /\ LET r == row[a] IN
       IF r = None
       THEN Begin(w, "withdraw", a, None, "missing")
       ELSE IF r.status \in WITHDRAWABLE_STATUSES
            THEN Begin(w, "withdraw", a, [r EXCEPT !.status = "withdrawn"], "loaded")
            ELSE Begin(w, "withdraw", a, None, "refused")
  /\ UNCHANGED <<db, log, broker, cascade>>

\* Mutant: any change of status will do.
ValidateAnyChange(r, s) == s # r.status

\* validate_status, on the instance the view has loaded.
ValidateStatus(r, s) == s \in NextStatuses(r.status)

\* Mutant: the view assigns recruiter_notes whether or not the body has them.
NotesDefaulted(k, r, n) == n

\* Mutant: a body without recruiter_notes sets them to null.
NotesNulled(k, r, n) == IF k = "patch_notes" THEN n ELSE None

\* The notes of the instance, replaced when the body of the PATCH has some.
NotesOf(k, r, n) == IF k = "patch_notes" THEN n ELSE r.notes

(* PATCH /api/applications/{id}/status/ with status s and, in a patch_notes
   request, recruiter_notes n: load, validate_status on the loaded copy, set. *)
PatchStatus(w, a, s, k, n) ==
  /\ ThrottlesAnswer
  /\ a \in issued
  /\ LET r == row[a] IN
       IF r = None
       THEN Begin(w, k, a, None, "missing")
       ELSE IF ValidateStatus(r, s)
            THEN Begin(w, k, a, [r EXCEPT !.status = s, !.notes = NotesOf(k, r, n)],
                       "loaded")
            ELSE Begin(w, k, a, None, "refused")
  /\ UNCHANGED <<db, log, broker, cascade>>

(* The change page of the admin site, which has no throttles: any field may change,
   the status to any other.  The form checks the job and the unique pair as they are now. *)
AdminEdit(w, a, o) ==
  /\ AdminEditing
  /\ a \in issued
  /\ row[a] # None
  /\ IF Rivals(a, o) = {} /\ JobExists(o.job)
     THEN Begin(w, "admin", a, o, "loaded")
     ELSE Begin(w, "admin", a, None, "refused")
  /\ UNCHANGED <<db, log, broker, cascade>>

\* Mutant: the arguments of the task in the wrong order.
StatusMailSwapped(a, old, new) == [task |-> "status", app |-> a, old |-> new, new |-> old]

StatusMail(a, old, new) == [task |-> "status", app |-> a, old |-> old, new |-> new]

\* Mutant: mail only about an edge of the state machine.
ChangedLegally(old, o) == old # None /\ LegalMove(old.status, o.status)

\* The saved instance differs from the row as it is now, if it still is.
Changed(old, o) == old # None /\ old.status # o.status

(* save() sends pre_save first: on_status_change re-reads the row, which may be
   gone or differ from what the handler validated. *)
PreSave(w) ==
  /\ pc[w] = "loaded"
  /\ LET old == row[pk[w]] IN
       IF Changed(old, obj[w])
       THEN Delay(w, StatusMail(pk[w], old.status, obj[w].status), "signalled")
       ELSE Goto(w, "signalled") /\ UNCHANGED log
  /\ UNCHANGED <<db, broker, local, cascade, accepted>>

\* Mutant: the views call save() without update_fields.
AnySaveIsFull(w) == TRUE

\* save() without update_fields.
SavesEveryColumn(w) == kind[w] = "admin"

(* save(update_fields=[...]): the UPDATE, which raises when the row is gone.  A
   status PATCH writes recruiter_notes too, given or merely loaded. *)
Update(w) ==
  /\ pc[w] = "signalled"
  /\ ~SavesEveryColumn(w)
  /\ ~Locked(pk[w])
  /\ IF row[pk[w]] = None
     THEN Goto(w, "failed") /\ UNCHANGED row
     ELSE /\ row' = [row EXCEPT ![pk[w]].status = obj[w].status,
                                ![pk[w]].notes = IF kind[w] = "withdraw"
                                                 THEN @ ELSE obj[w].notes]
          /\ Goto(w, "saved")
  /\ UNCHANGED <<job, issued, log, broker, local, cascade, accepted>>

(* The admin's save() writes every column, and INSERTs the row again (with its
   post_save) when it is gone; the change page is one transaction. *)
AdminSave(w) ==
  /\ pc[w] = "signalled"
  /\ SavesEveryColumn(w)
  /\ ~Locked(pk[w])
  /\ \A b \in Rivals(pk[w], obj[w]) : ~Locked(b)
  /\ LET again == row[pk[w]] = None IN
       IF Rivals(pk[w], obj[w]) = {} /\ JobExists(obj[w].job) /\ (again => broker)
       THEN /\ row' = [row EXCEPT ![pk[w]] = obj[w]]
            /\ log' = IF again THEN Append(log, Received(pk[w])) ELSE log
            /\ Goto(w, "saved")
       ELSE /\ Goto(w, "failed")
            /\ UNCHANGED <<row, log>>
  /\ UNCHANGED <<job, issued, broker, local, cascade, accepted>>

(* The delete page of the admin site. *)
AdminDelete(a) ==
  /\ row[a] # None
  /\ ~Locked(a)
  /\ row' = [row EXCEPT ![a] = None]
  /\ UNCHANGED <<job, issued, log, broker, pc, local, cascade, accepted>>

--------------------------------------------------------------------------------
Dependents(j) == {a \in AppIds : row[a] # None /\ row[a].job = j}

(* DELETE /api/jobs/{slug}/: Django deletes the dependent applications, then the
   job, in one transaction; its foreign keys are checked at the commit. *)
DeleteJobCascade(w, j) ==
  /\ ThrottlesAnswer
  /\ job[j] # "deleted"
  /\ \A a \in Dependents(j) : ~Locked(a)
  /\ Begin(w, "delete_job", j, None, "deleting")
  /\ cascade' = [cascade EXCEPT ![w] = Dependents(j)]
  /\ UNCHANGED <<db, log, broker>>

DeleteJobCommit(w) ==
  /\ pc[w] = "deleting"
  /\ IF Dependents(pk[w]) \subseteq cascade[w]
     THEN /\ row' = [a \in AppIds |-> IF a \in cascade[w] THEN None ELSE row[a]]
          /\ job' = [job EXCEPT ![pk[w]] = "deleted"]
          /\ Goto(w, "saved")
     ELSE /\ Goto(w, "failed")
          /\ UNCHANGED <<row, job>>
  /\ cascade' = [cascade EXCEPT ![w] = {}]
  /\ UNCHANGED <<issued, log, broker, local, accepted>>

(* The listing changes under the handlers, in any direction: publish, close, a PATCH
   of the deadline, close_expired_jobs, midnight, or the full save of a stale copy,
   which inserts a deleted job again. *)
JobChanges(j) ==
  /\ \E s \in {"open", "shut"} \ {job[j]} : job' = [job EXCEPT ![j] = s]
  /\ UNCHANGED <<row, issued, log, broker, pc, local, cascade, accepted>>

(* Redis goes down or comes back. *)
BrokerToggles ==
  /\ broker' = ~broker
  /\ UNCHANGED <<db, log, pc, local, cascade, accepted>>

\* Mutant: the transaction of a killed worker stays open.
CrashKeepsLocks(w) ==
  /\ pc[w] \in InFlight
  /\ Goto(w, "idle")
  /\ obj' = [obj EXCEPT ![w] = None]
  /\ UNCHANGED <<db, log, broker, kind, pk, cascade, accepted>>

(* gunicorn kills the worker (timeout, deploy); an open transaction is undone. *)
Crash(w) ==
  /\ pc[w] \in InFlight
  /\ Goto(w, "idle")
  /\ obj' = [obj EXCEPT ![w] = None]
  /\ cascade' = [cascade EXCEPT ![w] = {}]
  /\ UNCHANGED <<db, log, broker, kind, pk, accepted>>

--------------------------------------------------------------------------------
Accept(w) ==
  \/ TurnedAway(w)
  \/ \E c \in Candidates, j \in Jobs, a \in AppIds : ApplyValidateJob(w, c, j, a)
  \/ \E a \in AppIds : Withdraw(w, a)
  \/ \E a \in AppIds, s \in Status : PatchStatus(w, a, s, "patch", Blank)
  \/ \E a \in AppIds, s \in Status, n \in Notes : PatchStatus(w, a, s, "patch_notes", n)
  \/ \E a \in AppIds, o \in Row : AdminEdit(w, a, o)
  \/ \E j \in Jobs : DeleteJobCascade(w, j)

Proceed(w) ==
  \/ ApplyCheckDuplicate(w)
  \/ ApplyInsert(w)
  \/ ApplyPostSave(w)
  \/ PreSave(w)
  \/ Update(w)
  \/ AdminSave(w)
  \/ DeleteJobCommit(w)

Environment ==
  \/ \E a \in AppIds : AdminDelete(a)
  \/ \E j \in Jobs : JobChanges(j)
  \/ BrokerToggles
  \/ \E w \in Workers : Crash(w)

Next == Environment \/ \E w \in Workers : Accept(w) \/ Proceed(w)

Spec == Init /\ [][Next]_vars

\* A worker that is neither killed nor blocked runs its handler to the end.
FairSpec == Spec /\ \A w \in Workers : WF_vars(Proceed(w))

--------------------------------------------------------------------------------
TypeOK ==
  /\ job \in [Jobs -> JobStates]
  /\ row \in [AppIds -> Row \cup {None}]
  /\ issued \subseteq AppIds
  /\ log \in Seq(Message)
  /\ broker \in BOOLEAN
  /\ pc \in [Workers -> Answered \cup InFlight]
  /\ kind \in [Workers -> Kinds]
  /\ pk \in [Workers -> AppIds \cup Jobs \cup {None}]
  /\ obj \in [Workers -> Row \cup {None}]
  /\ cascade \in [Workers -> SUBSET AppIds]
  /\ accepted \in Nat

(* unique_together (job, applicant) survives the gap between the exists() query
   of one request and the INSERT of another, and every deletion and re-insertion. *)
UniqueApplication ==
  \A a, b \in AppIds :
    /\ row[a] # None /\ row[b] # None
    /\ row[a].job = row[b].job /\ row[a].applicant = row[b].applicant
    => a = b

(* Deleting a job while candidates apply to it leaves no application behind that
   points to a deleted job, in whatever order the two transactions run. *)
NoOrphan == \A a \in AppIds : row[a] # None => job[row[a].job] # "deleted"

(* The signal goes out before the UPDATE, so whatever way the writes of several
   requests interleave, and whenever the broker fails, the status a committed row
   shows is one the candidate has been sent (or is being sent) a mail about. *)
StatusAnnounced ==
  \A a \in AppIds :
    row[a] # None /\ row[a].status # "applied" => Announced(a, row[a].status)

(* A client that was answered 201 or 200 can rely on the mail being queued. *)
SuccessMeansQueued ==
  \A w \in Workers :
    /\ pc[w] = "created" => \E i \in 1..Len(log) : log[i] = Received(pk[w])
    /\ pc[w] = "saved" /\ kind[w] \in {"withdraw", "patch", "patch_notes"}
         => Announced(pk[w], obj[w].status)

(* Without admin edits a deleted application stays deleted: the UPDATE of a
   handler that loaded it before does not bring it back. *)
NeverResurrected ==
  [][\A a \in issued : row[a] = None => row'[a] = None]_vars

(* No handler waits for ever: every accepted request is answered, or its worker
   is killed, although writers wait for rows that an open transaction deletes. *)
EveryRequestEnds == \A w \in Workers : pc[w] \in InFlight ~> pc[w] \in Answered

(* The tables of the state machine as the tests read them: a rejected or
   withdrawn application is not changed to another status. *)
TerminalStatus ==
  [][\A a \in AppIds :
       row[a] # None /\ row'[a] # None /\ row[a].status \in {"rejected", "withdrawn"}
         => row'[a].status = row[a].status]_vars

(* The design decision for asynchronous mail: a candidate whose application was
   saved is not answered 500 because the mail could not be sent.  Redis answered the
   throttles of the request, so it is lost between them and .delay(). *)
SavedIsNotAnError ==
  \A w \in Workers : pc[w] = "failed" /\ kind[w] = "create" => row[pk[w]] = None

(* When requests do not overlap: every mail tells of an edge of the state machine. *)
AnnouncedMovesLegal ==
  \A i \in 1..Len(log) : log[i].task = "status" => LegalMove(log[i].old, log[i].new)

(* When requests do not overlap: recruiter_notes change only by a PATCH that
   carries recruiter_notes, never by one that saves the notes it had loaded. *)
NotesChangeOnRequest ==
  [][\A a \in AppIds :
       row[a] # None /\ row'[a] # None /\ row'[a].notes # row[a].notes
         => \E w \in Workers : kind[w] = "patch_notes" /\ pk[w] = a /\ pc[w] = "signalled"]_vars

--------------------------------------------------------------------------------
\* The workflow the API promises, read off the committed rows.
Workflow == INSTANCE ApplicationWorkflow WITH
  Keys <- Jobs \X Candidates,
  app <- [a \in AppIds |->
            IF row[a] = None THEN None
            ELSE [key |-> <<row[a].job, row[a].applicant>>, status |-> row[a].status]],
  used <- issued

\* None is not an application of the workflow either.
ASSUME WorkflowAssumption == None \notin Workflow!Application

(* When requests do not overlap, the handlers implement the workflow: every step
   is one of its operations or changes no application. *)
ImplementsWorkflow == Workflow!WSpec
================================================================================
