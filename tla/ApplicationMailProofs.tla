-------------------------- MODULE ApplicationMailProofs --------------------------
(***************************************************************************)
(* The composition of web processes and Celery pool is faithful to both:   *)
(* seen from the tables it is Applications, seen from the queue it is      *)
(* NotificationTasks, so that what is proved of each holds of the whole.   *)
(***************************************************************************)
EXTENDS ApplicationMail, NotificationTasksProofs

\* Applications again, with what is proved of it.
WebP == INSTANCE WorkflowProofs
          WITH AppIds <- Apps, MaxRequests <- MaxLog, AdminEditing <- FALSE

\* The assumptions of Applications hold of the constants it is given here.
LEMMA WebAssumptions == WebP!ConstantsAssumption /\ WebP!WorkflowAssumption
<1>1. WebP!ConstantsAssumption
  BY MailAssumption, TasksAssumption DEF Web!Row, WebP!Row, Web!Status, WebP!Status
<1>2. WebP!WorkflowAssumption
  BY MailAssumption DEF Web!Workflow!Application, WebP!Workflow!Application,
                        Web!Workflow!Status, WebP!Workflow!Status
<1> QED BY <1>1, <1>2

\* The two instances of Applications are one specification.
LEMMA SameWeb ==
  /\ Web!Init <=> WebP!Init
  /\ Web!Next <=> WebP!Next
  /\ Web!vars = WebP!vars
  /\ Web!TypeOK <=> WebP!TypeOK
<1>1. Web!Next <=> WebP!Next
  BY DEF
    Web!Next, Web!Environment, Web!Accept, Web!Proceed, Web!TurnedAway,
    Web!ThrottlesAnswer, Web!ApplyValidateJob, Web!Withdraw,
    Web!PatchStatus, Web!AdminEdit, Web!DeleteJobCascade, Web!ApplyCheckDuplicate,
    Web!ApplyInsert, Web!ApplyPostSave, Web!PreSave, Web!Update, Web!AdminSave,
    Web!DeleteJobCommit, Web!AdminDelete, Web!JobChanges, Web!BrokerToggles, Web!Crash,
    Web!Begin, Web!Goto, Web!Delay, Web!db, Web!local, Web!Answered, Web!InFlight,
    Web!Rivals, Web!Locked, Web!JobExists, Web!Received, Web!Status,
    Web!WITHDRAWABLE_STATUSES, Web!ValidateStatus, Web!NextStatuses,
    Web!VALID_TRANSITIONS, Web!NotesOf, Web!SavesEveryColumn, Web!Changed,
    Web!StatusMail, Web!Dependents, Web!Row,
    WebP!Next, WebP!Environment, WebP!Accept, WebP!Proceed, WebP!TurnedAway,
    WebP!ThrottlesAnswer, WebP!ApplyValidateJob,
    WebP!Withdraw, WebP!PatchStatus, WebP!AdminEdit, WebP!DeleteJobCascade,
    WebP!ApplyCheckDuplicate, WebP!ApplyInsert, WebP!ApplyPostSave, WebP!PreSave,
    WebP!Update, WebP!AdminSave, WebP!DeleteJobCommit, WebP!AdminDelete, WebP!JobChanges,
    WebP!BrokerToggles, WebP!Crash, WebP!Begin, WebP!Goto, WebP!Delay, WebP!db,
    WebP!local, WebP!Answered, WebP!InFlight, WebP!Rivals, WebP!Locked, WebP!JobExists,
    WebP!Received, WebP!Status, WebP!WITHDRAWABLE_STATUSES, WebP!ValidateStatus,
    WebP!NextStatuses, WebP!VALID_TRANSITIONS, WebP!NotesOf, WebP!SavesEveryColumn,
    WebP!Changed, WebP!StatusMail, WebP!Dependents, WebP!Row
<1>2. Web!Init <=> WebP!Init
  BY DEF Web!Init, WebP!Init
<1>3. Web!vars = WebP!vars
  BY DEF Web!vars, WebP!vars
<1>4. Web!TypeOK <=> WebP!TypeOK
  BY DEF Web!TypeOK, WebP!TypeOK, Web!JobStates, WebP!JobStates, Web!Kinds, WebP!Kinds,
         Web!Answered, WebP!Answered, Web!InFlight, WebP!InFlight, Web!Message,
         WebP!Message, Web!Row, WebP!Row, Web!Status, WebP!Status
<1> QED BY <1>1, <1>2, <1>3, <1>4

--------------------------------------------------------------------------------
\* The pool writes its own tables only.
LEMMA PoolLeavesWorld == TaskStep => UNCHANGED world
BY DEF TaskStep, Take, Run, Load, SendMail, CreateNotice, ProcessDies

LEMMA WebPart == MailSpec => WebP!Spec
<1>1. MailInit => WebP!Init
  BY SameWeb DEF MailInit
<1>2. [MailNext]_allvars => [WebP!Next]_(WebP!vars)
  <2> SUFFICES ASSUME [MailNext]_allvars
               PROVE  WebP!Next \/ UNCHANGED WebP!vars
    OBVIOUS
  <2>1. CASE WebActs(Web!Next)
    BY <2>1, SameWeb DEF WebActs
  <2>2. CASE PoolActs(TaskStep)
    BY <2>2, PoolLeavesWorld DEF PoolActs, webvars, world, WebP!vars
  <2>3. CASE UNCHANGED allvars
    BY <2>3 DEF allvars, webvars, world, WebP!vars
  <2> QED
    BY <2>1, <2>2, <2>3 DEF MailNext
<1> QED
  BY <1>1, <1>2, PTL DEF MailSpec, WebP!Spec

(* With the pool beside it the web side is what Applications says, and nothing else: the
   e-mail tasks change none of its tables. *)
THEOREM WebIsAComponent == MailSpec => Web!Spec
<1>1. WebP!Init => Web!Init
  BY SameWeb
<1>2. [WebP!Next]_(WebP!vars) => [Web!Next]_(Web!vars)
  BY SameWeb DEF WebP!vars, Web!vars
<1> QED
  BY <1>1, <1>2, WebPart, PTL DEF Web!Spec, WebP!Spec

\* What holds of the web side in every state of the composition.
LEMMA WebInvariant ==
  MailSpec => [](WebP!AllInv /\ Len(log) <= accepted /\ accepted <= MaxLog)
<1>1. WebP!Spec => []WebP!AllInv
  BY WebAssumptions, WebP!AllInvariant
<1>2. WebP!Spec => [](Len(log) <= accepted /\ accepted <= MaxLog)
  BY WebAssumptions, WebP!OneTaskPerRequest
<1> QED
  BY <1>1, <1>2, WebPart, PTL

LEMMA SameMessages == WebP!Message = Payload
BY DEF WebP!Message, Payload, WebP!Status, Status

(* The refinement of the queue's environment: the web side only appends tasks to the log,
   each of them a payload the tasks know, and never more than MaxLog, because a request
   hands over one at most. *)
THEOREM PoolSeesItsEnvironment == MailSpec => PoolIsAComponent
<1> DEFINE W == WebP!AllInv /\ Len(log) <= accepted /\ accepted <= MaxLog
<1>1. MailInit => WebInit /\ TInit
  BY DEF MailInit, Web!Init, WebInit
<1>2. W /\ W' /\ [MailNext]_allvars => [TaskStep \/ WebStep]_<<world, tvars>>
  <2> SUFFICES ASSUME W, W', [MailNext]_allvars
               PROVE  [TaskStep \/ WebStep]_<<world, tvars>>
    OBVIOUS
  <2>1. CASE WebActs(Web!Next)
    <3>1. UNCHANGED tvars /\ live' \in SUBSET Apps
      BY <2>1 DEF WebActs
    <3>2. broker' \in BOOLEAN
      BY DEF WebP!AllInv, WebP!TypeInv, WebP!TypeOK
    <3>3. UNCHANGED log \/ (Len(log) < MaxLog /\ \E m \in Payload : log' = Append(log, m))
      <4>1. log' = log \/ \E m \in Payload : log' = Append(log, m)
        BY <2>1, WebAssumptions, SameWeb, SameMessages, WebP!StepLog DEF WebActs, WebP!AllInv
      <4>2. log \in Seq(Payload) /\ accepted \in Nat /\ accepted' \in Nat
        BY SameMessages DEF WebP!AllInv, WebP!TypeInv, WebP!TypeOK
      <4>3. ASSUME NEW m \in Payload, log' = Append(log, m)
            PROVE  Len(log) < MaxLog
        <5>1. Len(log) \in Nat /\ Len(log') = Len(log) + 1
          BY <4>2, <4>3
        <5> QED
          BY <4>2, <5>1, TasksAssumption
      <4> QED
        BY <4>1, <4>3
    <3> QED
      BY <3>1, <3>2, <3>3 DEF WebStep
  <2>2. CASE PoolActs(TaskStep)
    BY <2>2 DEF PoolActs
  <2>3. CASE UNCHANGED allvars
    BY <2>3 DEF allvars
  <2> QED
    BY <2>1, <2>2, <2>3 DEF MailNext
<1>3. MailSpec => []W
  BY WebInvariant
<1> HIDE DEF W
<1> QED
  BY <1>1, <1>2, <1>3, PTL DEF MailSpec, PoolIsAComponent, TSpec

--------------------------------------------------------------------------------
(* What was proved of either side holds of the composition. *)

(* Both sides keep to their types when they run together. *)
THEOREM MailTypeCorrect == MailSpec => []MailTypeOK
<1>1. WebP!AllInv /\ TaskInv => MailTypeOK
  BY SameWeb DEF WebP!AllInv, WebP!TypeInv, TaskInv, MailTypeOK
<1>2. MailSpec => []WebP!AllInv
  BY WebInvariant, PTL
<1>3. MailSpec => []TaskInv
  BY PoolSeesItsEnvironment, TasksInvariant, PTL DEF PoolIsAComponent
<1> QED
  BY <1>1, <1>2, <1>3, PTL

(* Beside the real web side: a task's mail goes out at most once more than it may be
   retried, its Notification is written once and last, and its payload is valid. *)
THEOREM PoolKeepsItsPromises ==
  MailSpec => [](MailsBounded /\ NoticeOnceAndAfterMail /\ PayloadsValid)
BY PoolSeesItsEnvironment, MailsAreBounded, NoticeIsLast, PayloadsAreValid, PTL
DEF PoolIsAComponent

\* A task is skipped because its application was deleted.
SkippedInv ==
  /\ live = {a \in Apps : row[a] # None}
  /\ \A i \in Tasks : state[i] = "skipped" =>
       i \in 1..Len(log) /\ log[i].app \in issued /\ row[log[i].app] = None

LEMMA SkippedStep ==
  ASSUME WebP!AllInv, WebP!TasksOfIssued, TaskInv, SkippedInv, [MailNext]_allvars
  PROVE  SkippedInv'
<1>1. CASE WebActs(Web!Next)
  <2>1. WebP!Next /\ live' = {a \in Apps : row'[a] # None} /\ state' = state
    BY <1>1, SameWeb DEF WebActs, tvars
  <2>2. log \in Seq(Payload) /\ (log' = log \/ \E m \in Payload : log' = Append(log, m))
    BY <2>1, WebAssumptions, SameMessages, WebP!StepLog
    DEF WebP!AllInv, WebP!TypeInv, WebP!TypeOK
  <2>3. \A i \in 1..Len(log) : i \in 1..Len(log') /\ log'[i] = log[i]
    BY <2>2
  <2>4. \A a \in issued : a \in issued' /\ (row[a] = None => row'[a] = None)
    BY <2>1, WebAssumptions, WebP!IssuedGrows, WebP!NoResurrection
  <2> QED
    BY <2>1, <2>3, <2>4 DEF SkippedInv
<1>2. CASE PoolActs(TaskStep)
  <2>1. UNCHANGED <<world, webvars>>
    BY <1>2, PoolLeavesWorld DEF PoolActs
  <2>2. ASSUME NEW i \in Tasks, state'[i] = "skipped"
        PROVE  state[i] = "skipped" \/ (state[i] = "started" /\ log[i].app \notin live)
    BY <1>2, <2>2 DEF PoolActs, TaskStep, Take, Run, Load, SendMail, CreateNotice, ProcessDies,
                      Retry, Become, TaskInv, TTypeOK
  <2>3. ASSUME NEW i \in Tasks, state[i] = "started"
        PROVE  i \in 1..Len(log) /\ log[i].app \in issued /\ log[i].app \in Apps
    BY <2>3 DEF TaskInv, LogOK, WebP!TasksOfIssued, WebP!AllInv, WebP!TypeInv, WebP!TypeOK
  <2> QED
    BY <2>1, <2>2, <2>3 DEF SkippedInv, world, webvars
<1>3. CASE UNCHANGED allvars
  BY <1>3 DEF allvars, webvars, world, tvars, SkippedInv
<1> QED
  BY <1>1, <1>2, <1>3 DEF MailNext

(* A task that finds no application to write about was queued for one that has been
   deleted since, and stays deleted: it never runs ahead of the commit of the row, and
   giving it up without a retry loses nothing. *)
THEOREM SkippedMeansDeleted ==
  MailSpec => [](\A i \in Tasks : state[i] = "skipped" =>
                   i \in 1..Len(log) /\ log[i].app \in issued /\ row[log[i].app] = None)
<1>1. MailInit => SkippedInv
  BY DEF MailInit, Web!Init, TInit, SkippedInv
<1>2. WebP!AllInv /\ WebP!TasksOfIssued /\ TaskInv /\ SkippedInv /\ [MailNext]_allvars
        => SkippedInv'
  BY SkippedStep
<1>3. MailSpec => []WebP!AllInv
  BY WebInvariant, PTL
<1>4. WebP!Spec => []WebP!TasksOfIssued
  <2>1. WebP!Spec => [](WebP!TasksOfIssued /\ WebP!NothingSkipped /\ WebP!ConfirmedOnce)
    BY WebAssumptions, WebP!TasksMakeSense
  <2> QED
    BY <2>1, PTL
<1>5. MailSpec => []TaskInv
  BY PoolSeesItsEnvironment, TasksInvariant, PTL DEF PoolIsAComponent
<1>6. SkippedInv => \A i \in Tasks : state[i] = "skipped" =>
                      i \in 1..Len(log) /\ log[i].app \in issued /\ row[log[i].app] = None
  BY DEF SkippedInv
<1> QED
  BY <1>1, <1>2, <1>3, <1>4, <1>5, <1>6, WebPart, PTL DEF MailSpec
================================================================================
