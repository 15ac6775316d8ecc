---------------------------- MODULE NotificationTasks ----------------------------
(***************************************************************************)
(* The Celery side: a pool of processes runs the two e-mail tasks that the *)
(* web process has handed to the broker.  A task is named by its place in  *)
(* log.  Celery acknowledges a task when a process takes it, so a process  *)
(* that dies takes the task with it; an exception of send_mail republishes *)
(* the task, at most MaxRetries times, and may come after the SMTP server  *)
(* has accepted the mail.                                                  *)
(***************************************************************************)
EXTENDS ApplicationStates, Naturals, Sequences, FiniteSets

CONSTANTS
  Apps,         \* keys of applications
  Concurrency,  \* processes of the pool: celery worker --concurrency
  MaxRetries,   \* max_retries of both tasks
  MaxLog        \* bound: tasks handed over in one behaviour

ASSUME TasksAssumption ==
  /\ Concurrency \in Nat \ {0}
  /\ MaxRetries \in Nat
  /\ MaxLog \in Nat

VARIABLES
  log,      \* the tasks handed to the broker, in order (of the web process)
  live,     \* the applications that exist (of the web process)
  broker,   \* whether Redis can be reached
  state,    \* state[i]: what has become of task i
  retries,  \* retries[i]: how often it has been republished
  mails,    \* mails[i]: how often its mail has been delivered
  notices   \* notices[i]: how many Notification rows it has written

world == <<log, live, broker>>
tvars == <<state, retries, mails, notices>>

Tasks == 1..MaxLog
Running == {"started", "sending", "sent"}
Ended == {"done", "invalid", "skipped", "exhausted", "failed", "rejected", "lost"}
States == {"queued", "waiting"} \cup Running \cup Ended

Payload == [task : {"received", "status"}, app : Apps, old : Status, new : Status]

TInit ==
  /\ state = [i \in Tasks |-> "queued"]
  /\ retries = [i \in Tasks |-> 0]
  /\ mails = [i \in Tasks |-> 0]
  /\ notices = [i \in Tasks |-> 0]

--------------------------------------------------------------------------------
Become(i, s) == state' = [state EXCEPT ![i] = s]

FreeProcess == Cardinality({i \in Tasks : state[i] \in Running}) < Concurrency

\* Mutant: a task that was republished is not delivered again.
OldestOfQueue(i) == state[i] = "queued" /\ \A k \in 1..(i - 1) : state[k] # "queued"

\* The oldest task of the queue, or one whose countdown is over (default_retry_delay).
Due(i) ==
  \/ state[i] = "queued" /\ \A k \in 1..(i - 1) : state[k] # "queued"
  \/ state[i] = "waiting"

(* A process takes a task that is due, and acknowledges it. *)
Take(i) ==
  /\ i \in 1..Len(log)
  /\ broker
  /\ FreeProcess
  /\ Due(i)
  /\ Become(i, "started")
  /\ UNCHANGED <<world, retries, mails, notices>>

\* Mutant: a schema that has not been told of withdrawals.
VALID_STATUSES_Stale == Status \ {"withdrawn"}

\* The statuses the payload schema knows.
VALID_STATUSES == {"applied", "reviewing", "shortlisted", "interview", "offered",
                   "rejected", "withdrawn"}

ValidPayload(m) ==
  m.task = "status" => m.old \in VALID_STATUSES /\ m.new \in VALID_STATUSES

(* The payload is validated, then the application is loaded, if it still is there. *)
Load(i) ==
  /\ state[i] = "started"
  /\ Become(i, IF ~ValidPayload(log[i]) THEN "invalid"
               ELSE IF log[i].app \in live THEN "sending" ELSE "skipped")
  /\ UNCHANGED <<world, retries, mails, notices>>

\* Mutant: one retry too many.
MayRetryOnceMore(i) == retries[i] <= MaxRetries

MayRetry(i) == retries[i] < MaxRetries

\* Mutant: the exception is logged, and the task goes on.
LogAndGoOn(i) == Become(i, "sent") /\ UNCHANGED retries

(* self.retry: republish with the countdown, give up after MaxRetries, or lose
   the task when it cannot be republished. *)
Retry(i) ==
  IF ~MayRetry(i)
  THEN Become(i, "exhausted") /\ UNCHANGED retries
  ELSE IF broker
       THEN Become(i, "waiting") /\ retries' = [retries EXCEPT ![i] = @ + 1]
       ELSE Become(i, "rejected") /\ UNCHANGED retries

(* send_mail: delivered, delivered with an exception afterwards (the connection
   or the soft time limit), or not delivered. *)
SendMail(i) ==
  /\ state[i] = "sending"
  /\ \/ /\ mails' = [mails EXCEPT ![i] = @ + 1]
        /\ Become(i, "sent")
        /\ UNCHANGED retries
     \/ /\ mails' = [mails EXCEPT ![i] = @ + 1]
        /\ Retry(i)
     \/ /\ UNCHANGED mails
        /\ Retry(i)
  /\ UNCHANGED <<world, notices>>

(* Notification.objects.create, outside the try: an error there is not retried. *)
CreateNotice(i) ==
  /\ state[i] = "sent"
  /\ \/ /\ notices' = [notices EXCEPT ![i] = @ + 1]
        /\ Become(i, "done")
     \/ /\ Become(i, "failed")
        /\ UNCHANGED notices
  /\ UNCHANGED <<world, retries, mails>>

(* The process dies, or is killed by the hard time limit. *)
ProcessDies(i) ==
  /\ state[i] \in Running
  /\ Become(i, "lost")
  /\ UNCHANGED <<world, retries, mails, notices>>

Run(i) == Load(i) \/ SendMail(i) \/ CreateNotice(i)

TaskStep == \E i \in Tasks : Take(i) \/ Run(i) \/ ProcessDies(i)

(* The web process and the database go on: tasks are added at the end. *)
WebStep ==
  /\ \/ UNCHANGED log
     \/ Len(log) < MaxLog /\ \E m \in Payload : log' = Append(log, m)
  /\ live' \in SUBSET Apps
  /\ broker' \in BOOLEAN
  /\ UNCHANGED tvars

WebInit == log = <<>> /\ live \in SUBSET Apps /\ broker \in BOOLEAN

TSpec == WebInit /\ TInit /\ [][TaskStep \/ WebStep]_<<world, tvars>>

--------------------------------------------------------------------------------
TTypeOK ==
  /\ state \in [Tasks -> States]
  /\ retries \in [Tasks -> 0..MaxRetries]
  /\ mails \in [Tasks -> Nat]
  /\ notices \in [Tasks -> Nat]

(* Whatever fails and is retried, the mail of one task reaches the candidate at
   most once more than the task may be retried. *)
MailsBounded == \A i \in Tasks : mails[i] <= MaxRetries + 1

(* The Notification row of a task is written at most once, although the task may
   run several times, and only by a run whose mail went out. *)
NoticeOnceAndAfterMail ==
  \A i \in Tasks : notices[i] <= 1 /\ (notices[i] = 1 => mails[i] >= 1 /\ state[i] = "done")

(* The schema of the payload knows every status the signals send. *)
PayloadsValid == \A i \in Tasks : state[i] # "invalid"

(* Every task handed to the broker comes to an end: nothing is retried for ever
   and nothing stays in the queue. *)
EveryTaskEnds == \A i \in Tasks : Len(log) >= i ~> state[i] \in Ended
================================================================================
