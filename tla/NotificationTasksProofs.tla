------------------------- MODULE NotificationTasksProofs -------------------------
(***************************************************************************)
(* Proofs about NotificationTasks, for any number of tasks, processes and  *)
(* retries, and any web process that only appends to the log.              *)
(***************************************************************************)
EXTENDS NotificationTasks, TLAPS

\* A task that was republished r times has run r times before, and a run delivers one
\* mail at most; the Notification is the last thing a run does.
TaskOK(i) ==
  /\ state[i] # "invalid"
  /\ mails[i] <= retries[i] + 1
  /\ state[i] \in {"queued", "waiting", "started", "sending"} => mails[i] <= retries[i]
  /\ state[i] = "sent" => mails[i] >= 1
  /\ notices[i] \in {0, 1}
  /\ notices[i] = 1 => state[i] = "done" /\ mails[i] >= 1

\* A task is taken only when it is in the log, and the log only grows.
LogOK ==
  /\ log \in Seq(Payload)
  /\ \A i \in Tasks : state[i] # "queued" => i \in 1..Len(log)

TaskInv == TTypeOK /\ LogOK /\ \A i \in Tasks : TaskOK(i)

OnlyOf(i) ==
  \A k \in Tasks \ {i} : /\ state'[k] = state[k] /\ retries'[k] = retries[k]
                         /\ mails'[k] = mails[k] /\ notices'[k] = notices[k]

\* Only task i changes, to values that are right for it.
LEMMA OneTask ==
  ASSUME TaskInv, NEW i \in Tasks, UNCHANGED world, i \in 1..Len(log),
         TTypeOK', TaskOK(i)', OnlyOf(i)
  PROVE  TaskInv'
<1>1. \A k \in Tasks : TaskOK(k)'
  BY DEF TaskInv, TaskOK, OnlyOf
<1>2. LogOK'
  BY DEF TaskInv, LogOK, OnlyOf, world
<1> QED BY <1>1, <1>2 DEF TaskInv

LEMMA TaskInvStep == TaskInv /\ [TaskStep \/ WebStep]_<<world, tvars>> => TaskInv'
<1> SUFFICES ASSUME TaskInv, [TaskStep \/ WebStep]_<<world, tvars>>
             PROVE  TaskInv'
  OBVIOUS
<1> USE TasksAssumption
<1> USE DEF TTypeOK, OnlyOf
<1>1. ASSUME NEW i \in Tasks
      PROVE  /\ retries[i] \in 0..MaxRetries /\ mails[i] \in Nat /\ TaskOK(i)
             /\ state[i] # "queued" => i \in 1..Len(log)
  BY DEF TaskInv, TaskOK, LogOK
<1>2. ASSUME NEW i \in Tasks, Take(i)
      PROVE  TaskInv'
  <2>1. /\ state[i] \in {"queued", "waiting"} /\ i \in 1..Len(log)
        /\ state' = [state EXCEPT ![i] = "started"] /\ UNCHANGED <<world, retries, mails, notices>>
    BY <1>2 DEF Take, Due, Become
  <2>2. mails[i] <= retries[i] /\ notices[i] = 0
    BY <1>1, <2>1 DEF TaskOK
  <2>3. TTypeOK' /\ OnlyOf(i)
    BY <1>1, <2>1, <2>2 DEF TaskInv, Become, States, Running, Ended
  <2>4. TaskOK(i)'
    BY <1>1, <2>1, <2>2 DEF TaskInv, TaskOK, Become
  <2> QED
    BY <1>1, <2>1, <2>2, <2>3, <2>4, OneTask
<1>3. ASSUME NEW i \in Tasks, Load(i)
      PROVE  TaskInv'
  <2>1. ValidPayload(log[i])
    <3>1. i \in 1..Len(log) /\ log \in Seq(Payload)
      BY <1>1, <1>3 DEF Load, TaskInv, LogOK
    <3>2. log[i] \in Payload
      BY <3>1
    <3> QED
      BY <3>2 DEF ValidPayload, Payload, VALID_STATUSES, Status
  <2>2. /\ \E s \in {"sending", "skipped"} : state' = [state EXCEPT ![i] = s]
        /\ UNCHANGED <<world, retries, mails, notices>>
    BY <1>3, <2>1 DEF Load, Become
  <2>3. state[i] = "started" /\ mails[i] <= retries[i] /\ notices[i] = 0
    BY <1>1, <1>3 DEF Load, TaskOK
  <2>4. TTypeOK' /\ OnlyOf(i)
    BY <1>1, <2>2, <2>3 DEF TaskInv, Become, States, Running, Ended
  <2>5. TaskOK(i)'
    BY <1>1, <2>2, <2>3 DEF TaskInv, TaskOK, Become
  <2> QED
    BY <1>1, <2>2, <2>3, <2>4, <2>5, OneTask
<1>4. ASSUME NEW i \in Tasks, SendMail(i)
      PROVE  TaskInv'
  <2>1. state[i] = "sending" /\ mails[i] <= retries[i] /\ notices[i] = 0
    BY <1>1, <1>4 DEF SendMail, TaskOK
  <2>2. UNCHANGED <<world, notices>>
    BY <1>4 DEF SendMail
  <2>3. \E m \in {mails[i], mails[i] + 1} : mails' = [mails EXCEPT ![i] = m]
    BY <1>1, <1>4 DEF SendMail, TaskInv
  <2>4. CASE mails' = [mails EXCEPT ![i] = mails[i] + 1] /\ Become(i, "sent") /\ UNCHANGED retries
    <3>1. TTypeOK' /\ OnlyOf(i)
      BY <1>1, <2>1, <2>2, <2>4 DEF TaskInv, Become, States, Running, Ended
    <3>2. TaskOK(i)'
      BY <1>1, <2>1, <2>2, <2>4 DEF TaskInv, TaskOK, Become
    <3> QED
      BY <1>1, <2>1, <2>2, <2>4, <3>1, <3>2, OneTask
  <2>5. CASE Retry(i)
    <3>1. CASE /\ retries[i] < MaxRetries /\ Become(i, "waiting")
               /\ retries' = [retries EXCEPT ![i] = retries[i] + 1]
      <4>1. TTypeOK' /\ OnlyOf(i)
        BY <1>1, <2>1, <2>2, <2>3, <3>1 DEF TaskInv, Become, States, Running, Ended
      <4>2. TaskOK(i)'
        BY <1>1, <2>1, <2>2, <2>3, <3>1 DEF TaskInv, TaskOK, Become
      <4> QED
        BY <1>1, <2>1, <2>2, <2>3, <3>1, <4>1, <4>2, OneTask
    <3>2. CASE UNCHANGED retries /\ \E s \in {"exhausted", "rejected"} : Become(i, s)
      <4>1. TTypeOK' /\ OnlyOf(i)
        BY <1>1, <2>1, <2>2, <2>3, <3>2 DEF TaskInv, Become, States, Running, Ended
      <4>2. TaskOK(i)'
        BY <1>1, <2>1, <2>2, <2>3, <3>2 DEF TaskInv, TaskOK, Become
      <4> QED
        BY <1>1, <2>1, <2>2, <2>3, <3>2, <4>1, <4>2, OneTask
    <3> QED
      BY <2>5, <3>1, <3>2 DEF Retry, MayRetry
  <2> QED
    BY <1>4, <2>4, <2>5 DEF SendMail
<1>5. ASSUME NEW i \in Tasks, CreateNotice(i)
      PROVE  TaskInv'
  <2>1. state[i] = "sent" /\ mails[i] >= 1 /\ mails[i] <= retries[i] + 1 /\ notices[i] = 0
    BY <1>1, <1>5 DEF CreateNotice, TaskOK
  <2>2. UNCHANGED <<world, retries, mails>>
    BY <1>5 DEF CreateNotice
  <2>3. \/ notices' = [notices EXCEPT ![i] = 1] /\ Become(i, "done")
        \/ Become(i, "failed") /\ UNCHANGED notices
    BY <1>5, <2>1 DEF CreateNotice
  <2>4. CASE notices' = [notices EXCEPT ![i] = 1] /\ Become(i, "done")
    <3>1. TTypeOK' /\ OnlyOf(i)
      BY <1>1, <2>1, <2>2, <2>4 DEF TaskInv, Become, States, Running, Ended
    <3>2. TaskOK(i)'
      BY <1>1, <2>1, <2>2, <2>4 DEF TaskInv, TaskOK, Become
    <3> QED
      BY <1>1, <2>1, <2>2, <3>1, <3>2, OneTask
  <2>5. CASE Become(i, "failed") /\ UNCHANGED notices
    <3>1. TTypeOK' /\ OnlyOf(i)
      BY <1>1, <2>1, <2>2, <2>5 DEF TaskInv, Become, States, Running, Ended
    <3>2. TaskOK(i)'
      BY <1>1, <2>1, <2>2, <2>5 DEF TaskInv, TaskOK, Become
    <3> QED
      BY <1>1, <2>1, <2>2, <3>1, <3>2, OneTask
  <2> QED
    BY <2>3, <2>4, <2>5
<1>6. ASSUME NEW i \in Tasks, ProcessDies(i)
      PROVE  TaskInv'
  <2>1. state[i] \in Running /\ mails[i] <= retries[i] + 1 /\ notices[i] = 0
    BY <1>1, <1>6 DEF ProcessDies, TaskOK, Running
  <2>2. state' = [state EXCEPT ![i] = "lost"] /\ UNCHANGED <<world, retries, mails, notices>>
    BY <1>6 DEF ProcessDies, Become
  <2>3. TTypeOK' /\ OnlyOf(i)
    BY <1>1, <2>1, <2>2 DEF TaskInv, Become, States, Running, Ended
  <2>4. TaskOK(i)'
    BY <1>1, <2>1, <2>2 DEF TaskInv, TaskOK, Become
  <2> QED
    BY <1>1, <2>1, <2>2, <2>3, <2>4, OneTask DEF Running
<1>7. CASE WebStep
  <2>1. UNCHANGED tvars
    BY <1>7 DEF WebStep
  <2>2. log' = log \/ \E m \in Payload : log' = Append(log, m)
    BY <1>7 DEF WebStep
  <2>3. log \in Seq(Payload)
    BY DEF TaskInv, LogOK
  <2>4. log' \in Seq(Payload) /\ Len(log) \in Nat /\ Len(log') \in Nat /\ Len(log) <= Len(log')
    BY <2>2, <2>3
  <2>5. LogOK'
    BY <2>1, <2>4 DEF TaskInv, LogOK, tvars
  <2> QED
    BY <2>1, <2>5 DEF TaskInv, TTypeOK, TaskOK, tvars
<1>8. CASE UNCHANGED <<world, tvars>>
  BY <1>8 DEF world, tvars, TaskInv, TTypeOK, LogOK, TaskOK
<1> QED
  BY <1>2, <1>3, <1>4, <1>5, <1>6, <1>7, <1>8 DEF TaskStep, Run

LEMMA TasksInvariant == TSpec => []TaskInv
<1>1. WebInit /\ TInit => TaskInv
  BY TasksAssumption DEF WebInit, TInit, TaskInv, TTypeOK, LogOK, TaskOK, States, Running, Ended
<1> QED
  BY <1>1, TaskInvStep, PTL DEF TSpec

(* However often its run fails and is retried, a task delivers its mail at most once
   more than it may be retried. *)
THEOREM MailsAreBounded == TSpec => []MailsBounded
<1>1. TaskInv => MailsBounded
  <2> SUFFICES ASSUME TaskInv, NEW i \in Tasks
               PROVE  mails[i] <= MaxRetries + 1
    BY DEF MailsBounded
  <2>1. mails[i] \in Nat /\ retries[i] \in 0..MaxRetries /\ mails[i] <= retries[i] + 1
    BY DEF TaskInv, TTypeOK, TaskOK
  <2> QED
    BY <2>1, TasksAssumption
<1> QED
  BY <1>1, TasksInvariant, PTL

(* A task writes one Notification at most, and only after its mail went out. *)
THEOREM NoticeIsLast == TSpec => []NoticeOnceAndAfterMail
<1>1. TaskInv => NoticeOnceAndAfterMail
  BY DEF TaskInv, TaskOK, NoticeOnceAndAfterMail
<1> QED
  BY <1>1, TasksInvariant, PTL

(* No task that the signals queue fails the validation of its payload. *)
THEOREM PayloadsAreValid == TSpec => []PayloadsValid
<1>1. TaskInv => PayloadsValid
  BY DEF TaskInv, TaskOK, PayloadsValid
<1> QED
  BY <1>1, TasksInvariant, PTL
================================================================================
