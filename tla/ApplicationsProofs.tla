--------------------------- MODULE ApplicationsProofs ---------------------------
(***************************************************************************)
(* Proofs about Applications, for any number of workers, users, jobs,      *)
(* applications and requests.                                              *)
(***************************************************************************)
EXTENDS Applications, FiniteSetTheorems, TLAPS

Handling == {"validated", "checked", "inserted", "loaded", "signalled"}

\* A worker in the middle of a handler has the instance and the key it needs.
InstanceOK ==
  \A w \in Workers :
    /\ pc[w] \in Handling => pk[w] \in AppIds /\ obj[w] \in Row
    /\ pc[w] = "deleting" => pk[w] \in Jobs

TypeInv == TypeOK /\ InstanceOK

--------------------------------------------------------------------------------
(* What the shared parts of the actions keep. *)

LEMMA BeginType ==
  ASSUME TypeInv, NEW w \in Workers, NEW k \in Kinds, NEW i \in AppIds \cup Jobs \cup {None},
         NEW o \in Row \cup {None}, NEW p \in Answered \cup InFlight,
         Begin(w, k, i, o, p), UNCHANGED <<db, log, broker>>,
         cascade' \in [Workers -> SUBSET AppIds],
         p \in Handling => i \in AppIds /\ o \in Row,
         p = "deleting" => i \in Jobs
  PROVE  TypeInv'
<1>1. TypeOK'
  <2>1. job' = job /\ row' = row /\ issued' = issued /\ log' = log /\ broker' = broker
    BY DEF db
  <2>2. /\ pc' \in [Workers -> Answered \cup InFlight]
        /\ kind' \in [Workers -> Kinds]
        /\ accepted' \in Nat
    BY DEF TypeInv, TypeOK, Begin
  <2>3. /\ pk' \in [Workers -> AppIds \cup Jobs \cup {None}]
        /\ obj' \in [Workers -> Row \cup {None}]
    BY DEF TypeInv, TypeOK, Begin
  <2> QED
    BY <2>1, <2>2, <2>3 DEF TypeInv, TypeOK
<1>2. InstanceOK'
  BY DEF TypeInv, TypeOK, InstanceOK, Begin
<1> QED BY <1>1, <1>2 DEF TypeInv

LEMMA LoadedType ==
  ASSUME TypeInv, NEW w \in Workers, NEW k \in Kinds, NEW a \in AppIds, NEW o \in Row,
         Begin(w, k, a, o, "loaded"), UNCHANGED <<db, log, broker, cascade>>
  PROVE  TypeInv'
<1>1. cascade' \in [Workers -> SUBSET AppIds]
  BY DEF TypeInv, TypeOK
<1> QED
  BY <1>1, BeginType DEF InFlight

LEMMA DismissedType ==
  ASSUME TypeInv, NEW w \in Workers, NEW k \in Kinds, NEW a \in AppIds,
         NEW p \in {"missing", "refused"},
         Begin(w, k, a, None, p), UNCHANGED <<db, log, broker, cascade>>
  PROVE  TypeInv'
<1>1. cascade' \in [Workers -> SUBSET AppIds]
  BY DEF TypeInv, TypeOK
<1> QED
  BY <1>1, BeginType DEF Answered, Handling

LEMMA DelayType ==
  ASSUME TypeInv, NEW w \in Workers, NEW m \in Message,
         NEW p \in Answered \cup InFlight, Delay(w, m, p)
  PROVE  /\ log' \in Seq(Message)
         /\ pc' \in [Workers -> Answered \cup InFlight]
         /\ \A v \in Workers \ {w} : pc'[v] = pc[v]
         /\ pc'[w] \in {p, "failed"}
<1>1. log \in Seq(Message) /\ Append(log, m) \in Seq(Message)
  BY DEF TypeInv, TypeOK
<1>2. log' \in Seq(Message)
  BY <1>1 DEF Delay
<1>3. pc' = [pc EXCEPT ![w] = p] \/ pc' = [pc EXCEPT ![w] = "failed"]
  BY DEF Delay, Goto
<1> QED
  BY <1>2, <1>3 DEF TypeInv, TypeOK, Answered

LEMMA TypeStep == TypeInv /\ [Next]_vars => TypeInv'
<1> SUFFICES ASSUME TypeInv, [Next]_vars PROVE TypeInv'
  OBVIOUS
<1> USE ConstantsAssumption
<1>1. CASE \E w \in Workers : Accept(w)
  <2> PICK w \in Workers : Accept(w)
    BY <1>1
  <2>1. ASSUME NEW c \in Candidates, NEW j \in Jobs, NEW a \in AppIds,
               ApplyValidateJob(w, c, j, a)
        PROVE  TypeInv'
    <3> DEFINE o == [job |-> j, applicant |-> c, status |-> "applied", notes |-> Blank]
               p == IF job[j] = "open" THEN "validated" ELSE "refused"
    <3>1. o \in Row
      BY DEF Row, Status
    <3>2. p \in Answered \cup InFlight /\ p # "deleting"
      BY DEF Answered, InFlight
    <3>3. Begin(w, "create", a, o, p) /\ UNCHANGED <<db, log, broker, cascade>>
      BY <2>1 DEF ApplyValidateJob
    <3> QED
      BY <3>1, <3>2, <3>3, BeginType DEF TypeInv, TypeOK, Kinds
  <2>2. ASSUME NEW a \in AppIds, Withdraw(w, a)
        PROVE  TypeInv'
    <3>1. row[a] \in Row \cup {None} /\ UNCHANGED <<db, log, broker, cascade>>
      BY <2>2 DEF Withdraw, TypeInv, TypeOK
    <3>2. CASE Begin(w, "withdraw", a, None, "missing") \/ Begin(w, "withdraw", a, None, "refused")
      BY <3>1, <3>2, DismissedType DEF Kinds
    <3>3. CASE row[a] # None /\ Begin(w, "withdraw", a, [row[a] EXCEPT !.status = "withdrawn"], "loaded")
      <4>1. [row[a] EXCEPT !.status = "withdrawn"] \in Row
        BY <3>1, <3>3 DEF Row, Status
      <4> QED
        BY <3>1, <3>3, <4>1, LoadedType DEF Kinds
    <3> QED BY <2>2, <3>2, <3>3 DEF Withdraw
  <2>3. ASSUME NEW a \in AppIds, NEW s \in Status, NEW k \in {"patch", "patch_notes"},
               NEW n \in Notes, PatchStatus(w, a, s, k, n)
        PROVE  TypeInv'
    <3> DEFINE o == [row[a] EXCEPT !.status = s, !.notes = NotesOf(k, row[a], n)]
    <3>1. row[a] \in Row \cup {None} /\ UNCHANGED <<db, log, broker, cascade>>
      BY <2>3 DEF PatchStatus, TypeInv, TypeOK
    <3>2. CASE Begin(w, k, a, None, "missing") \/ Begin(w, k, a, None, "refused")
      BY <3>1, <3>2, DismissedType DEF Kinds
    <3>3. CASE row[a] # None /\ Begin(w, k, a, o, "loaded")
      <4>1. o \in Row
        BY <3>1, <3>3 DEF Row, NotesOf
      <4> HIDE DEF o
      <4> QED
        BY <3>1, <3>3, <4>1, LoadedType DEF Kinds
    <3> QED BY <2>3, <3>2, <3>3 DEF PatchStatus
  <2>4. ASSUME NEW a \in AppIds, NEW o \in Row, AdminEdit(w, a, o)
        PROVE  TypeInv'
    <3>1. \/ Begin(w, "admin", a, o, "loaded") \/ Begin(w, "admin", a, None, "refused")
      BY <2>4 DEF AdminEdit
    <3>2. UNCHANGED <<db, log, broker, cascade>>
      BY <2>4 DEF AdminEdit
    <3> QED
      BY <3>1, <3>2, LoadedType, DismissedType DEF Kinds
  <2>5. ASSUME NEW j \in Jobs, DeleteJobCascade(w, j)
        PROVE  TypeInv'
    <3>1. /\ Begin(w, "delete_job", j, None, "deleting")
          /\ UNCHANGED <<db, log, broker>>
          /\ cascade' \in [Workers -> SUBSET AppIds]
      BY <2>5 DEF DeleteJobCascade, Dependents, TypeInv, TypeOK
    <3> QED
      BY <3>1, BeginType DEF Kinds, InFlight, Handling
  <2>6. ASSUME TurnedAway(w)
        PROVE  TypeInv'
    <3>1. \E p \in {"refused", "failed"} : Begin(w, "none", None, None, p)
      BY <2>6 DEF TurnedAway
    <3>2. cascade' \in [Workers -> SUBSET AppIds] /\ UNCHANGED <<db, log, broker>>
      BY <2>6 DEF TurnedAway, TypeInv, TypeOK
    <3> QED
      BY <3>1, <3>2, BeginType DEF Kinds, Answered, Handling
  <2> QED
    BY <2>1, <2>2, <2>3, <2>4, <2>5, <2>6 DEF Accept
<1>2. CASE \E w \in Workers : Proceed(w)
  <2> PICK w \in Workers : Proceed(w)
    BY <1>2
  <2>1. CASE ApplyCheckDuplicate(w)
    BY <2>1 DEF ApplyCheckDuplicate, Goto, TypeInv, TypeOK, InstanceOK, db, local,
                Answered, InFlight, Handling
  <2>2. CASE ApplyInsert(w)
    BY <2>2 DEF ApplyInsert, Goto, TypeInv, TypeOK, InstanceOK, local,
                Answered, InFlight, Handling
  <2>3. CASE ApplyPostSave(w)
    <3>1. Received(pk[w]) \in Message
      BY <2>3 DEF ApplyPostSave, Received, Message, Status, TypeInv, InstanceOK, Handling
    <3> QED
      BY <2>3, <3>1, DelayType DEF ApplyPostSave, TypeInv, TypeOK, InstanceOK, db, local,
                Answered, InFlight, Handling
  <2>4. CASE PreSave(w)
    <3>1. pk[w] \in AppIds /\ obj[w] \in Row /\ row[pk[w]] \in Row \cup {None}
      BY <2>4 DEF PreSave, TypeInv, TypeOK, InstanceOK, Handling
    <3>2. CASE Goto(w, "signalled") /\ UNCHANGED log
      BY <2>4, <3>1, <3>2 DEF PreSave, Goto, TypeInv, TypeOK, InstanceOK, db, local,
                              Answered, InFlight, Handling
    <3>3. CASE /\ Changed(row[pk[w]], obj[w])
               /\ Delay(w, StatusMail(pk[w], row[pk[w]].status, obj[w].status), "signalled")
      <4>1. StatusMail(pk[w], row[pk[w]].status, obj[w].status) \in Message
        BY <3>1, <3>3 DEF StatusMail, Message, Row, Changed
      <4> QED
        BY <2>4, <3>1, <3>3, <4>1, DelayType
        DEF PreSave, TypeInv, TypeOK, InstanceOK, db, local, Answered, InFlight, Handling
    <3> QED BY <2>4, <3>2, <3>3 DEF PreSave
  <2>5. CASE Update(w)
    <3>1. row' \in [AppIds -> Row \cup {None}]
      <4>1. pk[w] \in AppIds /\ obj[w] \in Row
        BY <2>5 DEF Update, TypeInv, InstanceOK, Handling
      <4>2. CASE row[pk[w]] = None
        BY <2>5, <4>2 DEF Update, TypeInv, TypeOK
      <4>3. CASE row[pk[w]] # None
        <5> DEFINE r == row[pk[w]]
                   new == [r EXCEPT !.status = obj[w].status,
                                    !.notes = IF kind[w] = "withdraw" THEN @ ELSE obj[w].notes]
        <5>1. r \in Row
          BY <4>1, <4>3 DEF TypeInv, TypeOK
        <5>2. new \in Row
          BY <4>1, <5>1 DEF Row
        <5>3. row' = [row EXCEPT ![pk[w]] = new]
          BY <2>5, <4>1, <4>3, <5>1 DEF Update, TypeInv, TypeOK, Row
        <5> HIDE DEF new
        <5> QED
          BY <4>1, <5>2, <5>3 DEF TypeInv, TypeOK
      <4> QED BY <4>2, <4>3
    <3>2. pc' = [pc EXCEPT ![w] = "failed"] \/ pc' = [pc EXCEPT ![w] = "saved"]
      BY <2>5 DEF Update, Goto
    <3> QED
      BY <2>5, <3>1, <3>2 DEF Update, TypeInv, TypeOK, InstanceOK, local, Answered, Handling
  <2>6. CASE AdminSave(w)
    <3>1. pk[w] \in AppIds /\ obj[w] \in Row /\ Received(pk[w]) \in Message
      BY <2>6 DEF AdminSave, Received, Message, Status, TypeInv, InstanceOK, Handling
    <3>2. row' = row \/ row' = [row EXCEPT ![pk[w]] = obj[w]]
      BY <2>6 DEF AdminSave
    <3>3. log' = log \/ log' = Append(log, Received(pk[w]))
      BY <2>6 DEF AdminSave
    <3>4. pc' = [pc EXCEPT ![w] = "failed"] \/ pc' = [pc EXCEPT ![w] = "saved"]
      BY <2>6 DEF AdminSave, Goto
    <3>5. UNCHANGED <<job, issued, broker, local, cascade, accepted>>
      BY <2>6 DEF AdminSave
    <3>6. log' \in Seq(Message) /\ row' \in [AppIds -> Row \cup {None}]
      BY <3>1, <3>2, <3>3 DEF TypeInv, TypeOK
    <3> QED
      BY <3>1, <3>4, <3>5, <3>6 DEF TypeInv, TypeOK, InstanceOK, local, Answered, Handling
  <2>7. CASE DeleteJobCommit(w)
    BY <2>7 DEF DeleteJobCommit, Goto, TypeInv, TypeOK, InstanceOK, local,
                Answered, InFlight, Handling, JobStates
  <2> QED
    BY <2>1, <2>2, <2>3, <2>4, <2>5, <2>6, <2>7 DEF Proceed
<1>3. CASE Environment
  BY <1>3 DEF Environment, AdminDelete, JobChanges, BrokerToggles, Crash, Goto, TypeInv,
              TypeOK, InstanceOK, db, local, Answered, InFlight, Handling, JobStates
<1>4. CASE UNCHANGED vars
  BY <1>4 DEF vars, TypeInv, TypeOK, InstanceOK
<1> QED
  BY <1>1, <1>2, <1>3, <1>4 DEF Next

\* The strengthening of TypeOK that is inductive.
LEMMA TypeInvariant == Spec => []TypeInv
<1>1. Init => TypeInv
  BY ConstantsAssumption DEF Init, TypeInv, TypeOK, InstanceOK, JobStates, Answered,
                             Kinds, Handling
<1> QED
  BY <1>1, TypeStep, PTL DEF Spec

(* Every variable keeps to its type: in particular every instance a handler saves is
   a row, and every task has the arguments of one. *)
THEOREM TypeCorrect == Spec => []TypeOK
<1>1. TypeInv => TypeOK
  BY DEF TypeInv
<1> QED
  BY <1>1, TypeInvariant, PTL

--------------------------------------------------------------------------------
Applying == {"validated", "checked"}
Saving == {"loaded", "signalled"}

\* Only a handler that still is to INSERT has an id that no INSERT has used, and no
\* other worker has that id.
IdsInv ==
  /\ \A a \in AppIds : row[a] # None => a \in issued
  /\ \A w \in Workers : pc[w] \in Applying => pk[w] \notin issued
  /\ \A w \in Workers : pc[w] \in Saving \cup {"inserted"} => pk[w] \in issued
  /\ \A v, w \in Workers :
       v # w /\ pc[v] \in Applying /\ pc[w] \in Applying => pk[v] # pk[w]

\* A step that gives no id away, inserts nothing and lets nobody start applying.
LEMMA IdsKept ==
  ASSUME TypeInv, IdsInv, UNCHANGED issued,
         \A a \in AppIds : row'[a] # None => a \in issued,
         \A w \in Workers : pc'[w] \in Applying => pc[w] \in Applying /\ pk'[w] = pk[w],
         \A w \in Workers : pc'[w] \in Saving \cup {"inserted"} => pk'[w] \in issued
  PROVE  IdsInv'
BY DEF IdsInv

LEMMA IdsStep == TypeInv /\ IdsInv /\ [Next]_vars => IdsInv'
<1> SUFFICES ASSUME TypeInv, IdsInv, [Next]_vars PROVE IdsInv'
  OBVIOUS
<1> USE DEF Applying, Saving
<1>1. ASSUME NEW w \in Workers, NEW c \in Candidates, NEW j \in Jobs, NEW a \in AppIds,
             ApplyValidateJob(w, c, j, a)
      PROVE  IdsInv'
  <2>1. a \notin issued /\ \A v \in Workers : pk[v] = a => pc[v] \notin Applying
    BY <1>1 DEF ApplyValidateJob, Answered
  <2>2. \E p \in {"validated", "refused"} : pc' = [pc EXCEPT ![w] = p]
    BY <1>1 DEF ApplyValidateJob, Begin
  <2>3. pk' = [pk EXCEPT ![w] = a] /\ UNCHANGED <<row, issued>>
    BY <1>1 DEF ApplyValidateJob, Begin, db
  <2> QED
    BY <2>1, <2>2, <2>3 DEF IdsInv, TypeInv, TypeOK
<1>2. ASSUME NEW w \in Workers, NEW k, NEW a \in issued, NEW o,
             NEW p \in {"missing", "refused", "loaded"},
             Begin(w, k, a, o, p), UNCHANGED db
      PROVE  IdsInv'
  <2>1. UNCHANGED <<row, issued>>
    BY <1>2 DEF db
  <2>2. pk' = [pk EXCEPT ![w] = a] /\ pc' = [pc EXCEPT ![w] = p]
    BY <1>2 DEF Begin
  <2> QED
    BY <2>1, <2>2, IdsKept DEF IdsInv, TypeInv, TypeOK
<1>3. ASSUME NEW w \in Workers, NEW a \in AppIds, Withdraw(w, a)
      PROVE  IdsInv'
  BY <1>3, <1>2 DEF Withdraw
<1>4. ASSUME NEW w \in Workers, NEW a \in AppIds, NEW s \in Status, NEW k, NEW n,
             PatchStatus(w, a, s, k, n)
      PROVE  IdsInv'
  BY <1>4, <1>2 DEF PatchStatus
<1>5. ASSUME NEW w \in Workers, NEW a \in AppIds, NEW o \in Row, AdminEdit(w, a, o)
      PROVE  IdsInv'
  BY <1>5, <1>2 DEF AdminEdit
<1>6. ASSUME NEW w \in Workers, NEW j \in Jobs, DeleteJobCascade(w, j)
      PROVE  IdsInv'
  <2>1. UNCHANGED <<row, issued>>
    BY <1>6 DEF DeleteJobCascade, db
  <2>2. pk' = [pk EXCEPT ![w] = j] /\ pc' = [pc EXCEPT ![w] = "deleting"]
    BY <1>6 DEF DeleteJobCascade, Begin
  <2> QED
    BY <2>1, <2>2, IdsKept DEF IdsInv, TypeInv, TypeOK
<1>7. ASSUME NEW w \in Workers, ApplyInsert(w)
      PROVE  IdsInv'
  <2>1. pc[w] = "checked" /\ pk[w] \in AppIds /\ pk' = pk
    BY <1>7 DEF ApplyInsert, local, TypeInv, InstanceOK, Handling
  <2>2. CASE pc' = [pc EXCEPT ![w] = "failed"] /\ UNCHANGED <<row, issued>>
    BY <2>1, <2>2, IdsKept DEF IdsInv, TypeInv, TypeOK
  <2>3. CASE /\ pc' = [pc EXCEPT ![w] = "inserted"]
             /\ row' = [row EXCEPT ![pk[w]] = obj[w]]
             /\ issued' = issued \cup {pk[w]}
    BY <2>1, <2>3 DEF IdsInv, TypeInv, TypeOK
  <2> QED
    BY <1>7, <2>2, <2>3 DEF ApplyInsert, Goto
<1>8. ASSUME NEW w \in Workers,
             \/ ApplyCheckDuplicate(w) \/ ApplyPostSave(w) \/ PreSave(w)
             \/ Update(w) \/ AdminSave(w) \/ DeleteJobCommit(w)
      PROVE  IdsInv'
  <2>1. pk' = pk /\ issued' = issued
    BY <1>8 DEF ApplyCheckDuplicate, ApplyPostSave, PreSave, Update, AdminSave,
                DeleteJobCommit, db, local
  <2>2. \A a \in AppIds : row'[a] # None => a \in issued
    <3>1. pc[w] = "signalled" => pk[w] \in issued
      BY DEF IdsInv
    <3> QED
      BY <1>8, <3>1 DEF ApplyCheckDuplicate, ApplyPostSave, PreSave, Update, AdminSave,
                        DeleteJobCommit, db, IdsInv, TypeInv, TypeOK
  <2>3. \E p : /\ pc' = [pc EXCEPT ![w] = p]
               /\ p \in Applying => pc[w] \in Applying
               /\ p \in Saving => pc[w] \in Saving
               /\ p # "inserted"
    <3>1. \E p \in {"checked", "refused", "created", "signalled", "saved", "failed"} :
            /\ pc' = [pc EXCEPT ![w] = p]
            /\ p = "checked" => pc[w] = "validated"
            /\ p = "signalled" => pc[w] = "loaded"
      BY <1>8 DEF ApplyCheckDuplicate, ApplyPostSave, PreSave, Update, AdminSave,
                  DeleteJobCommit, Goto, Delay
    <3> QED BY <3>1
  <2> QED
    BY <2>1, <2>2, <2>3, IdsKept DEF IdsInv, TypeInv, TypeOK
<1>9. CASE Environment
  <2>1. pk' = pk /\ issued' = issued
    BY <1>9 DEF Environment, AdminDelete, JobChanges, BrokerToggles, Crash, db, local
  <2>2. \A a \in AppIds : row'[a] # None => row[a] # None
    BY <1>9 DEF Environment, AdminDelete, JobChanges, BrokerToggles, Crash, db, TypeInv, TypeOK
  <2>3. pc' = pc \/ \E w \in Workers : pc' = [pc EXCEPT ![w] = "idle"]
    BY <1>9 DEF Environment, AdminDelete, JobChanges, BrokerToggles, Crash, Goto
  <2> QED
    BY <2>1, <2>2, <2>3, IdsKept DEF IdsInv, TypeInv, TypeOK
<1>10. CASE UNCHANGED vars
  BY <1>10 DEF vars, IdsInv
<1>11. ASSUME NEW w \in Workers, TurnedAway(w)
       PROVE  IdsInv'
  <2>1. UNCHANGED <<row, issued>>
    BY <1>11 DEF TurnedAway, db
  <2>2. /\ pk' = [pk EXCEPT ![w] = None]
        /\ \E p \in {"refused", "failed"} : pc' = [pc EXCEPT ![w] = p]
    BY <1>11 DEF TurnedAway, Begin
  <2> QED
    BY <2>1, <2>2, IdsKept DEF IdsInv, TypeInv, TypeOK
<1> QED
  BY <1>1, <1>3, <1>4, <1>5, <1>6, <1>7, <1>8, <1>9, <1>10, <1>11 DEF Next, Accept, Proceed
--------------------------------------------------------------------------------
SameKey(r, q) == r.job = q.job /\ r.applicant = q.applicant

TableInv == UniqueApplication /\ NoOrphan

\* Rows only go, or keep their keys; no job goes that a row needs.
LEMMA KeysKept ==
  ASSUME TableInv,
         \A a \in AppIds : row'[a] # None => row[a] # None /\ SameKey(row'[a], row[a]),
         \A a \in AppIds : row'[a] # None => job'[row[a].job] # "deleted"
  PROVE  TableInv'
<1>1. UniqueApplication'
  BY DEF TableInv, UniqueApplication, SameKey
<1>2. NoOrphan'
  BY DEF TableInv, NoOrphan, SameKey
<1> QED BY <1>1, <1>2 DEF TableInv

\* A row that no rival and no missing job stops is inserted, or replaces another.
LEMMA RowWritten ==
  ASSUME TypeInv, TableInv, NEW a \in AppIds, NEW r \in Row,
         Rivals(a, r) = {}, JobExists(r.job),
         job' = job, row' = [row EXCEPT ![a] = r]
  PROVE  TableInv'
<1>1. \A b \in AppIds : row'[b] = IF b = a THEN r ELSE row[b]
  BY DEF TypeInv, TypeOK
<1>2. \A b \in AppIds \ {a} : row[b] # None => ~SameKey(row[b], r)
  BY DEF Rivals, SameKey
<1>3. UniqueApplication'
  BY <1>1, <1>2 DEF TableInv, UniqueApplication, SameKey
<1>4. NoOrphan'
  BY <1>1 DEF TableInv, NoOrphan, JobExists
<1> QED BY <1>3, <1>4 DEF TableInv

LEMMA TableStep == TypeInv /\ TableInv /\ [Next]_vars => TableInv'
<1> SUFFICES ASSUME TypeInv, TableInv, [Next]_vars PROVE TableInv'
  OBVIOUS
<1>1. \A w \in Workers : pc[w] \in Handling => pk[w] \in AppIds /\ obj[w] \in Row
  BY DEF TypeInv, InstanceOK
<1>2. ASSUME UNCHANGED <<job, row>>
      PROVE  TableInv'
  BY <1>2 DEF TableInv, UniqueApplication, NoOrphan
<1>3. ASSUME NEW w \in Workers, Accept(w)
      PROVE  TableInv'
  BY <1>2, <1>3 DEF Accept, TurnedAway, ApplyValidateJob, Withdraw, PatchStatus, AdminEdit,
                    DeleteJobCascade, db
<1>4. ASSUME NEW w \in Workers, ApplyInsert(w) \/ AdminSave(w)
      PROVE  TableInv'
  <2>1. pk[w] \in AppIds /\ obj[w] \in Row /\ job' = job
    BY <1>1, <1>4 DEF ApplyInsert, AdminSave, Handling
  <2>2. \/ row' = row
        \/ /\ Rivals(pk[w], obj[w]) = {} /\ JobExists(obj[w].job)
           /\ row' = [row EXCEPT ![pk[w]] = obj[w]]
    BY <1>4 DEF ApplyInsert, AdminSave
  <2> QED
    BY <1>2, <2>1, <2>2, RowWritten
<1>5. ASSUME NEW w \in Workers, Update(w)
      PROVE  TableInv'
  <2>1. \A a \in AppIds : row'[a] # None => row[a] # None /\ SameKey(row'[a], row[a])
    BY <1>1, <1>5 DEF Update, Handling, SameKey, TypeInv, TypeOK, Row
  <2>2. job' = job
    BY <1>5 DEF Update
  <2> QED
    BY <2>1, <2>2, KeysKept DEF TableInv, NoOrphan
<1>6. ASSUME NEW w \in Workers, DeleteJobCommit(w)
      PROVE  TableInv'
  <2>1. CASE row' = row /\ job' = job
    BY <1>2, <2>1
  <2>2. CASE /\ Dependents(pk[w]) \subseteq cascade[w]
             /\ row' = [a \in AppIds |-> IF a \in cascade[w] THEN None ELSE row[a]]
             /\ job' = [job EXCEPT ![pk[w]] = "deleted"]
    <3>1. \A a \in AppIds : row'[a] # None => row'[a] = row[a] /\ a \notin cascade[w]
      BY <2>2
    <3>2. ASSUME NEW a \in AppIds, row'[a] # None
          PROVE  job'[row[a].job] # "deleted"
      <4>1. row[a] # None /\ row[a].job \in Jobs /\ row[a].job # pk[w]
        BY <2>2, <3>1, <3>2 DEF Dependents, TypeInv, TypeOK, Row
      <4> QED
        BY <2>2, <4>1 DEF TableInv, NoOrphan, TypeInv, TypeOK
    <3> QED
      BY <3>1, <3>2, KeysKept DEF SameKey
  <2> QED
    BY <1>6, <2>1, <2>2 DEF DeleteJobCommit
<1>7. ASSUME NEW w \in Workers, ApplyCheckDuplicate(w) \/ ApplyPostSave(w) \/ PreSave(w)
      PROVE  TableInv'
  BY <1>2, <1>7 DEF ApplyCheckDuplicate, ApplyPostSave, PreSave, db
<1>8. CASE Environment
  <2>1. \A a \in AppIds : row'[a] # None => row'[a] = row[a]
    BY <1>8 DEF Environment, AdminDelete, JobChanges, BrokerToggles, Crash, db, TypeInv, TypeOK
  <2>2. \A j \in Jobs : job'[j] = "deleted" => job[j] = "deleted"
    BY <1>8 DEF Environment, AdminDelete, JobChanges, BrokerToggles, Crash, db, TypeInv, TypeOK
  <2>3. \A a \in AppIds : row[a] # None => row[a].job \in Jobs
    BY DEF TypeInv, TypeOK, Row
  <2> QED
    BY <2>1, <2>2, <2>3, KeysKept DEF SameKey, TableInv, NoOrphan
<1>9. CASE UNCHANGED vars
  BY <1>2, <1>9 DEF vars
<1> QED
  BY <1>3, <1>4, <1>5, <1>6, <1>7, <1>8, <1>9 DEF Next, Proceed

(* One application per candidate and job, and none of a deleted job, for any number
   of overlapping requests, admin edits and deletions. *)
THEOREM TablesConsistent == Spec => [](UniqueApplication /\ NoOrphan)
<1>1. Init => TableInv
  BY DEF Init, TableInv, UniqueApplication, NoOrphan
<1>2. TypeInv /\ TableInv /\ [Next]_vars => TableInv'
  BY TableStep
<1> QED
  BY <1>1, <1>2, TypeInvariant, PTL DEF Spec, TableInv

(* No application points to a deleted job: the half of TablesConsistent that is about the
   foreign key, which the deletion of a job and the INSERTs race for. *)
THEOREM NoneDangles == Spec => []NoOrphan
BY TablesConsistent, PTL

--------------------------------------------------------------------------------
SaveKinds == {"withdraw", "patch", "patch_notes"}

\* The sequence l of tasks contains m; it has one that tells of status s of a.
Holds(l, m) == \E i \in 1..Len(l) : l[i] = m
Tells(l, a, s) ==
  \E i \in 1..Len(l) : l[i].task = "status" /\ l[i].app = a /\ l[i].new = s

\* Without admin edits, of each worker: what it is about to write is a status some task
\* tells of, unless the row is gone; what it has answered is in the log.
WorkerOK(w) ==
  /\ pc[w] \in Applying => obj[w].status = "applied"
  /\ pc[w] = "deleting" => kind[w] = "delete_job"
  /\ pc[w] \in Saving => kind[w] \in SaveKinds /\ obj[w].status # "applied"
  /\ pc[w] = "signalled" => row[pk[w]] = None \/ Tells(log, pk[w], obj[w].status)
  /\ pc[w] = "created" => Holds(log, Received(pk[w]))
  /\ pc[w] = "saved" /\ kind[w] \in SaveKinds => Tells(log, pk[w], obj[w].status)

RowOK(a) ==
  row[a] # None /\ row[a].status # "applied" => Tells(log, a, row[a].status)

AnnounceInv == /\ \A a \in AppIds : RowOK(a)
               /\ \A w \in Workers : WorkerOK(w)

AllInv == TypeInv /\ IdsInv /\ AnnounceInv

LEMMA AnnounceInvSuffices == AnnounceInv => StatusAnnounced /\ SuccessMeansQueued
BY DEF AnnounceInv, RowOK, WorkerOK, StatusAnnounced, SuccessMeansQueued, Announced,
       Tells, Holds, SaveKinds

\* Nothing is ever taken out of the log.
LEMMA LogGrows ==
  ASSUME TypeInv, NEW m \in Message, log' = log \/ log' = Append(log, m)
  PROVE  /\ \A a, s : Tells(log, a, s) => Tells(log', a, s)
         /\ \A n : Holds(log, n) => Holds(log', n)
<1>1. log \in Seq(Message)
  BY DEF TypeInv, TypeOK
<1>2. Len(log') \in Nat /\ Len(log) \in Nat /\ Len(log) <= Len(log')
  BY <1>1
<1>3. \A i \in 1..Len(log) : log'[i] = log[i] /\ i \in 1..Len(log')
  BY <1>1, <1>2
<1> QED
  BY <1>3 DEF Tells, Holds

\* Appending a task puts it in the log.
LEMMA AppendQueues ==
  ASSUME TypeInv, NEW m \in Message, log' = Append(log, m)
  PROVE  /\ Holds(log', m)
         /\ m.task = "status" => Tells(log', m.app, m.new)
<1>1. log \in Seq(Message)
  BY DEF TypeInv, TypeOK
<1>2. Len(log') \in 1..Len(log') /\ log'[Len(log')] = m
  BY <1>1
<1> QED
  BY <1>2 DEF Tells, Holds

LEMMA StepLog ==
  ASSUME TypeInv, [Next]_vars
  PROVE  log' = log \/ \E m \in Message : log' = Append(log, m)
<1>1. ASSUME NEW w \in Workers, pc[w] \in {"inserted", "loaded", "signalled"}
      PROVE  pk[w] \in AppIds /\ obj[w] \in Row /\ Received(pk[w]) \in Message
  BY <1>1 DEF TypeInv, InstanceOK, Handling, Received, Message, Status
<1>2. ASSUME NEW w \in Workers, Accept(w)
      PROVE  log' = log
  BY <1>2 DEF Accept, TurnedAway, ApplyValidateJob, Withdraw, PatchStatus, AdminEdit, DeleteJobCascade
<1>3. ASSUME NEW w \in Workers, Proceed(w)
      PROVE  log' = log \/ \E m \in Message : log' = Append(log, m)
  <2>1. CASE PreSave(w)
    <3>1. Changed(row[pk[w]], obj[w]) =>
            StatusMail(pk[w], row[pk[w]].status, obj[w].status) \in Message
      BY <1>1, <2>1 DEF PreSave, Changed, StatusMail, Message, Row, TypeInv, TypeOK
    <3> QED
      BY <2>1, <3>1 DEF PreSave, Delay
  <2>2. CASE ApplyPostSave(w) \/ AdminSave(w)
    BY <1>1, <2>2 DEF ApplyPostSave, AdminSave, Delay
  <2> QED
    BY <1>3, <2>1, <2>2 DEF Proceed, ApplyCheckDuplicate, ApplyInsert, Update, DeleteJobCommit
<1>4. Environment => log' = log
  BY DEF Environment, AdminDelete, JobChanges, BrokerToggles, Crash
<1> QED
  BY <1>2, <1>3, <1>4 DEF Next, vars

\* What is announced stays announced.
LEMMA AnnouncedStays ==
  ASSUME TypeInv, [Next]_vars
  PROVE  /\ \A a, s : Tells(log, a, s) => Tells(log', a, s)
         /\ \A n : Holds(log, n) => Holds(log', n)
BY StepLog, LogGrows

LEMMA NeverAppliedAgain ==
  \A s \in Status : "applied" \notin NextStatuses(s)
BY DEF NextStatuses, VALID_TRANSITIONS, Status
LEMMA NoResurrection ==
  ASSUME ~AdminEditing, AllInv, [Next]_vars, NEW a \in issued, row[a] = None
  PROVE  row'[a] = None
<1>1. a \in AppIds
  BY DEF AllInv, TypeInv, TypeOK
<1>2. ASSUME NEW w \in Workers, Accept(w)
      PROVE  row' = row
  BY <1>2 DEF Accept, TurnedAway, ApplyValidateJob, Withdraw, PatchStatus, AdminEdit, DeleteJobCascade, db
<1>3. ASSUME NEW w \in Workers, Proceed(w)
      PROVE  row'[a] = None
  <2>1. CASE ApplyInsert(w)
    <3>1. pk[w] # a
      BY <2>1 DEF ApplyInsert, AllInv, IdsInv, Applying
    <3> QED
      BY <1>1, <2>1, <3>1 DEF ApplyInsert, AllInv, TypeInv, TypeOK
  <2>2. CASE Update(w)
    <3>1. CASE row[pk[w]] = None
      BY <2>2, <3>1 DEF Update
    <3>2. CASE row[pk[w]] # None
      BY <1>1, <2>2, <3>2 DEF Update, AllInv, TypeInv, TypeOK
    <3> QED BY <3>1, <3>2
  <2>3. ~AdminSave(w)
    BY DEF AdminSave, SavesEveryColumn, AllInv, AnnounceInv, WorkerOK, Saving, SaveKinds
  <2>4. CASE DeleteJobCommit(w)
    BY <1>1, <2>4 DEF DeleteJobCommit
  <2> QED
    BY <1>3, <2>1, <2>2, <2>3, <2>4 DEF Proceed, ApplyCheckDuplicate, ApplyPostSave, PreSave, db
<1>4. Environment => row'[a] = None
  BY <1>1 DEF Environment, AdminDelete, JobChanges, BrokerToggles, Crash, db, AllInv, TypeInv, TypeOK
<1> QED
  BY <1>2, <1>3, <1>4 DEF Next, vars

\* A worker that does not move keeps what is known of it, whatever the others do.
LEMMA WorkerKept ==
  ASSUME ~AdminEditing, AllInv, [Next]_vars, NEW v \in Workers,
         pc'[v] = pc[v], kind'[v] = kind[v], pk'[v] = pk[v], obj'[v] = obj[v]
  PROVE  WorkerOK(v)'
<1>1. WorkerOK(v)
  BY DEF AllInv, AnnounceInv
<1>2. /\ \A a, s : Tells(log, a, s) => Tells(log', a, s)
      /\ \A n : Holds(log, n) => Holds(log', n)
  BY AnnouncedStays DEF AllInv
<1>3. pc[v] = "signalled" /\ row[pk[v]] = None => row'[pk[v]] = None
  BY NoResurrection DEF AllInv, IdsInv, Saving
<1> QED
  BY <1>1, <1>2, <1>3 DEF WorkerOK, Received

\* A step that gives no row a status that it did not have, or "applied".
LEMMA RowsKept ==
  ASSUME AllInv, [Next]_vars, NEW a \in AppIds,
         row'[a] # None =>
           \/ row[a] # None /\ row'[a].status = row[a].status
           \/ row'[a].status = "applied"
  PROVE  RowOK(a)'
BY AnnouncedStays DEF AllInv, AnnounceInv, RowOK
LEMMA AnnounceStep ==
  ASSUME ~AdminEditing, AllInv, [Next]_vars
  PROVE  AnnounceInv'
<1> USE DEF Saving, Applying
<1>1. TypeInv /\ IdsInv /\ TypeInv'
  BY TypeStep DEF AllInv
\* It is enough to look at the worker that moves and at the rows.
<1>2. ASSUME NEW w \in Workers, \A a \in AppIds : RowOK(a)', WorkerOK(w)',
             \A v \in Workers \ {w} : /\ pc'[v] = pc[v] /\ kind'[v] = kind[v]
                                      /\ pk'[v] = pk[v] /\ obj'[v] = obj[v]
      PROVE  AnnounceInv'
  <2>1. \A v \in Workers \ {w} : WorkerOK(v)'
    BY <1>2, WorkerKept
  <2> QED
    BY <1>2, <2>1 DEF AnnounceInv
<1>3. ASSUME row' = row
      PROVE  \A a \in AppIds : RowOK(a)'
  BY <1>3, RowsKept
<1>4. ASSUME NEW w \in Workers, NEW k, NEW i, NEW o, NEW p \in {"missing", "refused", "failed"},
             Begin(w, k, i, o, p), UNCHANGED db
      PROVE  AnnounceInv'
  <2>1. pc'[w] = p
    BY <1>1, <1>4 DEF Begin, TypeInv, TypeOK
  <2>2. WorkerOK(w)'
    BY <2>1 DEF WorkerOK
  <2> QED
    BY <1>1, <1>2, <1>3, <1>4, <2>2 DEF Begin, db, TypeInv, TypeOK
<1>5. ASSUME NEW w \in Workers, NEW k \in SaveKinds, NEW i, NEW o, o.status # "applied",
             Begin(w, k, i, o, "loaded"), UNCHANGED db
      PROVE  AnnounceInv'
  <2>1. pc'[w] = "loaded" /\ kind'[w] = k /\ obj'[w] = o
    BY <1>1, <1>5 DEF Begin, TypeInv, TypeOK
  <2>2. WorkerOK(w)'
    BY <1>5, <2>1 DEF WorkerOK
  <2> QED
    BY <1>1, <1>2, <1>3, <1>5, <2>2 DEF Begin, db, TypeInv, TypeOK
<1>6. ASSUME NEW w \in Workers, NEW c \in Candidates, NEW j \in Jobs, NEW a \in AppIds,
             ApplyValidateJob(w, c, j, a)
      PROVE  AnnounceInv'
  <2> DEFINE o == [job |-> j, applicant |-> c, status |-> "applied", notes |-> Blank]
  <2>1. \E p \in {"validated", "refused"} : Begin(w, "create", a, o, p)
    BY <1>6 DEF ApplyValidateJob
  <2>2. pc'[w] \in {"validated", "refused"} /\ obj'[w] = o
    BY <1>1, <2>1 DEF Begin, TypeInv, TypeOK
  <2>3. WorkerOK(w)'
    BY <2>2 DEF WorkerOK
  <2>4. row' = row
    BY <1>6 DEF ApplyValidateJob, db
  <2> QED
    BY <1>1, <1>2, <1>3, <2>1, <2>3, <2>4 DEF Begin, TypeInv, TypeOK
<1>7. ASSUME NEW w \in Workers, NEW a \in AppIds, Withdraw(w, a)
      PROVE  AnnounceInv'
  <2>1. row[a] # None => [row[a] EXCEPT !.status = "withdrawn"].status # "applied"
    BY <1>1 DEF TypeInv, TypeOK, Row
  <2> QED
    BY <1>4, <1>5, <1>7, <2>1 DEF Withdraw, SaveKinds
<1>8. ASSUME NEW w \in Workers, NEW a \in AppIds, NEW s \in Status,
             NEW k \in {"patch", "patch_notes"}, NEW n, PatchStatus(w, a, s, k, n)
      PROVE  AnnounceInv'
  <2> DEFINE o == [row[a] EXCEPT !.status = s, !.notes = NotesOf(k, row[a], n)]
  <2>1. row[a] # None => row[a] \in Row /\ row[a].status \in Status /\ o.status = s
    BY <1>1 DEF TypeInv, TypeOK, Row
  <2>2. \/ row[a] # None /\ s \in NextStatuses(row[a].status) /\ Begin(w, k, a, o, "loaded")
        \/ Begin(w, k, a, None, "missing") \/ Begin(w, k, a, None, "refused")
    BY <1>8 DEF PatchStatus, ValidateStatus
  <2>3. UNCHANGED db
    BY <1>8 DEF PatchStatus
  <2>4. k \in SaveKinds
    BY DEF SaveKinds
  <2> HIDE DEF o
  <2> QED
    BY <1>4, <1>5, <2>1, <2>2, <2>3, <2>4, NeverAppliedAgain
<1>9. ASSUME NEW w \in Workers, NEW j \in Jobs, DeleteJobCascade(w, j)
      PROVE  AnnounceInv'
  <2>1. Begin(w, "delete_job", j, None, "deleting") /\ row' = row
    BY <1>9 DEF DeleteJobCascade, db
  <2>2. pc'[w] = "deleting" /\ kind'[w] = "delete_job"
    BY <1>1, <2>1 DEF Begin, TypeInv, TypeOK
  <2>3. WorkerOK(w)'
    BY <2>2 DEF WorkerOK
  <2> QED
    BY <1>1, <1>2, <1>3, <2>1, <2>3 DEF Begin, TypeInv, TypeOK
<1>10. ASSUME NEW w \in Workers, Proceed(w), \A a \in AppIds : RowOK(a)', WorkerOK(w)'
       PROVE  AnnounceInv'
  <2>1. UNCHANGED local /\ \E p : pc' = [pc EXCEPT ![w] = p]
    BY <1>10 DEF Proceed, ApplyCheckDuplicate, ApplyInsert, ApplyPostSave, PreSave, Update,
                 AdminSave, DeleteJobCommit, Goto, Delay
  <2> QED
    BY <1>1, <1>2, <1>10, <2>1 DEF local, TypeInv, TypeOK
<1>11. ASSUME NEW w \in Workers, ApplyCheckDuplicate(w)
       PROVE  AnnounceInv'
  <2>1. /\ pc[w] = "validated" /\ pc'[w] \in {"checked", "refused"}
        /\ obj' = obj /\ row' = row
    BY <1>1, <1>11 DEF ApplyCheckDuplicate, Goto, db, local, TypeInv, TypeOK
  <2>2. WorkerOK(w)'
    BY <2>1 DEF WorkerOK, AllInv, AnnounceInv
  <2> QED
    BY <1>3, <1>10, <1>11, <2>1, <2>2 DEF Proceed
<1>12. ASSUME NEW w \in Workers, ApplyInsert(w)
       PROVE  AnnounceInv'
  <2>1. pc[w] = "checked" /\ obj[w].status = "applied" /\ pk[w] \in AppIds
    BY <1>1, <1>12 DEF ApplyInsert, AllInv, AnnounceInv, WorkerOK, TypeInv, InstanceOK, Handling
  <2>2. row' = row \/ row' = [row EXCEPT ![pk[w]] = obj[w]]
    BY <1>12 DEF ApplyInsert
  <2>3. \A a \in AppIds : RowOK(a)'
    BY <1>1, <2>1, <2>2, RowsKept DEF TypeInv, TypeOK
  <2>4. pc'[w] \in {"inserted", "failed"}
    BY <1>1, <1>12 DEF ApplyInsert, Goto, TypeInv, TypeOK
  <2>5. WorkerOK(w)'
    BY <2>4 DEF WorkerOK
  <2> QED
    BY <1>10, <1>12, <2>3, <2>5 DEF Proceed
<1>13. ASSUME NEW w \in Workers, ApplyPostSave(w)
       PROVE  AnnounceInv'
  <2>1. Received(pk[w]) \in Message /\ pk' = pk /\ row' = row
    BY <1>1, <1>13 DEF ApplyPostSave, db, local, TypeInv, InstanceOK, Handling, Received,
                       Message, Status
  <2>2. \/ pc'[w] = "created" /\ log' = Append(log, Received(pk[w]))
        \/ pc'[w] = "failed"
    BY <1>1, <1>13 DEF ApplyPostSave, Delay, Goto, TypeInv, TypeOK
  <2>3. WorkerOK(w)'
    BY <1>1, <2>1, <2>2, AppendQueues DEF WorkerOK, Received
  <2> QED
    BY <1>3, <1>10, <1>13, <2>1, <2>3 DEF Proceed
<1>14. ASSUME NEW w \in Workers, PreSave(w)
       PROVE  AnnounceInv'
  <2> DEFINE old == row[pk[w]]
             m == StatusMail(pk[w], old.status, obj[w].status)
  <2>1. /\ pc[w] = "loaded" /\ pk[w] \in AppIds /\ obj[w] \in Row
        /\ kind[w] \in SaveKinds /\ obj[w].status # "applied"
    BY <1>1, <1>14 DEF PreSave, TypeInv, InstanceOK, Handling, AllInv, AnnounceInv, WorkerOK
  <2>2. row' = row /\ kind' = kind /\ pk' = pk /\ obj' = obj
    BY <1>14 DEF PreSave, db, local
  <2>3. CASE Changed(old, obj[w]) /\ Delay(w, m, "signalled")
    <3>1. m \in Message /\ m.task = "status" /\ m.app = pk[w] /\ m.new = obj[w].status
      BY <1>1, <2>1, <2>3 DEF StatusMail, Message, Changed, Row, TypeInv, TypeOK
    <3>2. \/ pc'[w] = "signalled" /\ log' = Append(log, m)
          \/ pc'[w] = "failed"
      BY <1>1, <2>3 DEF Delay, Goto, TypeInv, TypeOK
    <3> HIDE DEF m
    <3>3. WorkerOK(w)'
      BY <1>1, <2>1, <2>2, <3>1, <3>2, AppendQueues DEF WorkerOK
    <3> QED
      BY <1>3, <1>10, <1>14, <2>2, <3>3 DEF Proceed
  <2>4. CASE ~Changed(old, obj[w]) /\ Goto(w, "signalled") /\ UNCHANGED log
    <3>1. pc'[w] = "signalled"
      BY <1>1, <2>4 DEF Goto, TypeInv, TypeOK
    <3>2. old = None \/ Tells(log, pk[w], obj[w].status)
      BY <2>1, <2>4 DEF Changed, AllInv, AnnounceInv, RowOK
    <3>3. WorkerOK(w)'
      BY <2>1, <2>2, <2>4, <3>1, <3>2 DEF WorkerOK
    <3> QED
      BY <1>3, <1>10, <1>14, <2>2, <3>3 DEF Proceed
  <2> QED
    BY <1>14, <2>3, <2>4 DEF PreSave
<1>15. ASSUME NEW w \in Workers, Update(w)
       PROVE  AnnounceInv'
  <2>1. /\ pc[w] = "signalled" /\ pk[w] \in AppIds
        /\ row[pk[w]] = None \/ Tells(log, pk[w], obj[w].status)
        /\ log' = log /\ pk' = pk /\ obj' = obj
    BY <1>1, <1>15 DEF Update, local, TypeInv, InstanceOK, Handling, AllInv, AnnounceInv, WorkerOK
  <2>2. CASE row[pk[w]] = None
    <3>1. row' = row /\ pc'[w] = "failed"
      BY <1>1, <1>15, <2>2 DEF Update, Goto, TypeInv, TypeOK
    <3>2. WorkerOK(w)'
      BY <3>1 DEF WorkerOK
    <3> QED
      BY <1>3, <1>10, <1>15, <3>1, <3>2 DEF Proceed
  <2>3. CASE row[pk[w]] # None
    <3>1. /\ pc'[w] = "saved"
          /\ row'[pk[w]].status = obj[w].status
          /\ \A a \in AppIds \ {pk[w]} : row'[a] = row[a]
      BY <1>1, <1>15, <2>1, <2>3 DEF Update, Goto, TypeInv, TypeOK, Row
    <3>2. WorkerOK(w)'
      BY <2>1, <2>3, <3>1 DEF WorkerOK
    <3>3. RowOK(pk[w])'
      BY <2>1, <2>3, <3>1 DEF RowOK
    <3>4. \A a \in AppIds \ {pk[w]} : RowOK(a)'
      BY <3>1, RowsKept
    <3>5. \A a \in AppIds : RowOK(a)'
      BY <2>1, <3>3, <3>4
    <3> QED
      BY <1>10, <1>15, <3>2, <3>5 DEF Proceed
  <2> QED BY <2>2, <2>3
<1>16. ASSUME NEW w \in Workers, DeleteJobCommit(w)
       PROVE  AnnounceInv'
  <2>1. kind' = kind /\ kind[w] = "delete_job" /\ pc'[w] \in {"saved", "failed"}
    BY <1>1, <1>16 DEF DeleteJobCommit, local, Goto, TypeInv, TypeOK, AllInv, AnnounceInv, WorkerOK
  <2>2. WorkerOK(w)'
    BY <2>1 DEF WorkerOK, SaveKinds
  <2>3. \A a \in AppIds : row'[a] # None => row'[a] = row[a]
    BY <1>16 DEF DeleteJobCommit
  <2> QED
    BY <1>10, <1>16, <2>2, <2>3, RowsKept DEF Proceed
<1>17. \A w \in Workers : ~AdminSave(w)
  BY DEF AdminSave, SavesEveryColumn, AllInv, AnnounceInv, WorkerOK, SaveKinds
<1>18. CASE Environment
  <2>1. \/ UNCHANGED <<pc, kind, pk, obj>>
        \/ \E w \in Workers : Crash(w)
    BY <1>18 DEF Environment, AdminDelete, JobChanges, BrokerToggles, local
  <2>2. \A a \in AppIds : RowOK(a)'
    <3>1. \A a \in AppIds : row'[a] # None => row'[a] = row[a]
      BY <1>1, <1>18 DEF Environment, AdminDelete, JobChanges, BrokerToggles, Crash, db,
                         TypeInv, TypeOK
    <3> QED
      BY <3>1, RowsKept
  <2>3. ASSUME NEW w \in Workers, Crash(w)
        PROVE  AnnounceInv'
    <3>1. pc'[w] = "idle" /\ kind' = kind /\ pk' = pk
          /\ \A v \in Workers \ {w} : pc'[v] = pc[v] /\ obj'[v] = obj[v]
      BY <1>1, <2>3 DEF Crash, Goto, TypeInv, TypeOK
    <3>2. WorkerOK(w)'
      BY <3>1 DEF WorkerOK
    <3> QED
      BY <1>2, <2>2, <3>1, <3>2
  <2> QED
    BY <2>1, <2>2, <2>3, WorkerKept DEF AnnounceInv
<1>19. CASE UNCHANGED vars
  <2>1. UNCHANGED <<row, pc, kind, pk, obj>>
    BY <1>19 DEF vars
  <2> QED
    BY <1>3, <2>1, WorkerKept DEF AnnounceInv
<1>20. ASSUME NEW w \in Workers, TurnedAway(w)
       PROVE  AnnounceInv'
  BY <1>4, <1>20 DEF TurnedAway
<1> QED
  BY <1>6, <1>7, <1>8, <1>9, <1>11, <1>12, <1>13, <1>14, <1>15, <1>16, <1>17, <1>18, <1>19, <1>20
  DEF Next, Accept, Proceed, AdminEdit, TurnedAway, SaveKinds
LEMMA AllInvariant ==
  ASSUME ~AdminEditing
  PROVE  Spec => []AllInv
<1>1. Init => AllInv
  BY ConstantsAssumption DEF Init, AllInv, TypeInv, TypeOK, InstanceOK, JobStates, Answered,
     Kinds, Handling, IdsInv, Applying, Saving, AnnounceInv, RowOK, WorkerOK
<1>2. AllInv /\ [Next]_vars => AllInv'
  BY TypeStep, IdsStep, AnnounceStep DEF AllInv
<1> QED
  BY <1>1, <1>2, PTL DEF Spec

(* Without admin edits, the status a committed row shows has been handed to the broker
   as a task, for any interleaving of requests and any failures of broker and workers. *)
THEOREM EveryStatusAnnounced ==
  ASSUME ~AdminEditing
  PROVE  Spec => []StatusAnnounced
<1>1. AllInv => StatusAnnounced
  BY AnnounceInvSuffices DEF AllInv
<1> QED
  BY <1>1, AllInvariant, PTL

(* Without admin edits, a 201 or 200 answer means that the mail's task is queued. *)
THEOREM SuccessIsQueued ==
  ASSUME ~AdminEditing
  PROVE  Spec => []SuccessMeansQueued
<1>1. AllInv => SuccessMeansQueued
  BY AnnounceInvSuffices DEF AllInv
<1> QED
  BY <1>1, AllInvariant, PTL

(* Without admin edits, no handler brings a deleted application back. *)
THEOREM DeletedStaysDeleted ==
  ASSUME ~AdminEditing
  PROVE  Spec => NeverResurrected
<1>1. AllInv /\ [Next]_vars => [\A a \in issued : row[a] = None => row'[a] = None]_vars
  BY NoResurrection
<1> QED
  BY <1>1, AllInvariant, PTL DEF Spec, NeverResurrected

--------------------------------------------------------------------------------
(* The locks of an open transaction are held by deletions of jobs only, on rows of
   that job that are still there, and no two of them lock the same row.  A writer
   that waits, waits for a step that waits for nobody. *)
LocksInv ==
  /\ \A w \in Workers : \A a \in cascade[w] :
       pc[w] = "deleting" /\ row[a] # None /\ row[a].job = pk[w]
  /\ \A v, w \in Workers : v # w => cascade[v] \cap cascade[w] = {}

\* No lock is taken, the holders stay where they are, and the locked rows stay.
LEMMA LocksKept ==
  ASSUME TypeInv, LocksInv,
         \A v \in Workers : cascade'[v] \subseteq cascade[v],
         \A v \in Workers : cascade'[v] # {} => pc'[v] = pc[v] /\ pk'[v] = pk[v],
         \A v \in Workers : \A a \in cascade'[v] : row'[a] # None /\ row'[a].job = row[a].job
  PROVE  LocksInv'
<1>1. \A w \in Workers : \A a \in cascade'[w] :
        pc'[w] = "deleting" /\ row'[a] # None /\ row'[a].job = pk'[w]
  BY DEF LocksInv
<1>2. \A v, w \in Workers : v # w => cascade'[v] \cap cascade'[w] = {}
  BY DEF LocksInv
<1> QED BY <1>1, <1>2 DEF LocksInv

LEMMA LocksStep == TypeInv /\ IdsInv /\ LocksInv /\ [Next]_vars => LocksInv'
<1> SUFFICES ASSUME TypeInv, IdsInv, LocksInv, [Next]_vars PROVE LocksInv'
  OBVIOUS
<1>1. /\ pc \in [Workers -> Answered \cup InFlight]
      /\ pk \in [Workers -> AppIds \cup Jobs \cup {None}]
      /\ cascade \in [Workers -> SUBSET AppIds]
      /\ row \in [AppIds -> Row \cup {None}]
  BY DEF TypeInv, TypeOK
<1>2. ASSUME NEW w \in Workers, NEW k, NEW i, NEW o, NEW p, Begin(w, k, i, o, p),
             UNCHANGED <<db, cascade>>
      PROVE  LocksInv'
  <2>1. cascade[w] = {}
    BY <1>1, <1>2 DEF Begin, LocksInv, Answered
  <2>2. /\ row' = row /\ cascade' = cascade
        /\ \A v \in Workers \ {w} : pc'[v] = pc[v] /\ pk'[v] = pk[v]
    BY <1>1, <1>2 DEF Begin, db
  <2> QED
    BY <2>1, <2>2, LocksKept DEF LocksInv
<1>3. ASSUME NEW w \in Workers, NEW j \in Jobs, DeleteJobCascade(w, j)
      PROVE  LocksInv'
  <2>1. /\ row' = row
        /\ cascade' = [cascade EXCEPT ![w] = Dependents(j)]
        /\ pc'[w] = "deleting" /\ pk'[w] = j
        /\ \A v \in Workers \ {w} : pc'[v] = pc[v] /\ pk'[v] = pk[v]
    BY <1>1, <1>3 DEF DeleteJobCascade, Begin, db
  <2>2. \A v \in Workers : cascade[v] \cap Dependents(j) = {}
    BY <1>3 DEF DeleteJobCascade, Locked
  <2>3. \A v \in Workers : cascade'[v] = IF v = w THEN Dependents(j) ELSE cascade[v]
    BY <1>1, <2>1
  <2>4. \A v \in Workers : \A a \in cascade'[v] :
          pc'[v] = "deleting" /\ row'[a] # None /\ row'[a].job = pk'[v]
    <3>1. \A a \in cascade'[w] : row'[a] # None /\ row'[a].job = j
      <4>1. \A a \in Dependents(j) : row[a] # None /\ row[a].job = j
        BY DEF Dependents
      <4>2. cascade'[w] = Dependents(j)
        BY <2>3
      <4> QED
        BY <2>1, <4>1, <4>2
    <3>2. \A v \in Workers \ {w} : \A a \in cascade'[v] :
            pc'[v] = "deleting" /\ row'[a] # None /\ row'[a].job = pk'[v]
      BY <2>1, <2>3 DEF LocksInv
    <3> QED BY <2>1, <3>1, <3>2
  <2>5. \A u, v \in Workers : u # v => cascade'[u] \cap cascade'[v] = {}
    BY <2>2, <2>3 DEF LocksInv
  <2> QED
    BY <2>4, <2>5 DEF LocksInv
\* A step of the handlers that neither takes nor leaves a lock.
<1>4. ASSUME NEW w \in Workers, NEW p, pc' = [pc EXCEPT ![w] = p], pc[w] # "deleting",
             pk' = pk, cascade' = cascade,
             \A v \in Workers : \A a \in cascade[v] : row'[a] # None /\ row'[a].job = row[a].job
      PROVE  LocksInv'
  <2>1. cascade[w] = {}
    BY <1>4 DEF LocksInv
  <2>2. \A v \in Workers \ {w} : pc'[v] = pc[v]
    BY <1>1, <1>4
  <2> QED
    BY <1>4, <2>1, <2>2, LocksKept
<1>5. ASSUME NEW w \in Workers, ApplyInsert(w)
      PROVE  LocksInv'
  <2>1. /\ pc[w] = "checked" /\ pk[w] \in AppIds /\ row[pk[w]] = None
        /\ row' = row \/ row' = [row EXCEPT ![pk[w]] = obj[w]]
        /\ UNCHANGED <<local, cascade>>
    BY <1>5 DEF ApplyInsert, TypeInv, InstanceOK, Handling, IdsInv, Applying
  <2>2. \E p : pc' = [pc EXCEPT ![w] = p]
    BY <1>5 DEF ApplyInsert, Goto
  <2>3. \A v \in Workers : \A a \in cascade[v] : a \in AppIds /\ a # pk[w] /\ row[a] # None
    BY <1>1, <2>1 DEF LocksInv
  <2>4. \A v \in Workers : \A a \in cascade[v] : row'[a] # None /\ row'[a].job = row[a].job
    BY <1>1, <2>1, <2>3
  <2> QED
    BY <1>4, <2>1, <2>2, <2>4 DEF local
<1>6. ASSUME NEW w \in Workers, Update(w) \/ AdminSave(w)
      PROVE  LocksInv'
  <2>1. /\ pc[w] = "signalled" /\ pk[w] \in AppIds /\ ~Locked(pk[w])
        /\ UNCHANGED <<local, cascade>>
    BY <1>6 DEF Update, AdminSave, TypeInv, InstanceOK, Handling
  <2>2. \E p : pc' = [pc EXCEPT ![w] = p]
    BY <1>6 DEF Update, AdminSave, Goto
  <2>3. \A a \in AppIds \ {pk[w]} : row'[a] = row[a]
    <3>1. CASE Update(w)
      BY <1>1, <3>1 DEF Update
    <3>2. CASE AdminSave(w)
      BY <1>1, <3>2 DEF AdminSave
    <3> QED BY <1>6, <3>1, <3>2
  <2>4. \A v \in Workers : \A a \in cascade[v] : row'[a] # None /\ row'[a].job = row[a].job
    BY <1>1, <2>1, <2>3 DEF LocksInv, Locked
  <2> QED
    BY <1>4, <2>1, <2>2, <2>4 DEF local
<1>7. ASSUME NEW w \in Workers, ApplyCheckDuplicate(w) \/ ApplyPostSave(w) \/ PreSave(w)
      PROVE  LocksInv'
  <2>1. pc[w] \in {"validated", "inserted", "loaded"} /\ UNCHANGED <<db, local, cascade>>
    BY <1>7 DEF ApplyCheckDuplicate, ApplyPostSave, PreSave
  <2>2. \E p : pc' = [pc EXCEPT ![w] = p]
    BY <1>7 DEF ApplyCheckDuplicate, ApplyPostSave, PreSave, Goto, Delay
  <2>3. pc[w] # "deleting"
    BY <2>1
  <2> QED
    BY <1>4, <2>1, <2>2, <2>3 DEF db, local, LocksInv
\* A lock is let go together with its transaction.
<1>8. ASSUME NEW w \in Workers, NEW p, pc' = [pc EXCEPT ![w] = p], pk' = pk,
             cascade' = [cascade EXCEPT ![w] = {}],
             \A a \in AppIds \ cascade[w] : row'[a] = row[a]
      PROVE  LocksInv'
  <2>1. \A v \in Workers : cascade'[v] = IF v = w THEN {} ELSE cascade[v]
    BY <1>1, <1>8
  <2>2. \A v \in Workers \ {w} : pc'[v] = pc[v] /\ pk'[v] = pk[v]
    BY <1>1, <1>8
  <2>3. \A v \in Workers : \A a \in cascade'[v] : row'[a] = row[a] /\ row[a] # None
    BY <1>1, <1>8, <2>1 DEF LocksInv
  <2> QED
    BY <2>1, <2>2, <2>3, LocksKept
<1>9. ASSUME NEW w \in Workers, DeleteJobCommit(w)
      PROVE  LocksInv'
  <2>1. \E p : pc' = [pc EXCEPT ![w] = p]
    BY <1>9 DEF DeleteJobCommit, Goto
  <2>2. pk' = pk /\ cascade' = [cascade EXCEPT ![w] = {}]
    BY <1>9 DEF DeleteJobCommit, local
  <2>3. \A a \in AppIds \ cascade[w] : row'[a] = row[a]
    BY <1>9 DEF DeleteJobCommit
  <2> QED
    BY <1>8, <2>1, <2>2, <2>3
<1>10. ASSUME NEW w \in Workers, Crash(w)
       PROVE  LocksInv'
  BY <1>8, <1>10 DEF Crash, Goto, db
<1>11. ASSUME NEW a \in AppIds, AdminDelete(a)
       PROVE  LocksInv'
  <2>1. ~Locked(a) /\ row' = [row EXCEPT ![a] = None] /\ UNCHANGED <<pc, local, cascade>>
    BY <1>11 DEF AdminDelete
  <2>2. \A v \in Workers : \A b \in cascade[v] : row'[b] = row[b] /\ row[b] # None
    BY <1>1, <2>1 DEF Locked, LocksInv
  <2> QED
    BY <2>1, <2>2, LocksKept DEF local
<1>12. ASSUME UNCHANGED <<row, pc, pk, cascade>>
       PROVE  LocksInv'
  BY <1>12 DEF LocksInv
<1>13. ASSUME NEW w \in Workers, Accept(w)
       PROVE  LocksInv'
  BY <1>2, <1>3, <1>13 DEF Accept, TurnedAway, ApplyValidateJob, Withdraw, PatchStatus, AdminEdit
<1>14. ASSUME Environment
       PROVE  LocksInv'
  BY <1>10, <1>11, <1>12, <1>14 DEF Environment, JobChanges, BrokerToggles, db, local
<1> QED
  BY <1>5, <1>6, <1>7, <1>9, <1>12, <1>13, <1>14 DEF Next, Proceed, vars

(* Nobody waits in a circle: only a deletion of a job that is still open holds row locks,
   no two deletions lock one row, and what a deletion has locked are rows of its job that
   are neither gone nor moved to another job when it commits. *)
THEOREM LocksBelongToDeletions == Spec => []LocksInv
<1>1. Init => IdsInv /\ LocksInv
  BY DEF Init, IdsInv, LocksInv, Applying, Saving
<1>2. TypeInv /\ IdsInv /\ LocksInv /\ [Next]_vars => IdsInv' /\ LocksInv'
  BY IdsStep, LocksStep
<1> QED
  BY <1>1, <1>2, TypeInvariant, PTL DEF Spec

--------------------------------------------------------------------------------
(* How many tasks there can be: one for each accepted request. *)

\* The workers whose request may still hand over a task.
Handing == {"validated", "checked", "inserted", "loaded"}
MayHandOver == {w \in Workers : pc[w] \in Handing}

\* Without admin edits, every task in the log and every request that may still hand one
\* over is one of the requests accepted so far.
CountInv ==
  /\ IsFiniteSet(MayHandOver)
  /\ Len(log) + Cardinality(MayHandOver) <= accepted
  /\ accepted <= MaxRequests

LEMMA CountBegins ==
  ASSUME TypeInv, CountInv, NEW w \in Workers, w \notin MayHandOver,
         MayHandOver' \subseteq MayHandOver \cup {w}, log' = log,
         accepted < MaxRequests, accepted' = accepted + 1
  PROVE  CountInv'
<1>1. /\ IsFiniteSet(MayHandOver \cup {w})
      /\ Cardinality(MayHandOver \cup {w}) = Cardinality(MayHandOver) + 1
  BY FS_AddElement DEF CountInv
<1>2. /\ IsFiniteSet(MayHandOver')
      /\ Cardinality(MayHandOver') <= Cardinality(MayHandOver) + 1
  BY <1>1, FS_Subset
<1>3. Cardinality(MayHandOver) \in Nat /\ Cardinality(MayHandOver') \in Nat
  BY <1>2, FS_CardinalityType DEF CountInv
<1>4. Len(log) \in Nat /\ accepted \in Nat /\ MaxRequests \in Nat
  BY ConstantsAssumption DEF TypeInv, TypeOK
<1> QED
  BY <1>2, <1>3, <1>4 DEF CountInv

LEMMA CountDelivers ==
  ASSUME TypeInv, CountInv, NEW w \in MayHandOver,
         MayHandOver' \subseteq MayHandOver \ {w}, accepted' = accepted,
         log' = log \/ \E m \in Message : log' = Append(log, m)
  PROVE  CountInv'
<1>1. /\ IsFiniteSet(MayHandOver \ {w})
      /\ Cardinality(MayHandOver \ {w}) = Cardinality(MayHandOver) - 1
  BY FS_RemoveElement DEF CountInv
<1>2. /\ IsFiniteSet(MayHandOver')
      /\ Cardinality(MayHandOver') <= Cardinality(MayHandOver) - 1
  BY <1>1, FS_Subset
<1>3. Cardinality(MayHandOver) \in Nat /\ Cardinality(MayHandOver') \in Nat
  BY <1>2, FS_CardinalityType DEF CountInv
<1>4. log \in Seq(Message) /\ accepted \in Nat
  BY DEF TypeInv, TypeOK
<1>5. Len(log) \in Nat /\ Len(log') \in Nat /\ Len(log') <= Len(log) + 1
  BY <1>4
<1> QED
  BY <1>2, <1>3, <1>4, <1>5 DEF CountInv

LEMMA CountKept ==
  ASSUME TypeInv, CountInv, MayHandOver' \subseteq MayHandOver,
         log' = log, accepted' = accepted
  PROVE  CountInv'
<1>1. /\ IsFiniteSet(MayHandOver')
      /\ Cardinality(MayHandOver') <= Cardinality(MayHandOver)
  BY FS_Subset DEF CountInv
<1>2. Cardinality(MayHandOver) \in Nat /\ Cardinality(MayHandOver') \in Nat
  BY <1>1, FS_CardinalityType DEF CountInv
<1>3. Len(log) \in Nat /\ accepted \in Nat
  BY DEF TypeInv, TypeOK
<1> QED
  BY <1>1, <1>2, <1>3 DEF CountInv

LEMMA CountStep ==
  ASSUME ~AdminEditing, AllInv, CountInv, [Next]_vars
  PROVE  CountInv'
<1> USE DEF MayHandOver, Handing
<1>1. TypeInv /\ pc \in [Workers -> Answered \cup InFlight]
  BY DEF AllInv, TypeInv, TypeOK
<1>2. ASSUME NEW w \in Workers, NEW k, NEW i, NEW o, NEW p, Begin(w, k, i, o, p), log' = log
      PROVE  CountInv'
  <2>1. w \notin MayHandOver
    BY <1>2 DEF Begin, Answered
  <2>2. MayHandOver' \subseteq MayHandOver \cup {w}
    BY <1>1, <1>2 DEF Begin
  <2>3. accepted < MaxRequests /\ accepted' = accepted + 1
    BY <1>2 DEF Begin
  <2> HIDE DEF MayHandOver
  <2> QED
    BY <1>1, <1>2, <2>1, <2>2, <2>3, CountBegins
<1>3. ASSUME NEW w \in Workers, Accept(w)
      PROVE  CountInv'
  BY <1>2, <1>3 DEF Accept, TurnedAway, ApplyValidateJob, Withdraw, PatchStatus, AdminEdit, DeleteJobCascade
<1>4. ASSUME NEW w \in Workers, ApplyPostSave(w) \/ PreSave(w)
      PROVE  CountInv'
  <2>1. w \in MayHandOver /\ accepted' = accepted
    BY <1>4 DEF ApplyPostSave, PreSave
  <2>2. \E p \in {"created", "signalled", "failed"} : pc' = [pc EXCEPT ![w] = p]
    BY <1>4 DEF ApplyPostSave, PreSave, Delay, Goto
  <2>3. MayHandOver' \subseteq MayHandOver \ {w}
    BY <1>1, <2>2
  <2>4. log' = log \/ \E m \in Message : log' = Append(log, m)
    BY <1>1, StepLog
  <2> HIDE DEF MayHandOver
  <2> QED
    BY <1>1, <2>1, <2>3, <2>4, CountDelivers
<1>5. ASSUME NEW w \in Workers, NEW p, pc' = [pc EXCEPT ![w] = p],
             p \in Handing => pc[w] \in Handing, log' = log, accepted' = accepted
      PROVE  CountInv'
  <2>1. MayHandOver' \subseteq MayHandOver
    BY <1>1, <1>5
  <2> HIDE DEF MayHandOver
  <2> QED
    BY <1>1, <1>5, <2>1, CountKept
<1>6. ASSUME NEW w \in Workers,
             ApplyCheckDuplicate(w) \/ ApplyInsert(w) \/ Update(w) \/ DeleteJobCommit(w)
      PROVE  CountInv'
  <2>1. log' = log /\ accepted' = accepted
    BY <1>6 DEF ApplyCheckDuplicate, ApplyInsert, Update, DeleteJobCommit
  <2>2. \E p \in {"checked", "refused", "inserted", "saved", "failed"} :
          pc' = [pc EXCEPT ![w] = p] /\ (p \in Handing => pc[w] \in Handing)
    BY <1>6 DEF ApplyCheckDuplicate, ApplyInsert, Update, DeleteJobCommit, Goto
  <2> QED
    BY <1>5, <2>1, <2>2
<1>7. \A w \in Workers : ~AdminSave(w)
  BY DEF AdminSave, SavesEveryColumn, AllInv, AnnounceInv, WorkerOK, Saving, SaveKinds
<1>8. ASSUME NEW w \in Workers, Crash(w)
      PROVE  CountInv'
  BY <1>5, <1>8 DEF Crash, Goto
<1>9. ASSUME UNCHANGED <<pc, log, accepted>>
      PROVE  CountInv'
  BY <1>9 DEF CountInv
<1>10. ASSUME Environment
       PROVE  CountInv'
  BY <1>8, <1>9, <1>10 DEF Environment, AdminDelete, JobChanges, BrokerToggles
<1> QED
  BY <1>3, <1>4, <1>6, <1>7, <1>9, <1>10 DEF Next, Proceed, vars

(* Without admin edits the broker is never handed more tasks than requests were accepted,
   whichever of them fail half-way. *)
THEOREM OneTaskPerRequest ==
  ASSUME ~AdminEditing
  PROVE  Spec => [](Len(log) <= accepted /\ accepted <= MaxRequests)
<1>1. Init => CountInv
  <2> SUFFICES ASSUME Init PROVE CountInv
    OBVIOUS
  <2>1. MayHandOver = {}
    BY DEF Init, MayHandOver, Handing
  <2>2. Len(log) = 0 /\ accepted = 0 /\ MaxRequests \in Nat
    BY ConstantsAssumption DEF Init
  <2> QED
    BY <2>1, <2>2, FS_EmptySet DEF CountInv
<1>2. AllInv /\ CountInv /\ [Next]_vars => CountInv'
  BY CountStep
<1>3. AllInv /\ CountInv => Len(log) <= accepted /\ accepted <= MaxRequests
  BY FS_CardinalityType DEF CountInv, AllInv, TypeInv, TypeOK
<1> QED
  BY <1>1, <1>2, <1>3, AllInvariant, PTL DEF Spec

--------------------------------------------------------------------------------
(* What the tasks in the log are about, without admin edits. *)

(* A task is handed over after its row was committed: a task that finds no application
   finds a deleted one, never one that is not there yet. *)
TasksOfIssued == \A i \in 1..Len(log) : log[i].app \in issued

(* The candidate is led from status to status: a mail that tells of a change from a
   status other than "applied" comes after the mail that told of that status. *)
NothingSkipped ==
  \A i \in 1..Len(log) :
    log[i].task = "status" /\ log[i].old # "applied" =>
      \E k \in 1..(i - 1) :
        log[k].task = "status" /\ log[k].app = log[i].app /\ log[k].new = log[i].old

(* An application is confirmed once, however often its request is retried. *)
ConfirmedOnce ==
  \A i, k \in 1..Len(log) :
    log[i].task = "received" /\ log[k].task = "received" /\ log[i].app = log[k].app => i = k

\* Whose confirmation is still to be queued has none, and is one worker's.
ConfirmInv ==
  /\ \A w \in Workers : pc[w] = "inserted" =>
       \A i \in 1..Len(log) : log[i].task = "received" => log[i].app # pk[w]
  /\ \A v, w \in Workers :
       v # w /\ pc[v] = "inserted" /\ pc[w] = "inserted" => pk[v] # pk[w]

LogInv == TasksOfIssued /\ NothingSkipped /\ ConfirmedOnce /\ ConfirmInv

\* What a step may append.
LEMMA TaskHandedOver ==
  ASSUME ~AdminEditing, AllInv, [Next]_vars
  PROVE  \/ log' = log
         \/ \E w \in Workers :
              /\ pc[w] = "inserted" /\ pc'[w] = "created" /\ UNCHANGED <<pk, issued>>
              /\ \A v \in Workers \ {w} : pc'[v] = pc[v]
              /\ log' = Append(log, Received(pk[w]))
         \/ \E w \in Workers :
              /\ pc[w] = "loaded" /\ pc'[w] = "signalled" /\ UNCHANGED <<pk, issued>>
              /\ \A v \in Workers \ {w} : pc'[v] = pc[v]
              /\ row[pk[w]] # None
              /\ log' = Append(log, StatusMail(pk[w], row[pk[w]].status, obj[w].status))
<1>1. pc \in [Workers -> Answered \cup InFlight]
  BY DEF AllInv, TypeInv, TypeOK
<1>2. ASSUME NEW w \in Workers, ApplyPostSave(w), log' # log
      PROVE  /\ pc[w] = "inserted" /\ pc'[w] = "created" /\ UNCHANGED <<pk, issued>>
             /\ \A v \in Workers \ {w} : pc'[v] = pc[v]
             /\ log' = Append(log, Received(pk[w]))
  BY <1>1, <1>2 DEF ApplyPostSave, Delay, Goto, db, local
<1>3. ASSUME NEW w \in Workers, PreSave(w), log' # log
      PROVE  /\ pc[w] = "loaded" /\ pc'[w] = "signalled" /\ UNCHANGED <<pk, issued>>
             /\ \A v \in Workers \ {w} : pc'[v] = pc[v]
             /\ row[pk[w]] # None
             /\ log' = Append(log, StatusMail(pk[w], row[pk[w]].status, obj[w].status))
  BY <1>1, <1>3 DEF PreSave, Changed, Delay, Goto, db, local
<1>4. \A w \in Workers : ~AdminSave(w)
  BY DEF AdminSave, SavesEveryColumn, AllInv, AnnounceInv, WorkerOK, Saving, SaveKinds
<1>5. ASSUME NEW w \in Workers,
             \/ Accept(w) \/ ApplyCheckDuplicate(w) \/ ApplyInsert(w) \/ Update(w)
             \/ DeleteJobCommit(w)
      PROVE  log' = log
  BY <1>5 DEF Accept, TurnedAway, ApplyValidateJob, Withdraw, PatchStatus, AdminEdit, DeleteJobCascade,
              ApplyCheckDuplicate, ApplyInsert, Update, DeleteJobCommit
<1>6. Environment \/ UNCHANGED vars => log' = log
  BY DEF Environment, AdminDelete, JobChanges, BrokerToggles, Crash, vars
<1> QED
  BY <1>2, <1>3, <1>4, <1>5, <1>6 DEF Next, Proceed

\* A worker that has just inserted did so in this step, under an id of its own, or before.
LEMMA InsertedStep ==
  ASSUME AllInv, [Next]_vars, NEW w \in Workers, pc'[w] = "inserted"
  PROVE  /\ pk'[w] = pk[w]
         /\ \/ pc[w] = "inserted"
            \/ /\ pk[w] \notin issued /\ log' = log
               /\ \A v \in Workers \ {w} : pc'[v] = pc[v] /\ pk'[v] = pk[v]
<1>1. /\ pc \in [Workers -> Answered \cup InFlight]
      /\ pk \in [Workers -> AppIds \cup Jobs \cup {None}]
  BY DEF AllInv, TypeInv, TypeOK
<1>2. ASSUME NEW v \in Workers, NEW k, NEW i, NEW o, NEW p, p # "inserted", Begin(v, k, i, o, p)
      PROVE  pc[w] = "inserted" /\ pk'[w] = pk[w]
  BY <1>1, <1>2 DEF Begin
<1>3. ASSUME NEW v \in Workers, Accept(v)
      PROVE  pc[w] = "inserted" /\ pk'[w] = pk[w]
  BY <1>2, <1>3 DEF Accept, TurnedAway, ApplyValidateJob, Withdraw, PatchStatus, AdminEdit, DeleteJobCascade
<1>4. ASSUME NEW v \in Workers, ApplyInsert(v)
      PROVE  /\ pk'[w] = pk[w]
             /\ \/ pc[w] = "inserted"
                \/ /\ pk[w] \notin issued /\ log' = log
                   /\ \A u \in Workers \ {w} : pc'[u] = pc[u] /\ pk'[u] = pk[u]
  <2>1. /\ pc[v] = "checked" /\ pk[v] \notin issued /\ pk' = pk /\ log' = log
        /\ \A u \in Workers \ {v} : pc'[u] = pc[u]
    BY <1>1, <1>4 DEF ApplyInsert, Goto, local, AllInv, IdsInv, Applying
  <2> QED
    BY <2>1
<1>5. ASSUME NEW v \in Workers,
             \/ ApplyCheckDuplicate(v) \/ ApplyPostSave(v) \/ PreSave(v) \/ Update(v)
             \/ AdminSave(v) \/ DeleteJobCommit(v)
      PROVE  pc[w] = "inserted" /\ pk'[w] = pk[w]
  <2>1. pk' = pk
    BY <1>5 DEF ApplyCheckDuplicate, ApplyPostSave, PreSave, Update, AdminSave,
                DeleteJobCommit, local
  <2>2. \E p \in {"checked", "refused", "created", "signalled", "saved", "failed"} :
          pc' = [pc EXCEPT ![v] = p]
    BY <1>5 DEF ApplyCheckDuplicate, ApplyPostSave, PreSave, Update, AdminSave,
                DeleteJobCommit, Goto, Delay
  <2> QED
    BY <1>1, <2>1, <2>2
<1>6. Environment \/ UNCHANGED vars => pc[w] = "inserted" /\ pk'[w] = pk[w]
  BY <1>1 DEF Environment, AdminDelete, JobChanges, BrokerToggles, Crash, Goto, local, vars
<1> QED
  BY <1>3, <1>4, <1>5, <1>6 DEF Next, Proceed

\* An id that was given out stays given out.
LEMMA IssuedGrows == [Next]_vars => issued \subseteq issued'
BY DEF Next, Environment, Accept, Proceed, TurnedAway, ApplyValidateJob, Withdraw, PatchStatus, AdminEdit,
       DeleteJobCascade, ApplyCheckDuplicate, ApplyInsert, ApplyPostSave, PreSave, Update,
       AdminSave, DeleteJobCommit, AdminDelete, JobChanges, BrokerToggles, Crash, db, vars

LEMMA LogStepKeeps ==
  ASSUME ~AdminEditing, AllInv, LogInv, [Next]_vars
  PROVE  LogInv'
<1>1. /\ log \in Seq(Message) /\ issued \subseteq AppIds /\ row \in [AppIds -> Row \cup {None}]
      /\ \A w \in Workers : pc[w] \in {"inserted", "loaded"} =>
           pk[w] \in AppIds /\ pk[w] \in issued /\ obj[w] \in Row
  BY DEF AllInv, TypeInv, TypeOK, InstanceOK, Handling, IdsInv, Saving
<1>2. issued \subseteq issued'
  BY IssuedGrows
\* The log as it is: only a new INSERT can matter, and nothing is queued about its id.
<1>3. CASE log' = log
  <2>1. TasksOfIssued' /\ NothingSkipped' /\ ConfirmedOnce'
    BY <1>2, <1>3 DEF LogInv, TasksOfIssued, NothingSkipped, ConfirmedOnce
  <2>2. ASSUME NEW w \in Workers, pc'[w] = "inserted", NEW i \in 1..Len(log),
               log[i].task = "received"
        PROVE  log[i].app # pk'[w]
    BY <2>2, InsertedStep DEF LogInv, ConfirmInv, TasksOfIssued
  <2>3. ASSUME NEW v \in Workers, NEW w \in Workers, v # w, pc'[v] = "inserted",
               pc'[w] = "inserted"
        PROVE  pk'[v] # pk'[w]
    <3>1. /\ pk'[v] = pk[v] /\ pk'[w] = pk[w]
          /\ pc[v] = "inserted" \/ (pk[v] \notin issued /\ pc'[w] = pc[w])
          /\ pc[w] = "inserted" \/ (pk[w] \notin issued /\ pc'[v] = pc[v])
      BY <2>3, InsertedStep
    <3> QED
      BY <1>1, <2>3, <3>1 DEF LogInv, ConfirmInv
  <2> QED
    BY <1>3, <2>1, <2>2, <2>3 DEF LogInv, ConfirmInv
\* One task more: what held of the others holds, and is to be shown of the last.
<1>4. ASSUME NEW m \in Message, log' = Append(log, m)
      PROVE  /\ Len(log) \in Nat /\ Len(log') = Len(log) + 1 /\ log'[Len(log) + 1] = m
             /\ \A i \in 1..Len(log) : log'[i] = log[i]
             /\ \A i \in 1..Len(log') : i \in 1..Len(log) \/ i = Len(log) + 1
  BY <1>1, <1>4
<1>5. ASSUME NEW m \in Message, log' = Append(log, m), m.app \in issued,
             m.task = "status" /\ m.old # "applied" => Tells(log, m.app, m.old)
      PROVE  TasksOfIssued' /\ NothingSkipped'
  <2>1. TasksOfIssued'
    BY <1>2, <1>4, <1>5 DEF LogInv, TasksOfIssued
  <2>2. ASSUME NEW i \in 1..Len(log'), log'[i].task = "status", log'[i].old # "applied"
        PROVE  \E k \in 1..(i - 1) : /\ log'[k].task = "status"
                                     /\ log'[k].app = log'[i].app /\ log'[k].new = log'[i].old
    <3>1. CASE i \in 1..Len(log)
      BY <1>4, <1>5, <2>2, <3>1 DEF LogInv, NothingSkipped
    <3>2. CASE i = Len(log) + 1
      BY <1>4, <1>5, <2>2, <3>2 DEF Tells
    <3> QED BY <1>4, <1>5, <3>1, <3>2
  <2> QED
    BY <2>1, <2>2 DEF NothingSkipped
<1>6. ASSUME NEW w \in Workers, pc[w] = "inserted", pc'[w] = "created", UNCHANGED <<pk, issued>>,
             \A v \in Workers \ {w} : pc'[v] = pc[v], log' = Append(log, Received(pk[w]))
      PROVE  LogInv'
  <2> DEFINE m == Received(pk[w])
  <2>1. m \in Message /\ m.task = "received" /\ m.app = pk[w] /\ m.app \in issued
    BY <1>1, <1>6 DEF Received, Message, Status
  <2> HIDE DEF m
  <2>2. log' = Append(log, m)
    BY <1>6 DEF m
  <2>3. ConfirmedOnce'
    BY <1>4, <1>6, <2>1, <2>2 DEF LogInv, ConfirmedOnce, ConfirmInv
  <2>4. ConfirmInv'
    BY <1>4, <1>6, <2>1, <2>2 DEF LogInv, ConfirmInv
  <2> QED
    BY <1>5, <2>1, <2>2, <2>3, <2>4 DEF LogInv
<1>7. ASSUME NEW w \in Workers, pc[w] = "loaded", pc'[w] = "signalled", UNCHANGED <<pk, issued>>,
             \A v \in Workers \ {w} : pc'[v] = pc[v], row[pk[w]] # None,
             log' = Append(log, StatusMail(pk[w], row[pk[w]].status, obj[w].status))
      PROVE  LogInv'
  <2> DEFINE m == StatusMail(pk[w], row[pk[w]].status, obj[w].status)
  <2>1. /\ m \in Message /\ m.task = "status" /\ m.app = pk[w] /\ m.app \in issued
        /\ m.old = row[pk[w]].status
    BY <1>1, <1>7 DEF StatusMail, Message, Row
  <2>2. m.old # "applied" => Tells(log, m.app, m.old)
    BY <1>1, <1>7, <2>1 DEF AllInv, AnnounceInv, RowOK
  <2> HIDE DEF m
  <2>3. log' = Append(log, m)
    BY <1>7 DEF m
  <2>4. ConfirmedOnce'
    BY <1>4, <2>1, <2>3 DEF LogInv, ConfirmedOnce
  <2>5. ConfirmInv'
    BY <1>4, <1>7, <2>1, <2>3 DEF LogInv, ConfirmInv
  <2> QED
    BY <1>5, <2>1, <2>2, <2>3, <2>4, <2>5 DEF LogInv
<1> QED
  BY <1>3, <1>6, <1>7, TaskHandedOver

(* Without admin edits, for any interleaving, crash or failure of the broker: every task
   is about a committed application, an application is confirmed once at most, and the
   status a mail starts from is one the candidate was told of before. *)
THEOREM TasksMakeSense ==
  ASSUME ~AdminEditing
  PROVE  Spec => [](TasksOfIssued /\ NothingSkipped /\ ConfirmedOnce)
<1>1. Init => LogInv
  BY DEF Init, LogInv, TasksOfIssued, NothingSkipped, ConfirmedOnce, ConfirmInv
<1>2. AllInv /\ LogInv /\ [Next]_vars => LogInv'
  BY LogStepKeeps
<1>3. LogInv => TasksOfIssued /\ NothingSkipped /\ ConfirmedOnce
  BY DEF LogInv
<1> QED
  BY <1>1, <1>2, <1>3, AllInvariant, PTL DEF Spec
================================================================================
