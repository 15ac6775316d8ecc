----------------------------- MODULE WorkflowProofs -----------------------------
(***************************************************************************)
(* Applications implements ApplicationWorkflow, for any number of workers, *)
(* as long as no two requests save the same application at the same time:  *)
(* that is what the missing row lock (select_for_update) would ensure, and *)
(* what a single worker ensures.                                           *)
(***************************************************************************)
EXTENDS ApplicationsProofs

\* No two workers are between loading an application and its UPDATE for the same one.
NoOverlap ==
  \A v, w \in Workers : v # w /\ pc[v] \in Saving /\ pc[w] \in Saving => pk[v] # pk[w]

\* What w is about to write is an edge from the row as it is now, and carries other
\* notes than the row's only if the request has some.
SaveOK(w) ==
  pc[w] \in Saving /\ row[pk[w]] # None =>
    /\ LegalMove(row[pk[w]].status, obj[w].status)
    /\ kind[w] # "patch_notes" => obj[w].notes = row[pk[w]].notes

SavesInv == \A w \in Workers : SaveOK(w)

--------------------------------------------------------------------------------
(* What one step does to a row, to a worker and to the log. *)

\* A row that stays is changed by the UPDATE of a worker that holds its key, if at all.
LEMMA RowStep ==
  ASSUME ~AdminEditing, AllInv, [Next]_vars, NEW a \in AppIds,
         row[a] # None, row'[a] # None, row'[a] # row[a]
  PROVE  \E w \in Workers :
           /\ Update(w)
           /\ pk[w] = a
           /\ row'[a] = [row[a] EXCEPT !.status = obj[w].status,
                                       !.notes = IF kind[w] = "withdraw"
                                                 THEN @ ELSE obj[w].notes]
<1>1. row[a] \in Row /\ TypeInv
  BY DEF AllInv, TypeInv, TypeOK
<1>2. \A w \in Workers : ~Accept(w)
  BY DEF Accept, TurnedAway, ApplyValidateJob, Withdraw, PatchStatus, AdminEdit, DeleteJobCascade, db
<1>3. ~Environment
  BY <1>1 DEF Environment, AdminDelete, JobChanges, BrokerToggles, Crash, db, TypeInv, TypeOK
<1>4. PICK w \in Workers : Proceed(w)
  BY <1>2, <1>3 DEF Next, vars
<1>5. ~ApplyInsert(w)
  <2>1. pc[w] = "checked" => pk[w] # a
    BY DEF AllInv, IdsInv, Applying
  <2> QED
    BY <1>1, <2>1 DEF ApplyInsert, TypeInv, TypeOK
<1>6. ~AdminSave(w)
  BY DEF AdminSave, SavesEveryColumn, AllInv, AnnounceInv, WorkerOK, Saving, SaveKinds
<1>7. ~DeleteJobCommit(w)
  BY DEF DeleteJobCommit
<1>8. Update(w)
  BY <1>4, <1>5, <1>6, <1>7 DEF Proceed, ApplyCheckDuplicate, ApplyPostSave, PreSave, db
<1>9. pk[w] = a
  BY <1>1, <1>8 DEF Update, TypeInv, TypeOK
<1>10. row'[a] = [row[a] EXCEPT !.status = obj[w].status,
                               !.notes = IF kind[w] = "withdraw" THEN @ ELSE obj[w].notes]
  BY <1>1, <1>8, <1>9 DEF Update, TypeInv, TypeOK, Row
<1> QED BY <1>8, <1>9, <1>10

\* A worker that is about to save was so before, or has just loaded the row.
LEMMA SaverStep ==
  ASSUME ~AdminEditing, AllInv, [Next]_vars, NEW w \in Workers, pc'[w] \in Saving
  PROVE  \/ /\ pc[w] \in Saving
            /\ kind'[w] = kind[w] /\ pk'[w] = pk[w] /\ obj'[w] = obj[w]
         \/ /\ row' = row
            /\ \E a \in AppIds :
                 /\ row[a] # None /\ pk'[w] = a
                 /\ LegalMove(row[a].status, obj'[w].status)
                 /\ kind'[w] # "patch_notes" => obj'[w].notes = row[a].notes
<1> DEFINE Same == pc[w] \in Saving /\ kind'[w] = kind[w] /\ pk'[w] = pk[w] /\ obj'[w] = obj[w]
           Loads == /\ row' = row
                    /\ \E a \in AppIds :
                         /\ row[a] # None /\ pk'[w] = a
                         /\ LegalMove(row[a].status, obj'[w].status)
                         /\ kind'[w] # "patch_notes" => obj'[w].notes = row[a].notes
<1> USE DEF Saving
<1>1. /\ pc \in [Workers -> Answered \cup InFlight] /\ kind \in [Workers -> Kinds]
      /\ pk \in [Workers -> AppIds \cup Jobs \cup {None}] /\ obj \in [Workers -> Row \cup {None}]
      /\ \A a \in AppIds : row[a] # None => row[a] \in Row
  BY DEF AllInv, TypeInv, TypeOK
\* A request that begins is loaded by its first step, or by none of these.
<1>2. ASSUME NEW v \in Workers, NEW k, NEW i, NEW o, NEW p, p \notin Saving, Begin(v, k, i, o, p)
      PROVE  Same
  BY <1>1, <1>2 DEF Begin
<1>3. ASSUME NEW v \in Workers, NEW k, NEW a \in AppIds, NEW o, Begin(v, k, a, o, "loaded"),
             row' = row, row[a] # None, LegalMove(row[a].status, o.status),
             k # "patch_notes" => o.notes = row[a].notes
      PROVE  Same \/ Loads
  <2>1. CASE v = w
    <3>1. kind'[w] = k /\ pk'[w] = a /\ obj'[w] = o
      BY <1>1, <1>3, <2>1 DEF Begin
    <3> QED BY <1>3, <3>1
  <2>2. CASE v # w
    BY <1>1, <1>3, <2>2 DEF Begin
  <2> QED BY <2>1, <2>2
<1>4. ASSUME NEW v \in Workers, Accept(v)
      PROVE  Same \/ Loads
  <2>1. ASSUME NEW c \in Candidates, NEW j \in Jobs, NEW a \in AppIds, ApplyValidateJob(v, c, j, a)
        PROVE  Same
    BY <1>2, <2>1 DEF ApplyValidateJob
  <2>2. ASSUME NEW a \in AppIds, Withdraw(v, a)
        PROVE  Same \/ Loads
    <3>1. row' = row
      BY <2>2 DEF Withdraw, db
    <3>2. CASE Begin(v, "withdraw", a, None, "missing") \/ Begin(v, "withdraw", a, None, "refused")
      BY <1>2, <3>2
    <3>3. CASE /\ row[a] # None /\ row[a].status \in WITHDRAWABLE_STATUSES
               /\ Begin(v, "withdraw", a, [row[a] EXCEPT !.status = "withdrawn"], "loaded")
      <4> DEFINE o == [row[a] EXCEPT !.status = "withdrawn"]
      <4>1. o.status = "withdrawn" /\ o.notes = row[a].notes
        BY <1>1, <3>3 DEF Row
      <4> HIDE DEF o
      <4> QED
        BY <1>3, <3>1, <3>3, <4>1 DEF LegalMove, o
    <3> QED BY <2>2, <3>2, <3>3 DEF Withdraw
  <2>3. ASSUME NEW a \in AppIds, NEW s \in Status, NEW k \in {"patch", "patch_notes"},
               NEW n \in Notes, PatchStatus(v, a, s, k, n)
        PROVE  Same \/ Loads
    <3> DEFINE o == [row[a] EXCEPT !.status = s, !.notes = NotesOf(k, row[a], n)]
    <3>1. row' = row
      BY <2>3 DEF PatchStatus, db
    <3>2. CASE Begin(v, k, a, None, "missing") \/ Begin(v, k, a, None, "refused")
      BY <1>2, <3>2
    <3>3. CASE row[a] # None /\ s \in NextStatuses(row[a].status) /\ Begin(v, k, a, o, "loaded")
      <4>1. o.status = s /\ (k # "patch_notes" => o.notes = row[a].notes)
        BY <1>1, <3>3 DEF Row, NotesOf
      <4> HIDE DEF o
      <4> QED
        BY <1>3, <3>1, <3>3, <4>1 DEF LegalMove
    <3> QED BY <2>3, <3>2, <3>3 DEF PatchStatus, ValidateStatus
  <2>4. ASSUME NEW j \in Jobs, DeleteJobCascade(v, j)
        PROVE  Same
    BY <1>2, <2>4 DEF DeleteJobCascade
  <2>5. ASSUME TurnedAway(v)
        PROVE  Same
    BY <1>2, <2>5 DEF TurnedAway
  <2> QED
    BY <1>4, <2>1, <2>2, <2>3, <2>4, <2>5, ConstantsAssumption DEF Accept, AdminEdit
<1>5. ASSUME NEW v \in Workers, Proceed(v)
      PROVE  Same
  <2>1. UNCHANGED local
    BY <1>5 DEF Proceed, ApplyCheckDuplicate, ApplyInsert, ApplyPostSave, PreSave, Update,
                AdminSave, DeleteJobCommit
  <2>2. \E p : /\ pc' = [pc EXCEPT ![v] = p]
               /\ p \in Saving => pc[v] \in Saving
    <3>1. \E p \in {"checked", "refused", "inserted", "created", "signalled", "saved", "failed"} :
            /\ pc' = [pc EXCEPT ![v] = p]
            /\ p = "signalled" => pc[v] = "loaded"
      BY <1>5 DEF Proceed, ApplyCheckDuplicate, ApplyInsert, ApplyPostSave, PreSave, Update,
                  AdminSave, DeleteJobCommit, Goto, Delay
    <3> QED BY <3>1
  <2> QED
    BY <1>1, <2>1, <2>2 DEF local
<1>6. CASE Environment
  <2>1. ASSUME NEW v \in Workers, Crash(v)
        PROVE  Same
    BY <1>1, <2>1 DEF Crash, Goto
  <2> QED
    BY <1>6, <2>1 DEF Environment, AdminDelete, JobChanges, BrokerToggles, local
<1>7. CASE UNCHANGED vars
  BY <1>7 DEF vars
<1> QED
  BY <1>4, <1>5, <1>6, <1>7 DEF Next

\* A task that is handed over tells of an edge from the row as it is.
LEMMA LogStep ==
  ASSUME ~AdminEditing, AllInv, SavesInv, [Next]_vars
  PROVE  \/ log' = log
         \/ \E m \in Message : /\ log' = Append(log, m)
                               /\ m.task = "status" => LegalMove(m.old, m.new)
<1>1. ASSUME NEW w \in Workers, PreSave(w)
      PROVE  \/ log' = log
             \/ \E m \in Message : /\ log' = Append(log, m)
                                   /\ m.task = "status" => LegalMove(m.old, m.new)
  <2> DEFINE m == StatusMail(pk[w], row[pk[w]].status, obj[w].status)
  <2>1. /\ pc[w] = "loaded"
        /\ \/ log' = log
           \/ Changed(row[pk[w]], obj[w]) /\ log' = Append(log, m)
    BY <1>1 DEF PreSave, Delay
  <2>2. SUFFICES ASSUME row[pk[w]] # None, log' = Append(log, m)
                 PROVE  m \in Message /\ LegalMove(m.old, m.new)
    BY <2>1 DEF Changed
  <2>3. pk[w] \in AppIds /\ obj[w] \in Row /\ row[pk[w]] \in Row
    BY <2>1, <2>2 DEF AllInv, TypeInv, TypeOK, InstanceOK, Handling
  <2>4. LegalMove(row[pk[w]].status, obj[w].status)
    BY <2>1, <2>2 DEF SavesInv, SaveOK, Saving
  <2> QED
    BY <2>3, <2>4 DEF StatusMail, Message, Row
<1>2. ASSUME NEW w \in Workers, ApplyPostSave(w)
      PROVE  log' = log \/ \E m \in Message : log' = Append(log, m) /\ m.task = "received"
  <2>1. Received(pk[w]) \in Message /\ Received(pk[w]).task = "received"
    BY <1>2 DEF ApplyPostSave, Received, Message, Status, AllInv, TypeInv, InstanceOK, Handling
  <2> QED
    BY <1>2, <2>1 DEF ApplyPostSave, Delay
<1>3. \A w \in Workers : ~AdminSave(w)
  BY DEF AdminSave, SavesEveryColumn, AllInv, AnnounceInv, WorkerOK, Saving, SaveKinds
<1>4. ASSUME NEW w \in Workers, Accept(w)
      PROVE  log' = log
  BY <1>4 DEF Accept, TurnedAway, ApplyValidateJob, Withdraw, PatchStatus, AdminEdit, DeleteJobCascade
<1>5. ASSUME NEW w \in Workers, ApplyCheckDuplicate(w) \/ ApplyInsert(w) \/ Update(w) \/ DeleteJobCommit(w)
      PROVE  log' = log
  BY <1>5 DEF ApplyCheckDuplicate, ApplyInsert, Update, DeleteJobCommit
<1>6. Environment \/ UNCHANGED vars => log' = log
  BY DEF Environment, AdminDelete, JobChanges, BrokerToggles, Crash, vars
<1> QED
  BY <1>1, <1>2, <1>3, <1>4, <1>5, <1>6 DEF Next, Proceed

--------------------------------------------------------------------------------
\* As long as saves of one application do not overlap, what a worker is about to write
\* stays an edge from the row: nobody else writes it, and a row that goes stays away.
LEMMA SavesStep ==
  ASSUME ~AdminEditing, AllInv, SavesInv, NoOverlap, [Next]_vars
  PROVE  SavesInv'
<1> SUFFICES ASSUME NEW w \in Workers, pc'[w] \in Saving, row'[pk'[w]] # None
             PROVE  /\ LegalMove(row'[pk'[w]].status, obj'[w].status)
                    /\ kind'[w] # "patch_notes" => obj'[w].notes = row'[pk'[w]].notes
  BY DEF SavesInv, SaveOK
<1>1. CASE /\ row' = row
           /\ \E a \in AppIds : /\ row[a] # None /\ pk'[w] = a
                                /\ LegalMove(row[a].status, obj'[w].status)
                                /\ kind'[w] # "patch_notes" => obj'[w].notes = row[a].notes
  BY <1>1
<1>2. CASE /\ pc[w] \in Saving
           /\ kind'[w] = kind[w] /\ pk'[w] = pk[w] /\ obj'[w] = obj[w]
  <2>1. pk[w] \in AppIds /\ pk[w] \in issued
    BY <1>2 DEF AllInv, TypeInv, InstanceOK, IdsInv, Handling, Saving
  <2>2. row[pk[w]] # None
    BY <1>2, <2>1, NoResurrection
  <2>3. row'[pk[w]] = row[pk[w]]
    <3>1. SUFFICES ASSUME row'[pk[w]] # row[pk[w]]
                   PROVE  FALSE
      OBVIOUS
    <3>2. PICK v \in Workers : Update(v) /\ pk[v] = pk[w]
      BY <1>2, <2>1, <2>2, <3>1, RowStep
    <3>3. v = w
      BY <1>2, <3>2 DEF NoOverlap, Update, Saving
    <3>4. pc'[w] \in {"saved", "failed"}
      BY <3>2, <3>3 DEF Update, Goto, AllInv, TypeInv, TypeOK
    <3> QED BY <3>4 DEF Saving
  <2> QED
    BY <1>2, <2>2, <2>3 DEF SavesInv, SaveOK
<1> QED
  BY <1>1, <1>2, SaverStep

\* The mails keep to the edges, step by step.
LEMMA MovesStep ==
  ASSUME ~AdminEditing, AllInv, SavesInv, AnnouncedMovesLegal, [Next]_vars
  PROVE  AnnouncedMovesLegal'
<1>1. CASE log' = log
  BY <1>1 DEF AnnouncedMovesLegal
<1>2. CASE \E m \in Message : /\ log' = Append(log, m)
                              /\ m.task = "status" => LegalMove(m.old, m.new)
  <2>1. PICK m \in Message : /\ log' = Append(log, m)
                             /\ m.task = "status" => LegalMove(m.old, m.new)
    BY <1>2
  <2>2. log \in Seq(Message)
    BY DEF AllInv, TypeInv, TypeOK
  <2>3. \A i \in 1..Len(log') : log'[i] = m \/ (i \in 1..Len(log) /\ log'[i] = log[i])
    BY <2>1, <2>2
  <2> QED
    BY <2>1, <2>3 DEF AnnouncedMovesLegal
<1> QED
  BY <1>1, <1>2, LogStep

SerialInv == AllInv /\ SavesInv /\ AnnouncedMovesLegal

LEMMA SerialInvariant ==
  ASSUME ~AdminEditing
  PROVE  Spec /\ []NoOverlap => []SerialInv
<1>1. Init => SavesInv /\ AnnouncedMovesLegal
  BY DEF Init, SavesInv, SaveOK, Saving, AnnouncedMovesLegal
<1>2. AllInv /\ SavesInv /\ AnnouncedMovesLegal /\ NoOverlap /\ [Next]_vars
        => SavesInv' /\ AnnouncedMovesLegal'
  BY SavesStep, MovesStep
<1>3. Spec => []AllInv
  BY AllInvariant
<1> QED
  BY <1>1, <1>2, <1>3, PTL DEF Spec, SerialInv

(* Without admin edits and without overlapping saves of one application, every mail
   about a status tells of an edge of the state machine. *)
THEOREM MailsTellOfEdges ==
  ASSUME ~AdminEditing
  PROVE  Spec /\ []NoOverlap => []AnnouncedMovesLegal
<1>1. SerialInv => AnnouncedMovesLegal
  BY DEF SerialInv
<1> QED
  BY <1>1, SerialInvariant, PTL

(* Under the same conditions recruiter_notes change only by a PATCH that has some. *)
THEOREM NotesAreKept ==
  ASSUME ~AdminEditing
  PROVE  Spec /\ []NoOverlap => NotesChangeOnRequest
<1> DEFINE A == \A a \in AppIds :
                  row[a] # None /\ row'[a] # None /\ row'[a].notes # row[a].notes
                    => \E w \in Workers :
                         kind[w] = "patch_notes" /\ pk[w] = a /\ pc[w] = "signalled"
<1>1. SerialInv /\ [Next]_vars => A
  <2> SUFFICES ASSUME SerialInv, [Next]_vars, NEW a \in AppIds,
                      row[a] # None, row'[a] # None, row'[a].notes # row[a].notes
               PROVE  \E w \in Workers :
                        kind[w] = "patch_notes" /\ pk[w] = a /\ pc[w] = "signalled"
    OBVIOUS
  <2>1. PICK w \in Workers :
               /\ Update(w)
               /\ pk[w] = a
               /\ row'[a] = [row[a] EXCEPT !.status = obj[w].status,
                                           !.notes = IF kind[w] = "withdraw"
                                                     THEN @ ELSE obj[w].notes]
    BY RowStep DEF SerialInv
  <2>2. row[a] \in Row
    BY DEF SerialInv, AllInv, TypeInv, TypeOK
  <2>3. kind[w] # "withdraw" /\ obj[w].notes # row[a].notes
    BY <2>1, <2>2 DEF Row
  <2>4. pc[w] = "signalled"
    BY <2>1 DEF Update
  <2> QED
    BY <2>1, <2>3, <2>4 DEF SerialInv, SavesInv, SaveOK, Saving
<1> HIDE DEF A
<1>2. SerialInv /\ [Next]_vars => [A]_vars
  BY <1>1
<1>3. Spec /\ []NoOverlap => [][A]_vars
  BY <1>2, SerialInvariant, PTL DEF Spec
<1> QED
  BY <1>3 DEF A, NotesChangeOnRequest

(* Under the same conditions the tables of the state machine can be trusted: a rejected
   or withdrawn application is not changed to another status.  (Two overlapping requests
   do so: run "terminal".) *)
THEOREM TerminalStaysTerminal ==
  ASSUME ~AdminEditing
  PROVE  Spec /\ []NoOverlap => TerminalStatus
<1> DEFINE A == \A a \in AppIds :
                  row[a] # None /\ row'[a] # None /\ row[a].status \in {"rejected", "withdrawn"}
                    => row'[a].status = row[a].status
<1>1. SerialInv /\ [Next]_vars => A
  <2> SUFFICES ASSUME SerialInv, [Next]_vars, NEW a \in AppIds, row[a] # None, row'[a] # None,
                      row'[a] # row[a]
               PROVE  row[a].status \notin {"rejected", "withdrawn"}
    OBVIOUS
  <2>1. PICK w \in Workers : Update(w) /\ pk[w] = a
    BY RowStep DEF SerialInv
  <2>2. LegalMove(row[a].status, obj[w].status)
    BY <2>1 DEF SerialInv, SavesInv, SaveOK, Saving, Update
  <2> QED
    BY <2>2 DEF LegalMove, NextStatuses, VALID_TRANSITIONS, WITHDRAWABLE_STATUSES
<1> HIDE DEF A
<1>2. SerialInv /\ [Next]_vars => [A]_vars
  BY <1>1
<1>3. Spec /\ []NoOverlap => [][A]_vars
  BY <1>2, SerialInvariant, PTL DEF Spec
<1> QED
  BY <1>3 DEF A, TerminalStatus

--------------------------------------------------------------------------------
(* The refinement: INSERT is Submit, UPDATE is Move, a deletion is Remove. *)

\* An application of the workflow as its row shows it.
Shown(r) ==
  IF r = None THEN None ELSE [key |-> <<r.job, r.applicant>>, status |-> r.status]

\* The workflow and the handlers go by the same tables.
LEMMA SameTables ==
  Workflow!Status = Status /\ \A s, t : Workflow!LegalMove(s, t) <=> LegalMove(s, t)
BY DEF Workflow!Status, Status, Workflow!LegalMove, LegalMove, Workflow!NextStatuses,
       NextStatuses, Workflow!VALID_TRANSITIONS, VALID_TRANSITIONS,
       Workflow!WITHDRAWABLE_STATUSES, WITHDRAWABLE_STATUSES

LEMMA InsertSubmits ==
  ASSUME AllInv, NEW w \in Workers, ApplyInsert(w), row' # row,
         NEW a, a = pk[w], NEW k, k = <<obj[w].job, obj[w].applicant>>
  PROVE  Workflow!Submit(a, k)
<1>1. /\ a \in AppIds /\ obj[w] \in Row /\ obj[w] # None
      /\ a \notin issued /\ obj[w].status = "applied"
      /\ row \in [AppIds -> Row \cup {None}]
  BY ConstantsAssumption DEF ApplyInsert, AllInv, TypeInv, TypeOK, InstanceOK, Handling, IdsInv,
                             Applying, AnnounceInv, WorkerOK
<1>2. /\ Rivals(a, obj[w]) = {}
      /\ row' = [row EXCEPT ![a] = obj[w]]
      /\ issued' = issued \cup {a}
  BY <1>1 DEF ApplyInsert
<1>3. row[a] = None
  BY <1>1 DEF AllInv, IdsInv
<1>4. \A b \in AppIds : row[b] # None => <<row[b].job, row[b].applicant>> # k
  BY <1>2, <1>3 DEF Rivals
<1>5. \A b \in AppIds : Shown(row'[b]) = IF b = a THEN [key |-> k, status |-> "applied"]
                                                  ELSE Shown(row[b])
  BY <1>1, <1>2 DEF Shown
<1>6. [b \in AppIds |-> Shown(row'[b])]
        = [[b \in AppIds |-> Shown(row[b])] EXCEPT ![a] = [key |-> k, status |-> "applied"]]
  BY <1>1, <1>5
<1>7. \A b \in AppIds : Shown(row[b]) # None => Shown(row[b]).key # k
  BY <1>4 DEF Shown
<1> QED
  BY <1>1, <1>2, <1>6, <1>7 DEF Workflow!Submit, Shown

LEMMA UpdateMoves ==
  ASSUME AllInv, SavesInv, NEW w \in Workers, Update(w), row' # row,
         NEW a, a = pk[w], NEW s, s = obj[w].status
  PROVE  Workflow!Move(a, s)
<1>1. /\ a \in AppIds /\ row[a] # None /\ row[a] \in Row
      /\ LegalMove(row[a].status, s)
      /\ row \in [AppIds -> Row \cup {None}]
  BY DEF Update, AllInv, TypeInv, TypeOK, InstanceOK, Handling, SavesInv, SaveOK, Saving
<1>2. /\ row'[a].status = s /\ row'[a].job = row[a].job /\ row'[a].applicant = row[a].applicant
      /\ row'[a] # None
      /\ \A b \in AppIds \ {a} : row'[b] = row[b]
      /\ issued' = issued
  BY <1>1, ConstantsAssumption DEF Update, Row, AllInv, TypeInv, TypeOK, InstanceOK, Handling
<1>3. \A b \in AppIds : Shown(row'[b]) = IF b = a THEN [Shown(row[a]) EXCEPT !.status = s]
                                                  ELSE Shown(row[b])
  BY <1>1, <1>2 DEF Shown
<1>4. [b \in AppIds |-> Shown(row'[b])]
        = [[b \in AppIds |-> Shown(row[b])] EXCEPT ![a].status = s]
  BY <1>1, <1>3
<1>5. Shown(row[a]) # None /\ Shown(row[a]).status = row[a].status
  BY <1>1, WorkflowAssumption, SameTables DEF Shown, Row, Workflow!Application
<1> QED
  BY <1>1, <1>2, <1>4, <1>5, SameTables DEF Workflow!Move, Shown

LEMMA DeletionRemoves ==
  ASSUME NEW gone \in SUBSET AppIds, UNCHANGED issued,
         \A a \in AppIds : row'[a] = IF a \in gone THEN None ELSE row[a]
  PROVE  Workflow!Remove(gone)
BY DEF Workflow!Remove

LEMMA RefinementStep ==
  ASSUME ~AdminEditing, AllInv, SavesInv, [Next]_vars
  PROVE  [Workflow!WNext]_(Workflow!wvars)
<1> USE DEF Workflow!WNext
<1>1. CASE row' = row /\ issued' = issued
  BY <1>1 DEF Workflow!wvars
<1>2. ASSUME NEW w \in Workers, ApplyInsert(w), row' # row
      PROVE  Workflow!WNext
  <2>1. PICK a \in AppIds, k \in Jobs \X Candidates :
               a = pk[w] /\ k = <<obj[w].job, obj[w].applicant>>
    BY <1>2 DEF ApplyInsert, AllInv, TypeInv, InstanceOK, Handling, Row
  <2> QED
    BY <1>2, <2>1, InsertSubmits
<1>3. ASSUME NEW w \in Workers, Update(w), row' # row
      PROVE  Workflow!WNext
  <2>1. PICK a \in AppIds, s \in Workflow!Status : a = pk[w] /\ s = obj[w].status
    BY <1>3, SameTables DEF Update, AllInv, TypeInv, InstanceOK, Handling, Row
  <2> QED
    BY <1>3, <2>1, UpdateMoves
<1>4. ASSUME NEW w \in Workers, DeleteJobCommit(w), row' # row
      PROVE  Workflow!WNext
  <2>1. /\ cascade[w] \in SUBSET AppIds /\ UNCHANGED issued
        /\ \A a \in AppIds : row'[a] = IF a \in cascade[w] THEN None ELSE row[a]
    BY <1>4 DEF DeleteJobCommit, AllInv, TypeInv, TypeOK
  <2> QED
    BY <2>1, DeletionRemoves
<1>5. ASSUME NEW a \in AppIds, AdminDelete(a)
      PROVE  Workflow!WNext
  <2>1. /\ {a} \in SUBSET AppIds /\ UNCHANGED issued
        /\ \A b \in AppIds : row'[b] = IF b \in {a} THEN None ELSE row[b]
    BY <1>5 DEF AdminDelete, AllInv, TypeInv, TypeOK
  <2> QED
    BY <2>1, DeletionRemoves
<1>6. \A w \in Workers : ~AdminSave(w)
  BY DEF AdminSave, SavesEveryColumn, AllInv, AnnounceInv, WorkerOK, Saving, SaveKinds
<1>7. ASSUME NEW w \in Workers,
             Accept(w) \/ ApplyCheckDuplicate(w) \/ ApplyPostSave(w) \/ PreSave(w)
      PROVE  row' = row /\ issued' = issued
  BY <1>7 DEF Accept, TurnedAway, ApplyValidateJob, Withdraw, PatchStatus, AdminEdit, DeleteJobCascade,
              ApplyCheckDuplicate, ApplyPostSave, PreSave, db
<1>8. ASSUME NEW w \in Workers, ApplyInsert(w) \/ Update(w) \/ DeleteJobCommit(w), row' = row
      PROVE  issued' = issued
  <2>1. ASSUME ApplyInsert(w)
        PROVE  issued' = issued
    <3>1. /\ pk[w] \in AppIds /\ row[pk[w]] = None /\ obj[w] # None
          /\ row \in [AppIds -> Row \cup {None}]
      BY <2>1, ConstantsAssumption DEF ApplyInsert, AllInv, TypeInv, TypeOK, InstanceOK, Handling,
                                       IdsInv, Applying
    <3> QED
      BY <1>8, <2>1, <3>1 DEF ApplyInsert
  <2> QED
    BY <1>8, <2>1 DEF Update, DeleteJobCommit
<1>9. \/ UNCHANGED vars
      \/ \E j \in Jobs : JobChanges(j)
      \/ BrokerToggles
      \/ \E w \in Workers : Crash(w)
      => row' = row /\ issued' = issued
  BY DEF vars, JobChanges, BrokerToggles, Crash, db
<1> QED
  BY <1>1, <1>2, <1>3, <1>4, <1>5, <1>6, <1>7, <1>8, <1>9 DEF Next, Environment, Proceed

(* Without admin edits and without overlapping saves of one application, the handlers,
   their crashes, the cascades and the broker's failures implement the workflow: every
   step is one of its operations, or changes nothing of an application that it knows. *)
THEOREM HandlersImplementWorkflow ==
  ASSUME ~AdminEditing
  PROVE  Spec /\ []NoOverlap => ImplementsWorkflow
<1>1. Init => Workflow!WInit
  BY DEF Init, Workflow!WInit
<1>2. SerialInv /\ [Next]_vars => [Workflow!WNext]_(Workflow!wvars)
  BY RefinementStep DEF SerialInv
<1> QED
  BY <1>1, <1>2, SerialInvariant, PTL DEF Spec, ImplementsWorkflow, Workflow!WSpec

--------------------------------------------------------------------------------
\* One gunicorn worker, as in run "serial", cannot overlap with itself.
OneWorker == \A v, w \in Workers : v = w

LEMMA OneWorkerIsSerial == OneWorker => NoOverlap
BY DEF OneWorker, NoOverlap

(* With a single worker and without admin edits the API implements the workflow, its
   mails tell of edges, and notes change on request, unconditionally. *)
THEOREM OneWorkerSuffices ==
  ASSUME ~AdminEditing, OneWorker
  PROVE  /\ Spec => ImplementsWorkflow
         /\ Spec => []AnnouncedMovesLegal
         /\ Spec => NotesChangeOnRequest
<1>1. []NoOverlap
  <2>1. NoOverlap
    BY OneWorkerIsSerial
  <2> QED
    BY <2>1, PTL
<1> QED
  BY <1>1, HandlersImplementWorkflow, MailsTellOfEdges, NotesAreKept, PTL
================================================================================
