---------------------------- MODULE JobListingsProofs ----------------------------
(***************************************************************************)
(* Proofs about JobListings, for any number of workers, jobs, titles, days *)
(* and requests.                                                           *)
(***************************************************************************)
EXTENDS JobListings, TLAPS

\* What a worker has in its hands: a job that exists or existed, and, once the instance
\* is loaded, a copy that differs from what was loaded only where the handler set it.
InstanceOK ==
  \A w \in Workers :
    /\ pc[w] \in InFlight => pk[w] \in born
    /\ pc[w] = "found" => kind[w] \in {"edit", "delete"}
    /\ pc[w] = "loaded" =>
         /\ obj[w] \in Row /\ base[w] \in Row
         /\ kind[w] \in {"retrieve", "edit", "delete", "publish", "close"}
         /\ obj[w].views = base[w].views
         /\ kind[w] = "edit" => obj[w].status = base[w].status
         /\ kind[w] = "publish" => base[w].status = "draft" /\ obj[w].status = "published"
         /\ kind[w] = "close" => base[w].status = "published" /\ obj[w].status = "closed"

\* A job that was never created has no row and no views.
UnbornOK == \A j \in Jobs \ born : row[j] = None /\ seen[j] = 0

IInv == TypeOK /\ InstanceOK /\ UnbornOK

--------------------------------------------------------------------------------
(* What the shared parts of the actions keep. *)

\* The instance o of a handler of kind k was made from l.
MadeFrom(k, l, o) ==
  /\ o \in Row /\ l \in Row
  /\ k \in {"retrieve", "edit", "delete", "publish", "close"}
  /\ o.views = l.views
  /\ k = "edit" => o.status = l.status
  /\ k = "publish" => l.status = "draft" /\ o.status = "published"
  /\ k = "close" => l.status = "published" /\ o.status = "closed"

LEMMA BeginLocal ==
  ASSUME IInv, NEW w \in Workers, NEW k \in Kinds, NEW j \in Jobs,
         NEW l \in Row \cup {None}, NEW o \in Row \cup {None},
         NEW p \in Answered \cup InFlight, Begin(w, k, j, l, o, p),
         born \subseteq born', p \in InFlight => j \in born',
         p = "found" => k \in {"edit", "delete"},
         p = "loaded" => MadeFrom(k, l, o)
  PROVE  /\ pc' \in [Workers -> Answered \cup InFlight]
         /\ kind' \in [Workers -> Kinds]
         /\ pk' \in [Workers -> Jobs \cup {None}]
         /\ obj' \in [Workers -> Row \cup {None}]
         /\ base' \in [Workers -> Row \cup {None}]
         /\ accepted' \in Nat
         /\ InstanceOK'
<1>1. /\ pc' \in [Workers -> Answered \cup InFlight]
      /\ kind' \in [Workers -> Kinds]
      /\ pk' \in [Workers -> Jobs \cup {None}]
      /\ obj' \in [Workers -> Row \cup {None}]
      /\ base' \in [Workers -> Row \cup {None}]
      /\ accepted' \in Nat
  BY DEF IInv, TypeOK, Begin
<1>2. InstanceOK'
  <2> SUFFICES ASSUME NEW v \in Workers PROVE InstanceOK!(v)'
    BY DEF InstanceOK
  <2>1. CASE v = w
    BY <2>1 DEF IInv, TypeOK, Begin, MadeFrom
  <2>2. CASE v # w
    BY <2>2 DEF IInv, TypeOK, InstanceOK, Begin
  <2> QED BY <2>1, <2>2
<1> QED BY <1>1, <1>2

\* A request that starts and changes no table.
LEMMA BeginKeeps ==
  ASSUME IInv, NEW w \in Workers, NEW k \in Kinds, NEW j \in born,
         NEW l \in Row \cup {None}, NEW o \in Row \cup {None},
         NEW p \in Answered \cup {"found", "loaded"}, Begin(w, k, j, l, o, p),
         p = "found" => k \in {"edit", "delete"},
         p = "loaded" => MadeFrom(k, l, o),
         UNCHANGED <<today, row, born, seen, stale, torn>>
  PROVE  IInv'
<1>1. j \in Jobs /\ p \in Answered \cup InFlight
  BY DEF IInv, TypeOK, InFlight
<1>2. /\ pc' \in [Workers -> Answered \cup InFlight]
      /\ kind' \in [Workers -> Kinds]
      /\ pk' \in [Workers -> Jobs \cup {None}]
      /\ obj' \in [Workers -> Row \cup {None}]
      /\ base' \in [Workers -> Row \cup {None}]
      /\ accepted' \in Nat
      /\ InstanceOK'
  BY <1>1, BeginLocal
<1>3. TypeOK' /\ UnbornOK'
  BY <1>2 DEF IInv, TypeOK, UnbornOK
<1> QED BY <1>2, <1>3 DEF IInv

LEMMA DismissKeeps ==
  ASSUME IInv, NEW w \in Workers, NEW k \in Kinds, NEW j \in born,
         NEW p \in {"missing", "refused"}, Dismiss(w, k, j, p),
         UNCHANGED <<today, row, born, seen, stale, torn>>
  PROVE  IInv'
<1>1. Begin(w, k, j, None, None, p) /\ p \in Answered /\ p # "found" /\ p # "loaded"
  BY DEF Dismiss, Answered
<1> QED BY <1>1, BeginKeeps

\* A worker that goes on with its request, and neither loads nor takes another.
LEMMA GotoKeeps ==
  ASSUME IInv, NEW w \in Workers, pc[w] \in InFlight,
         NEW p \in Answered \cup {"written"}, Goto(w, p),
         row' \in [Jobs -> Row \cup {None}],
         \A j \in Jobs \ born : row'[j] = None /\ seen'[j] = 0,
         seen' \in [Jobs -> Nat], stale' \subseteq Jobs, torn' \subseteq Jobs,
         UNCHANGED <<today, born, local, accepted>>
  PROVE  IInv'
<1>1. pc' \in [Workers -> Answered \cup InFlight]
  BY DEF IInv, TypeOK, Goto, InFlight
<1>2. TypeOK'
  BY <1>1 DEF IInv, TypeOK, local
<1>3. InstanceOK'
  <2> SUFFICES ASSUME NEW v \in Workers PROVE InstanceOK!(v)'
    BY DEF InstanceOK
  <2>1. CASE v = w
    BY <2>1 DEF IInv, TypeOK, InstanceOK, Goto, local, Answered, InFlight
  <2>2. CASE v # w
    BY <2>2 DEF IInv, TypeOK, InstanceOK, Goto, local
  <2> QED BY <2>1, <2>2
<1>4. UnbornOK'
  BY DEF IInv, UnbornOK
<1> QED BY <1>2, <1>3, <1>4 DEF IInv

--------------------------------------------------------------------------------
LEMMA AcceptKeeps ==
  ASSUME IInv, NEW w \in Workers, Accept(w)
  PROVE  IInv'
<1> USE ListingsAssumption
<1>1. ASSUME NEW j \in Jobs, NEW t \in Titles, NEW d \in Deadlines, CreateJob(w, j, t, d)
      PROVE  IInv'
  <2>1. NewJob(t, d) \in Row
    BY DEF NewJob, Row, JobStatus
  <2>2. Begin(w, "create", j, None, NewJob(t, d), "written") /\ born' = born \cup {j}
    BY <1>1 DEF CreateJob
  <2>3. /\ pc' \in [Workers -> Answered \cup InFlight]
        /\ kind' \in [Workers -> Kinds]
        /\ pk' \in [Workers -> Jobs \cup {None}]
        /\ obj' \in [Workers -> Row \cup {None}]
        /\ base' \in [Workers -> Row \cup {None}]
        /\ accepted' \in Nat
        /\ InstanceOK'
    <3> HIDE DEF NewJob
    <3>1. "create" \in Kinds /\ "written" \in Answered \cup InFlight
      BY DEF Kinds, InFlight
    <3> QED
      BY <2>1, <2>2, <3>1, BeginLocal
  <2>4. row' \in [Jobs -> Row \cup {None}] /\ \A i \in Jobs \ born' : row'[i] = None
    BY <1>1, <2>1, <2>2 DEF CreateJob, IInv, TypeOK, UnbornOK
  <2>5. TypeOK'
    BY <1>1, <2>3, <2>4 DEF CreateJob, IInv, TypeOK
  <2>6. UnbornOK'
    BY <1>1, <2>4 DEF CreateJob, IInv, UnbornOK
  <2> QED BY <2>3, <2>5, <2>6 DEF IInv
<1>2. ASSUME NEW j \in Jobs, Retrieve(w, j)
      PROVE  IInv'
  <2>1. j \in born /\ UNCHANGED <<today, row, born, seen, stale, torn>>
    BY <1>2 DEF Retrieve
  <2>2. row[j] \in Row \cup {None}
    BY DEF IInv, TypeOK
  <2>3. CASE row[j] = None
    BY <1>2, <2>1, <2>3, DismissKeeps DEF Retrieve, Kinds
  <2>4. CASE row[j] # None
    <3>1. MadeFrom("retrieve", row[j], row[j])
      BY <2>2, <2>4 DEF MadeFrom
    <3>2. Begin(w, "retrieve", j, row[j], row[j], "loaded")
      BY <1>2, <2>4 DEF Retrieve
    <3> QED
      BY <2>1, <2>2, <3>1, <3>2, BeginKeeps DEF Kinds
  <2> QED BY <2>3, <2>4
<1>3. ASSUME NEW j \in Jobs, NEW k \in {"publish", "close"}, NEW may \in BOOLEAN,
             NEW s \in JobStatus, SetStatus(w, j, k, may, s),
             row[j] # None /\ may => MadeFrom(k, row[j], [row[j] EXCEPT !.status = s])
      PROVE  IInv'
  <2>1. j \in born /\ UNCHANGED <<today, row, born, seen, stale, torn>>
    BY <1>3 DEF SetStatus
  <2>2. CASE row[j] = None \/ ~may
    <3>1. Dismiss(w, k, j, "missing") \/ Dismiss(w, k, j, "refused")
      BY <1>3, <2>2 DEF SetStatus
    <3> QED
      BY <2>1, <3>1, DismissKeeps DEF Kinds
  <2>3. CASE row[j] # None /\ may
    <3>1. Begin(w, k, j, row[j], [row[j] EXCEPT !.status = s], "loaded")
      BY <1>3, <2>3 DEF SetStatus
    <3>2. row[j] \in Row /\ [row[j] EXCEPT !.status = s] \in Row
      BY <1>3, <2>3 DEF MadeFrom
    <3> QED
      BY <1>3, <2>1, <2>3, <3>1, <3>2, BeginKeeps DEF Kinds
  <2> QED BY <2>2, <2>3
<1>4. ASSUME NEW j \in Jobs, Publish(w, j)
      PROVE  IInv'
  <2>1. ASSUME row[j] # None, MayPublish(row[j])
        PROVE  MadeFrom("publish", row[j], [row[j] EXCEPT !.status = "published"])
    BY <2>1 DEF IInv, TypeOK, MayPublish, MadeFrom, Row, JobStatus
  <2> QED
    BY <1>3, <1>4, <2>1 DEF Publish, MayPublish, JobStatus
<1>5. ASSUME NEW j \in Jobs, Close(w, j)
      PROVE  IInv'
  <2>1. ASSUME row[j] # None, MayClose(row[j])
        PROVE  MadeFrom("close", row[j], [row[j] EXCEPT !.status = "closed"])
    BY <2>1 DEF IInv, TypeOK, MayClose, MadeFrom, Row, JobStatus
  <2> QED
    BY <1>3, <1>5, <2>1 DEF Close, MayClose, JobStatus
<1>6. ASSUME NEW j \in Jobs, NEW k \in {"edit", "delete"}, FindJob(w, j, k)
      PROVE  IInv'
  <2>1. /\ j \in born /\ UNCHANGED <<today, row, born, seen, stale, torn>>
        /\ Dismiss(w, k, j, "missing") \/ Dismiss(w, k, j, "found")
    BY <1>6 DEF FindJob
  <2>2. CASE Dismiss(w, k, j, "missing")
    BY <2>1, <2>2, DismissKeeps DEF Kinds
  <2>3. CASE Dismiss(w, k, j, "found")
    BY <2>1, <2>3, BeginKeeps DEF Dismiss, Kinds
  <2> QED BY <2>1, <2>2, <2>3
<1> QED BY <1>1, <1>2, <1>4, <1>5, <1>6 DEF Accept

LEMMA ProceedKeeps ==
  ASSUME IInv, NEW w \in Workers, Proceed(w)
  PROVE  IInv'
<1> USE ListingsAssumption
<1>1. pc[w] \in InFlight => pk[w] \in born /\ pk[w] \in Jobs
  BY DEF IInv, TypeOK, InstanceOK
<1>2. /\ row \in [Jobs -> Row \cup {None}] /\ seen \in [Jobs -> Nat]
      /\ stale \subseteq Jobs /\ torn \subseteq Jobs
      /\ \A j \in Jobs \ born : row[j] = None /\ seen[j] = 0
  BY DEF IInv, TypeOK, UnbornOK
<1>3. ASSUME CountView(w) PROVE IInv'
  <2>1. pc[w] \in InFlight /\ Goto(w, "done") /\ UNCHANGED <<today, born, local, stale, torn, accepted>>
    BY <1>3 DEF CountView, InFlight
  <2>2. /\ row' \in [Jobs -> Row \cup {None}] /\ seen' \in [Jobs -> Nat]
        /\ \A j \in Jobs \ born : row'[j] = None /\ seen'[j] = 0
    <3>1. CASE row[pk[w]] = None
      BY <1>2, <1>3, <3>1 DEF CountView
    <3>2. CASE row[pk[w]] # None
      <4>1. row[pk[w]].views \in Nat /\ seen[pk[w]] \in Nat
        BY <1>1, <1>2, <2>1, <3>2 DEF Row
      <4>2. [row[pk[w]] EXCEPT !.views = row[pk[w]].views + 1] \in Row
        BY <1>1, <1>2, <2>1, <3>2, <4>1 DEF Row
      <4>3. /\ row' = [row EXCEPT ![pk[w]] = [row[pk[w]] EXCEPT !.views = row[pk[w]].views + 1]]
            /\ seen' = [seen EXCEPT ![pk[w]] = seen[pk[w]] + 1]
        BY <1>1, <1>2, <1>3, <2>1, <3>2 DEF CountView, ViewsAfter
      <4> QED
        BY <1>1, <1>2, <2>1, <4>1, <4>2, <4>3
    <3> QED BY <3>1, <3>2
  <2> QED BY <1>2, <2>1, <2>2, GotoKeeps DEF Answered
<1>4. ASSUME LoadAgain(w) PROVE IInv'
  <2>1. pc[w] = "found" /\ kind[w] \in {"edit", "delete"} /\ pk[w] \in born /\ pk[w] \in Jobs
    BY <1>1, <1>4 DEF LoadAgain, IInv, InstanceOK, InFlight
  <2>2. UNCHANGED <<today, row, born, kind, pk, seen, stale, torn, accepted>>
    BY <1>4 DEF LoadAgain
  <2>3. CASE row[pk[w]] = None
    <3>1. Goto(w, "missing") /\ UNCHANGED <<obj, base>>
      BY <1>4, <2>3 DEF LoadAgain
    <3> QED
      BY <1>2, <2>1, <2>2, <3>1, GotoKeeps DEF local, InFlight, Answered
  <2>4. CASE row[pk[w]] # None
    <3> DEFINE r == row[pk[w]]
    <3>1. PICK t \in Titles, d \in Deadlines :
            obj' = [obj EXCEPT ![w] = IF kind[w] = "edit"
                                      THEN [r EXCEPT !.title = t, !.deadline = d] ELSE r]
      BY <1>4, <2>4 DEF LoadAgain
    <3>2. base' = [base EXCEPT ![w] = r] /\ pc' = [pc EXCEPT ![w] = "loaded"]
      BY <1>4, <2>4 DEF LoadAgain, Goto
    <3>3. r \in Row
      BY <1>2, <2>1, <2>4
    <3>4. /\ [r EXCEPT !.title = t, !.deadline = d] \in Row
          /\ [r EXCEPT !.title = t, !.deadline = d].views = r.views
          /\ [r EXCEPT !.title = t, !.deadline = d].status = r.status
      BY <3>3 DEF Row
    <3>5. \E o \in Row : /\ obj' = [obj EXCEPT ![w] = o]
                         /\ o.views = r.views /\ o.status = r.status
      BY <3>1, <3>3, <3>4
    <3> HIDE DEF r
    <3>6. PICK o \in Row : /\ obj' = [obj EXCEPT ![w] = o]
                           /\ o.views = r.views /\ o.status = r.status
      BY <3>5
    <3>7. TypeOK'
      BY <2>2, <3>2, <3>3, <3>6 DEF IInv, TypeOK, InFlight
    <3>8. InstanceOK'
      <4> SUFFICES ASSUME NEW v \in Workers PROVE InstanceOK!(v)'
        BY DEF InstanceOK
      <4>1. CASE v = w
        BY <2>1, <2>2, <3>2, <3>3, <3>6, <4>1 DEF IInv, TypeOK
      <4>2. CASE v # w
        BY <2>2, <3>2, <3>6, <4>2 DEF IInv, TypeOK, InstanceOK
      <4> QED BY <4>1, <4>2
    <3> QED BY <2>2, <3>7, <3>8 DEF IInv, UnbornOK
  <2> QED BY <2>3, <2>4
<1>5. ASSUME DeleteJob(w) PROVE IInv'
  <2>1. pc[w] \in InFlight /\ Goto(w, "done")
    BY <1>5 DEF DeleteJob, InFlight
  <2>2. row' \in [Jobs -> Row \cup {None}] /\ \A j \in Jobs \ born : row'[j] = None
    BY <1>2, <1>5 DEF DeleteJob
  <2> QED BY <1>2, <1>5, <2>1, <2>2, GotoKeeps DEF DeleteJob, Answered
<1>6. ASSUME SaveStatus(w) PROVE IInv'
  <2>1. pc[w] \in InFlight /\ obj[w] \in Row
    BY <1>6 DEF SaveStatus, InFlight, IInv, InstanceOK
  <2>2. CASE row[pk[w]] = None
    BY <1>2, <1>6, <2>1, <2>2, GotoKeeps DEF SaveStatus, Answered
  <2>3. CASE row[pk[w]] # None
    <3>1. [row[pk[w]] EXCEPT !.status = obj[w].status] \in Row
      BY <1>1, <1>2, <2>1, <2>3 DEF Row
    <3>2. row' = [row EXCEPT ![pk[w]] = [row[pk[w]] EXCEPT !.status = obj[w].status]]
      BY <1>1, <1>2, <1>6, <2>1, <2>3 DEF SaveStatus
    <3>3. row' \in [Jobs -> Row \cup {None}] /\ \A j \in Jobs \ born : row'[j] = None
      BY <1>1, <1>2, <2>1, <3>1, <3>2
    <3> QED BY <1>2, <1>6, <2>1, <2>3, <3>3, GotoKeeps DEF SaveStatus
  <2> QED BY <2>2, <2>3
<1>7. ASSUME SaveEverything(w) PROVE IInv'
  <2>1. pc[w] \in InFlight /\ obj[w] \in Row
    BY <1>7 DEF SaveEverything, InFlight, IInv, InstanceOK
  <2>2. row' \in [Jobs -> Row \cup {None}] /\ \A j \in Jobs \ born : row'[j] = None
    BY <1>1, <1>2, <1>7, <2>1 DEF SaveEverything
  <2>3. stale' \subseteq Jobs
    BY <1>1, <1>2, <1>7, <2>1 DEF SaveEverything
  <2> QED BY <1>2, <1>7, <2>1, <2>2, <2>3, GotoKeeps DEF SaveEverything
<1>8. ASSUME RebuildVector(w) PROVE IInv'
  <2>1. pc[w] \in InFlight /\ Goto(w, "done") /\ torn' \subseteq Jobs
    BY <1>2, <1>8 DEF RebuildVector, InFlight
  <2>2. row' \in [Jobs -> Row \cup {None}] /\ \A j \in Jobs \ born : row'[j] = None
    <3>1. CASE row[pk[w]] = None
      BY <1>2, <1>8, <3>1 DEF RebuildVector
    <3>2. CASE row[pk[w]] # None
      <4>1. [row[pk[w]] EXCEPT !.vector = row[pk[w]].title] \in Row
        BY <1>1, <1>2, <2>1, <3>2 DEF Row
      <4>2. row' = [row EXCEPT ![pk[w]] = [row[pk[w]] EXCEPT !.vector = row[pk[w]].title]]
        BY <1>1, <1>2, <1>8, <2>1, <3>2 DEF RebuildVector, Vector
      <4> QED BY <1>1, <1>2, <2>1, <4>1, <4>2
    <3> QED BY <3>1, <3>2
  <2> QED BY <1>2, <1>8, <2>1, <2>2, GotoKeeps DEF RebuildVector, Answered
<1> QED BY <1>3, <1>4, <1>5, <1>6, <1>7, <1>8 DEF Proceed

LEMMA EnvironmentKeeps ==
  ASSUME IInv, Midnight \/ CloseExpired \/ \E w \in Workers : Crash(w)
  PROVE  IInv'
<1> USE ListingsAssumption
<1>1. CASE Midnight
  BY <1>1 DEF Midnight, local, IInv, TypeOK, InstanceOK, UnbornOK
<1>2. CASE CloseExpired
  <2>1. ASSUME NEW j \in Jobs, row[j] # None
        PROVE  [row[j] EXCEPT !.status = "closed"] \in Row
    BY <2>1 DEF IInv, TypeOK, Row, JobStatus
  <2>2. row' \in [Jobs -> Row \cup {None}] /\ \A j \in Jobs \ born : row'[j] = None
    BY <1>2, <2>1 DEF CloseExpired, IInv, TypeOK, UnbornOK
  <2>3. UNCHANGED <<today, born, pc, kind, pk, obj, base, seen, stale, torn, accepted>>
    BY <1>2 DEF CloseExpired, local
  <2> QED BY <2>2, <2>3 DEF IInv, TypeOK, InstanceOK, UnbornOK
<1>3. CASE \E w \in Workers : Crash(w)
  <2> PICK w \in Workers : Crash(w)
    BY <1>3
  <2>1. pc[w] \in InFlight /\ Goto(w, "idle") /\ torn' \subseteq Jobs
    BY DEF Crash, IInv, TypeOK, InstanceOK
  <2> QED
    BY <2>1, GotoKeeps DEF Crash, Answered, IInv, TypeOK, UnbornOK
<1> QED BY <1>1, <1>2, <1>3

LEMMA InductiveInit == Init => IInv
BY ListingsAssumption DEF Init, IInv, TypeOK, InstanceOK, UnbornOK, Answered, InFlight, Kinds

LEMMA InductiveStep == IInv /\ [Next]_vars => IInv'
<1> SUFFICES ASSUME IInv, [Next]_vars PROVE IInv'
  OBVIOUS
<1>1. CASE UNCHANGED vars
  BY <1>1 DEF vars, IInv, TypeOK, InstanceOK, UnbornOK
<1> QED
  BY <1>1, AcceptKeeps, ProceedKeeps, EnvironmentKeeps DEF Next

LEMMA Inductive == Spec => []IInv
BY InductiveInit, InductiveStep, PTL DEF Spec

(* Every reachable state is well typed; in particular a handler past its load has an
   instance, and no counter of a row is missing. *)
THEOREM TypeCorrect == Spec => []TypeOK
<1>1. IInv => TypeOK
  BY DEF IInv
<1> QED BY <1>1, Inductive, PTL

--------------------------------------------------------------------------------
\* The actions that leave the rows and the history of a step alone, by what they write.
RowsKept == UNCHANGED <<row, born, seen, stale>>

LEMMA AcceptWrites ==
  ASSUME NEW w \in Workers, Accept(w)
  PROVE  \/ \E j \in Jobs, t \in Titles, d \in Deadlines : CreateJob(w, j, t, d)
         \/ RowsKept /\ UNCHANGED torn
BY DEF Accept, Retrieve, Publish, Close, SetStatus, FindJob, RowsKept

(* What every step does to the rows: the four statements that write one, the two that
   write a single column of many, or nothing. *)
LEMMA StepWrites ==
  ASSUME [Next]_vars
  PROVE  \/ RowsKept
         \/ CloseExpired
         \/ \E w \in Workers, j \in Jobs, t \in Titles, d \in Deadlines : CreateJob(w, j, t, d)
         \/ \E w \in Workers :
              CountView(w) \/ DeleteJob(w) \/ SaveStatus(w) \/ SaveEverything(w) \/ RebuildVector(w)
<1>1. CASE UNCHANGED vars
  BY <1>1 DEF vars, RowsKept
<1>2. CASE Midnight \/ CloseExpired
  BY <1>2 DEF Midnight, RowsKept
<1>3. CASE \E w \in Workers : Accept(w)
  BY <1>3, AcceptWrites
<1>4. CASE \E w \in Workers : Proceed(w)
  BY <1>4 DEF Proceed, LoadAgain, RowsKept
<1>5. CASE \E w \in Workers : Crash(w)
  BY <1>5 DEF Crash, RowsKept
<1> QED BY <1>1, <1>2, <1>3, <1>4, <1>5 DEF Next

(* A worker that writes has a job and an instance. *)
LEMMA WriterOK ==
  ASSUME IInv, NEW w \in Workers, pc[w] \in {"loaded", "written"}
  PROVE  /\ pk[w] \in Jobs /\ pk[w] \in born
         /\ pc[w] = "loaded" => obj[w] \in Row /\ base[w] \in Row
BY DEF IInv, TypeOK, InstanceOK, InFlight

--------------------------------------------------------------------------------
LEMMA ViewsStep ==
  ASSUME IInv, ViewsCounted, [Next]_vars
  PROVE  ViewsCounted'
<1> USE ListingsAssumption
<1> SUFFICES ASSUME NEW j \in Jobs \ stale', row'[j] # None
             PROVE  row'[j].views = seen'[j]
  BY DEF ViewsCounted
<1>1. row \in [Jobs -> Row \cup {None}] /\ seen \in [Jobs -> Nat] /\ j \in Jobs
  BY DEF IInv, TypeOK
<1>2. j \notin stale /\ row[j] # None => row[j] \in Row /\ row[j].views = seen[j]
  BY <1>1 DEF ViewsCounted
<1>3. CASE RowsKept
  BY <1>2, <1>3 DEF RowsKept
<1>4. CASE CloseExpired
  <2>1. row[j] # None /\ seen' = seen /\ stale' = stale /\ row[j] \in Row
    BY <1>1, <1>4 DEF CloseExpired
  <2>2. row'[j] = row[j] \/ row'[j] = [row[j] EXCEPT !.status = "closed"]
    BY <1>1, <1>4 DEF CloseExpired
  <2>3. [row[j] EXCEPT !.status = "closed"].views = row[j].views
    BY <2>1 DEF Row
  <2> QED BY <1>2, <2>1, <2>2, <2>3
<1>5. ASSUME NEW w \in Workers, NEW i \in Jobs, NEW t \in Titles, NEW d \in Deadlines,
             CreateJob(w, i, t, d)
      PROVE  row'[j].views = seen'[j]
  <2>1. i \notin born /\ seen[i] = 0 /\ seen' = seen /\ stale' = stale
    BY <1>5 DEF CreateJob, IInv, UnbornOK
  <2>2. row' = [row EXCEPT ![i] = NewJob(t, d)]
    BY <1>5 DEF CreateJob
  <2>3. NewJob(t, d).views = 0
    BY DEF NewJob
  <2> HIDE DEF NewJob
  <2> QED BY <1>1, <1>2, <2>1, <2>2, <2>3
<1>6. ASSUME NEW w \in Workers, CountView(w)
      PROVE  row'[j].views = seen'[j]
  <2>1. pk[w] \in Jobs /\ stale' = stale
    BY <1>6, WriterOK DEF CountView
  <2>2. CASE row[pk[w]] = None
    BY <1>2, <1>6, <2>1, <2>2 DEF CountView
  <2>3. CASE row[pk[w]] # None
    <3>1. /\ row' = [row EXCEPT ![pk[w]] = [row[pk[w]] EXCEPT !.views = row[pk[w]].views + 1]]
          /\ seen' = [seen EXCEPT ![pk[w]] = seen[pk[w]] + 1]
      BY <1>1, <1>6, <2>1, <2>3 DEF CountView, ViewsAfter
    <3>2. [row[pk[w]] EXCEPT !.views = row[pk[w]].views + 1].views = row[pk[w]].views + 1
      BY <1>1, <2>1, <2>3 DEF Row
    <3> QED BY <1>1, <1>2, <2>1, <2>3, <3>1, <3>2
  <2> QED BY <2>2, <2>3
<1>7. ASSUME NEW w \in Workers, DeleteJob(w)
      PROVE  row'[j].views = seen'[j]
  BY <1>1, <1>2, <1>7 DEF DeleteJob
<1>8. ASSUME NEW w \in Workers, SaveStatus(w)
      PROVE  row'[j].views = seen'[j]
  <2>1. pk[w] \in Jobs /\ stale' = stale /\ seen' = seen
    BY <1>8, WriterOK DEF SaveStatus
  <2>2. CASE row[pk[w]] = None
    BY <1>2, <1>8, <2>1, <2>2 DEF SaveStatus
  <2>3. CASE row[pk[w]] # None
    <3>1. row' = [row EXCEPT ![pk[w]] = [row[pk[w]] EXCEPT !.status = obj[w].status]]
      BY <1>1, <1>8, <2>1, <2>3 DEF SaveStatus
    <3>2. [row[pk[w]] EXCEPT !.status = obj[w].status].views = row[pk[w]].views
      BY <1>1, <2>1, <2>3 DEF Row
    <3> QED BY <1>1, <1>2, <2>1, <2>3, <3>1, <3>2
  <2> QED BY <2>2, <2>3
<1>9. ASSUME NEW w \in Workers, SaveEverything(w)
      PROVE  row'[j].views = seen'[j]
  <2>1. /\ pk[w] \in Jobs /\ seen' = seen /\ row' = [row EXCEPT ![pk[w]] = obj[w]]
        /\ stale' = IF Overwrites(w) THEN stale \cup {pk[w]} ELSE stale
    BY <1>9, WriterOK DEF SaveEverything
  <2>2. CASE j # pk[w]
    BY <1>1, <1>2, <2>1, <2>2
  <2>3. CASE j = pk[w]
    <3>1. ~Overwrites(w) /\ stale' = stale
      BY <2>1, <2>3
    <3>2. row[j] \in Row /\ [row[j] EXCEPT !.vector = base[w].vector] = base[w]
      BY <1>1, <1>9, <2>3, <3>1 DEF Overwrites, SaveEverything
    <3>3. row[j].views = base[w].views
      BY <3>2 DEF Row
    <3>4. obj[w].views = base[w].views
      BY <1>9 DEF SaveEverything, IInv, InstanceOK
    <3> QED BY <1>1, <1>2, <2>1, <2>3, <3>1, <3>2, <3>3, <3>4
  <2> QED BY <2>2, <2>3
<1>10. ASSUME NEW w \in Workers, RebuildVector(w)
       PROVE  row'[j].views = seen'[j]
  <2>1. pk[w] \in Jobs /\ stale' = stale /\ seen' = seen
    BY <1>10, WriterOK DEF RebuildVector
  <2>2. CASE row[pk[w]] = None
    BY <1>2, <1>10, <2>1, <2>2 DEF RebuildVector
  <2>3. CASE row[pk[w]] # None
    <3>1. row' = [row EXCEPT ![pk[w]] = [row[pk[w]] EXCEPT !.vector = Vector(w)]]
      BY <1>1, <1>10, <2>1, <2>3 DEF RebuildVector
    <3>2. [row[pk[w]] EXCEPT !.vector = Vector(w)].views = row[pk[w]].views
      BY <1>1, <2>1, <2>3 DEF Row
    <3> QED BY <1>1, <1>2, <2>1, <2>3, <3>1, <3>2
  <2> QED BY <2>2, <2>3
<1> QED
  BY <1>3, <1>4, <1>5, <1>6, <1>7, <1>8, <1>9, <1>10, StepWrites

(* However many workers retrieve a job at once, views_count is the number of
   retrievals, until an edit saves over a change it has not seen. *)
THEOREM ViewsAreExact == Spec => []ViewsCounted
<1>1. Init => ViewsCounted
  BY DEF Init, ViewsCounted
<1>2. IInv /\ ViewsCounted /\ [Next]_vars => ViewsCounted'
  BY ViewsStep
<1> QED BY <1>1, <1>2, Inductive, PTL DEF Spec

--------------------------------------------------------------------------------
(* A save that is not over an unseen change moves the status as its handler checked,
   or, for an edit, leaves it. *)
LEMMA SaverMoves ==
  ASSUME IInv, NEW w \in Workers, SaveStatus(w) \/ SaveEverything(w), ~Overwrites(w),
         row[pk[w]] # None
  PROVE  \/ obj[w].status = row[pk[w]].status
         \/ <<row[pk[w]].status, obj[w].status>> \in
              {<<"draft", "published">>, <<"published", "closed">>}
<1>1. row[pk[w]].status = base[w].status
  BY DEF Overwrites
<1>2. pc[w] = "loaded" /\ kind[w] \in {"edit", "publish", "close"}
  BY DEF SaveStatus, SaveEverything
<1> QED BY <1>1, <1>2 DEF IInv, InstanceOK

LEMMA LifeCycleStep ==
  ASSUME IInv, [Next]_vars, NEW j \in Jobs,
         row[j] # None, row'[j] # None, row'[j].status # row[j].status
  PROVE  \/ <<row[j].status, row'[j].status>> \in
              {<<"draft", "published">>, <<"published", "closed">>}
         \/ \E w \in Workers : /\ pk[w] = j /\ pc[w] = "loaded" /\ pc'[w] = "written"
                               /\ Overwrites(w)
<1> DEFINE Goal == \/ <<row[j].status, row'[j].status>> \in
                        {<<"draft", "published">>, <<"published", "closed">>}
                   \/ \E w \in Workers : /\ pk[w] = j /\ pc[w] = "loaded"
                                         /\ pc'[w] = "written" /\ Overwrites(w)
<1>1. row \in [Jobs -> Row \cup {None}] /\ row[j] \in Row /\ pc \in [Workers -> Answered \cup InFlight]
  BY DEF IInv, TypeOK
<1>2. ~RowsKept
  BY DEF RowsKept
<1>3. CASE CloseExpired
  <2>1. Expired(row[j]) /\ row'[j] = [row[j] EXCEPT !.status = "closed"]
    BY <1>1, <1>3 DEF CloseExpired
  <2>2. row[j].status = "published" /\ row'[j].status = "closed"
    BY <1>1, <2>1 DEF Expired, Row
  <2> QED BY <2>2
<1>4. ASSUME NEW w \in Workers, NEW i \in Jobs, NEW t \in Titles, NEW d \in Deadlines,
             CreateJob(w, i, t, d)
      PROVE  FALSE
  <2>1. row[i] = None
    BY <1>4 DEF CreateJob, IInv, UnbornOK
  <2>2. row'[j] = row[j]
    BY <1>1, <1>4, <2>1 DEF CreateJob
  <2> QED BY <2>2
<1>5. ASSUME NEW w \in Workers, CountView(w) \/ RebuildVector(w)
      PROVE  FALSE
  <2>1. pk[w] \in Jobs
    BY <1>5, WriterOK DEF CountView, RebuildVector
  <2>2. CASE row[pk[w]] = None
    BY <1>5, <2>2 DEF CountView, RebuildVector
  <2>3. CASE row[pk[w]] # None
    <3>1. \/ row' = [row EXCEPT ![pk[w]] = [row[pk[w]] EXCEPT !.views = ViewsAfter(w)]]
          \/ row' = [row EXCEPT ![pk[w]] = [row[pk[w]] EXCEPT !.vector = Vector(w)]]
      BY <1>1, <1>5, <2>1, <2>3 DEF CountView, RebuildVector
    <3>2. /\ [row[pk[w]] EXCEPT !.views = ViewsAfter(w)].status = row[pk[w]].status
          /\ [row[pk[w]] EXCEPT !.vector = Vector(w)].status = row[pk[w]].status
      BY <1>1, <2>1, <2>3 DEF Row
    <3> QED BY <1>1, <2>1, <3>1, <3>2
  <2> QED BY <2>2, <2>3
<1>6. ASSUME NEW w \in Workers, DeleteJob(w)
      PROVE  FALSE
  BY <1>1, <1>6 DEF DeleteJob
<1>7. ASSUME NEW w \in Workers, SaveStatus(w) \/ SaveEverything(w)
      PROVE  Goal
  <2>1. pc[w] = "loaded" /\ pk[w] \in Jobs /\ obj[w] \in Row
    BY <1>7, WriterOK DEF SaveStatus, SaveEverything
  <2>2. pk[w] = j /\ row'[j].status = obj[w].status /\ pc' = [pc EXCEPT ![w] = "written"]
    <3>1. CASE SaveEverything(w)
      BY <1>1, <2>1, <3>1 DEF SaveEverything, Goto
    <3>2. CASE SaveStatus(w)
      <4>1. row[pk[w]] # None
        BY <3>2 DEF SaveStatus
      <4>2. /\ row' = [row EXCEPT ![pk[w]] = [row[pk[w]] EXCEPT !.status = obj[w].status]]
            /\ pc' = [pc EXCEPT ![w] = "written"]
        BY <1>1, <2>1, <3>2, <4>1 DEF SaveStatus, Goto
      <4>3. [row[pk[w]] EXCEPT !.status = obj[w].status].status = obj[w].status
        BY <1>1, <2>1, <4>1 DEF Row
      <4> QED BY <1>1, <2>1, <4>2, <4>3
    <3> QED BY <1>7, <3>1, <3>2
  <2>3. CASE Overwrites(w)
    <3>1. pc'[w] = "written"
      BY <1>1, <2>2
    <3> QED BY <2>1, <2>2, <2>3, <3>1
  <2>4. CASE ~Overwrites(w)
    BY <1>7, <2>2, <2>4, SaverMoves
  <2> QED BY <2>3, <2>4
<1> QED
  BY <1>2, <1>3, <1>4, <1>5, <1>6, <1>7, StepWrites

(* The status of a job moves from draft to published to closed and no other way, except
   in a save over a change its handler had not seen; whatever else interleaves. *)
THEOREM LifeCycleKept == Spec => LifeCycle
<1>1. IInv /\ [Next]_vars =>
        [\A j \in Jobs :
           row[j] # None /\ row'[j] # None /\ row'[j].status # row[j].status
             => \/ <<row[j].status, row'[j].status>> \in
                     {<<"draft", "published">>, <<"published", "closed">>}
                \/ \E w \in Workers : /\ pk[w] = j /\ pc[w] = "loaded" /\ pc'[w] = "written"
                                      /\ Overwrites(w)]_vars
  BY LifeCycleStep
<1> QED BY <1>1, Inductive, PTL DEF Spec, LifeCycle

--------------------------------------------------------------------------------
LEMMA ResurrectedStep ==
  ASSUME IInv, [Next]_vars, NEW j \in born, row[j] = None, row'[j] # None
  PROVE  \E w \in Workers : pk[w] = j /\ kind[w] = "edit" /\ pc[w] = "loaded"
<1>1. row \in [Jobs -> Row \cup {None}] /\ j \in Jobs
  BY DEF IInv, TypeOK
<1>2. ~RowsKept
  BY DEF RowsKept
<1>3. ~CloseExpired
  BY <1>1 DEF CloseExpired
<1>4. ASSUME NEW w \in Workers, NEW i \in Jobs, NEW t \in Titles, NEW d \in Deadlines,
             CreateJob(w, i, t, d)
      PROVE  FALSE
  BY <1>1, <1>4 DEF CreateJob
<1>5. ASSUME NEW w \in Workers, CountView(w) \/ RebuildVector(w) \/ SaveStatus(w)
      PROVE  FALSE
  <2>1. pk[w] \in Jobs
    BY <1>5, WriterOK DEF CountView, RebuildVector, SaveStatus
  <2>2. row[pk[w]] # None
    BY <1>5 DEF CountView, RebuildVector, SaveStatus
  <2>3. \A i \in Jobs \ {pk[w]} : row'[i] = row[i]
    BY <1>1, <1>5, <2>1, <2>2 DEF CountView, RebuildVector, SaveStatus
  <2> QED BY <1>1, <2>2, <2>3
<1>6. ASSUME NEW w \in Workers, DeleteJob(w)
      PROVE  FALSE
  BY <1>1, <1>6 DEF DeleteJob
<1>7. ASSUME NEW w \in Workers, SaveEverything(w)
      PROVE  pk[w] = j /\ kind[w] = "edit" /\ pc[w] = "loaded"
  BY <1>1, <1>7 DEF SaveEverything, SavesEveryColumn
<1> QED
  BY <1>2, <1>3, <1>4, <1>5, <1>6, <1>7, StepWrites

(* Publishing, closing, counting a view, rebuilding the vector and the daily task never
   bring a deleted job back, however late they come. *)
THEOREM OnlyEditsResurrect == Spec => ResurrectedByEdits
<1>1. IInv /\ [Next]_vars =>
        [\A j \in born :
           row[j] = None /\ row'[j] # None
             => \E w \in Workers : pk[w] = j /\ kind[w] = "edit" /\ pc[w] = "loaded"]_vars
  BY ResurrectedStep
<1> QED BY <1>1, Inductive, PTL DEF Spec, ResurrectedByEdits

--------------------------------------------------------------------------------
\* The vector of job j is of its title, or it is known why not.
FreshJob(j) ==
  row[j] # None /\ row[j].vector # row[j].title
    => j \in torn \/ \E w \in Workers : pc[w] = "written" /\ pk[w] = j

(* A step that ends no handler before its rebuild and leaves title and vector of j, or
   j's row gone, keeps the vector of j as it was. *)
LEMMA FreshKept ==
  ASSUME NEW j \in Jobs, FreshJob(j), torn \subseteq torn',
         \A w \in Workers : pc[w] = "written" /\ pk[w] = j => pc'[w] = "written" /\ pk'[w] = j,
         row'[j] # None => /\ row[j] # None
                           /\ row'[j].title = row[j].title
                           /\ row'[j].vector = row[j].vector
  PROVE  FreshJob(j)'
BY DEF FreshJob

LEMMA BeginPending ==
  ASSUME IInv, NEW w \in Workers, NEW k, NEW i, NEW l, NEW o, NEW p, Begin(w, k, i, l, o, p),
         NEW j \in Jobs
  PROVE  \A v \in Workers : pc[v] = "written" /\ pk[v] = j => pc'[v] = "written" /\ pk'[v] = j
BY DEF Begin, Answered, IInv, TypeOK

LEMMA AcceptFresh ==
  ASSUME IInv, NEW w \in Workers, Accept(w), NEW j \in Jobs, FreshJob(j)
  PROVE  FreshJob(j)'
<1>1. ASSUME NEW i \in Jobs, NEW t \in Titles, NEW d \in Deadlines, CreateJob(w, i, t, d)
      PROVE  FreshJob(j)'
  <2>1. torn' = torn /\ row' = [row EXCEPT ![i] = NewJob(t, d)]
    BY <1>1 DEF CreateJob
  <2>2. \A v \in Workers : pc[v] = "written" /\ pk[v] = j => pc'[v] = "written" /\ pk'[v] = j
    BY <1>1, BeginPending DEF CreateJob
  <2>3. CASE i = j
    <3>1. pc'[w] = "written" /\ pk'[w] = j
      BY <1>1, <2>3 DEF CreateJob, Begin, IInv, TypeOK
    <3> QED BY <3>1 DEF FreshJob
  <2>4. CASE i # j
    <3>1. row'[j] = row[j]
      BY <2>1, <2>4 DEF IInv, TypeOK
    <3> QED BY <2>1, <2>2, <3>1, FreshKept
  <2> QED BY <2>3, <2>4
<1>2. CASE ~\E i \in Jobs, t \in Titles, d \in Deadlines : CreateJob(w, i, t, d)
  <2>1. row' = row /\ torn' = torn
    BY <1>2, AcceptWrites DEF RowsKept
  <2>2. \E k, i, l, o, p : Begin(w, k, i, l, o, p)
    BY <1>2 DEF Accept, Retrieve, Publish, Close, SetStatus, FindJob, Dismiss
  <2>3. \A v \in Workers : pc[v] = "written" /\ pk[v] = j => pc'[v] = "written" /\ pk'[v] = j
    BY <2>2, BeginPending
  <2> QED BY <2>1, <2>3, FreshKept
<1> QED BY <1>1, <1>2

LEMMA ProceedFresh ==
  ASSUME IInv, NEW w \in Workers, Proceed(w), NEW j \in Jobs, FreshJob(j)
  PROVE  FreshJob(j)'
<1>1. row \in [Jobs -> Row \cup {None}] /\ pc \in [Workers -> Answered \cup InFlight]
  BY DEF IInv, TypeOK
<1>2. ASSUME pc[w] # "written"
      PROVE  \A p : Goto(w, p) /\ pk' = pk =>
               \A v \in Workers : pc[v] = "written" /\ pk[v] = j => pc'[v] = "written" /\ pk'[v] = j
  BY <1>1, <1>2 DEF Goto
<1>3. CASE CountView(w)
  <2>1. pk[w] \in Jobs /\ Goto(w, "done") /\ pc[w] # "written" /\ torn' = torn /\ pk' = pk
    BY <1>3, WriterOK DEF CountView, local
  <2>2. row'[j] # None => /\ row[j] # None
                          /\ row'[j].title = row[j].title /\ row'[j].vector = row[j].vector
    <3>1. CASE row[pk[w]] = None
      BY <1>3, <3>1 DEF CountView
    <3>2. CASE row[pk[w]] # None
      <4>1. row' = [row EXCEPT ![pk[w]] = [row[pk[w]] EXCEPT !.views = ViewsAfter(w)]]
        BY <1>1, <1>3, <2>1, <3>2 DEF CountView
      <4>2. /\ [row[pk[w]] EXCEPT !.views = ViewsAfter(w)].title = row[pk[w]].title
            /\ [row[pk[w]] EXCEPT !.views = ViewsAfter(w)].vector = row[pk[w]].vector
        BY <1>1, <2>1, <3>2 DEF Row
      <4> QED BY <1>1, <2>1, <3>2, <4>1, <4>2
    <3> QED BY <3>1, <3>2
  <2> QED BY <1>2, <2>1, <2>2, FreshKept
<1>4. CASE LoadAgain(w)
  <2>1. pc[w] # "written" /\ torn' = torn /\ pk' = pk /\ row' = row
    BY <1>4 DEF LoadAgain
  <2>2. Goto(w, "missing") \/ Goto(w, "loaded")
    BY <1>4 DEF LoadAgain
  <2> QED BY <1>2, <2>1, <2>2, FreshKept
<1>5. CASE DeleteJob(w)
  <2>1. pc[w] # "written" /\ torn' = torn /\ pk' = pk /\ Goto(w, "done")
    BY <1>5 DEF DeleteJob, local
  <2>2. row'[j] # None => row'[j] = row[j]
    BY <1>1, <1>5 DEF DeleteJob
  <2> QED BY <1>2, <2>1, <2>2, FreshKept
<1>6. CASE SaveStatus(w)
  <2>1. pk[w] \in Jobs /\ pc[w] # "written" /\ torn' = torn /\ pk' = pk
    BY <1>6, WriterOK DEF SaveStatus, local
  <2>2. Goto(w, "failed") \/ Goto(w, "written")
    BY <1>6 DEF SaveStatus
  <2>3. row'[j] # None => /\ row[j] # None
                          /\ row'[j].title = row[j].title /\ row'[j].vector = row[j].vector
    <3>1. CASE row[pk[w]] = None
      BY <1>6, <3>1 DEF SaveStatus
    <3>2. CASE row[pk[w]] # None
      <4>1. row' = [row EXCEPT ![pk[w]] = [row[pk[w]] EXCEPT !.status = obj[w].status]]
        BY <1>1, <1>6, <2>1, <3>2 DEF SaveStatus
      <4>2. /\ [row[pk[w]] EXCEPT !.status = obj[w].status].title = row[pk[w]].title
            /\ [row[pk[w]] EXCEPT !.status = obj[w].status].vector = row[pk[w]].vector
        BY <1>1, <2>1, <3>2 DEF Row
      <4> QED BY <1>1, <2>1, <3>2, <4>1, <4>2
    <3> QED BY <3>1, <3>2
  <2> QED BY <1>2, <2>1, <2>2, <2>3, FreshKept
<1>7. CASE SaveEverything(w)
  <2>1. /\ pk[w] \in Jobs /\ pc[w] # "written" /\ torn' = torn /\ pk' = pk
        /\ Goto(w, "written") /\ row' = [row EXCEPT ![pk[w]] = obj[w]]
    BY <1>7, WriterOK DEF SaveEverything, local
  <2>2. CASE pk[w] = j
    BY <1>1, <2>1, <2>2 DEF FreshJob, Goto
  <2>3. CASE pk[w] # j
    <3>1. row'[j] = row[j]
      BY <1>1, <2>1, <2>3
    <3> QED BY <1>2, <2>1, <3>1, FreshKept
  <2> QED BY <2>2, <2>3
<1>8. CASE RebuildVector(w)
  <2>1. /\ pk[w] \in Jobs /\ torn' = torn \ {pk[w]} /\ pk' = pk
        /\ pc' = [pc EXCEPT ![w] = "done"]
    BY <1>8, WriterOK DEF RebuildVector, Goto, local
  <2>2. CASE pk[w] = j
    <3>1. CASE row[j] = None
      BY <1>8, <2>2, <3>1 DEF RebuildVector, FreshJob
    <3>2. CASE row[j] # None
      <4>1. row'[j] = [row[j] EXCEPT !.vector = row[j].title]
        BY <1>1, <1>8, <2>2, <3>2 DEF RebuildVector, Vector
      <4>2. row'[j].vector = row'[j].title
        BY <1>1, <3>2, <4>1 DEF Row
      <4> QED BY <4>2 DEF FreshJob
    <3> QED BY <3>1, <3>2
  <2>3. CASE pk[w] # j
    <3>1. row'[j] = row[j]
      BY <1>1, <1>8, <2>1, <2>3 DEF RebuildVector
    <3>2. \A v \in Workers : pc[v] = "written" /\ pk[v] = j => pc'[v] = "written" /\ pk'[v] = j
      BY <1>1, <2>1, <2>3
    <3>3. j \in torn => j \in torn'
      BY <2>1, <2>3
    <3> QED BY <3>1, <3>2, <3>3 DEF FreshJob
  <2> QED BY <2>2, <2>3
<1> QED BY <1>3, <1>4, <1>5, <1>6, <1>7, <1>8 DEF Proceed

LEMMA EnvironmentFresh ==
  ASSUME IInv, Midnight \/ CloseExpired \/ (\E w \in Workers : Crash(w)) \/ UNCHANGED vars,
         NEW j \in Jobs, FreshJob(j)
  PROVE  FreshJob(j)'
<1>1. CASE Midnight \/ UNCHANGED vars
  BY <1>1 DEF Midnight, vars, local, FreshJob
<1>2. CASE CloseExpired
  <2>1. row'[j] = row[j] \/ (row[j] # None /\ row'[j] = [row[j] EXCEPT !.status = "closed"])
    BY <1>2 DEF CloseExpired
  <2>2. ASSUME row[j] # None
        PROVE  /\ [row[j] EXCEPT !.status = "closed"].title = row[j].title
               /\ [row[j] EXCEPT !.status = "closed"].vector = row[j].vector
    BY <2>2 DEF IInv, TypeOK, Row
  <2>3. pc' = pc /\ pk' = pk /\ torn' = torn
    BY <1>2 DEF CloseExpired, local
  <2> QED BY <2>1, <2>2, <2>3, FreshKept
<1>3. ASSUME NEW w \in Workers, Crash(w)
      PROVE  FreshJob(j)'
  <2>1. /\ row' = row /\ pk' = pk /\ pc' = [pc EXCEPT ![w] = "idle"]
        /\ torn' = IF pc[w] = "written" THEN torn \cup {pk[w]} ELSE torn
    BY <1>3 DEF Crash, Goto, local
  <2> QED BY <2>1 DEF FreshJob, IInv, TypeOK
<1> QED BY <1>1, <1>2, <1>3

LEMMA VectorStep ==
  ASSUME IInv, VectorFresh, [Next]_vars
  PROVE  VectorFresh'
<1>1. SUFFICES ASSUME NEW j \in Jobs PROVE FreshJob(j)'
  BY DEF VectorFresh, FreshJob
<1>2. FreshJob(j)
  BY DEF VectorFresh, FreshJob
<1> QED
  BY <1>2, AcceptFresh, ProceedFresh, EnvironmentFresh DEF Next

(* The search vector is of the current title in every state in which no handler is
   between its save and its rebuild, and none was killed there. *)
THEOREM SearchFindsTitle == Spec => []VectorFresh
<1>1. Init => VectorFresh
  BY DEF Init, VectorFresh
<1>2. IInv /\ VectorFresh /\ [Next]_vars => VectorFresh'
  BY VectorStep
<1> QED BY <1>1, <1>2, Inductive, PTL DEF Spec

--------------------------------------------------------------------------------
(* Every way in which an edit, a publish or a close goes wrong is a change between the
   load and the save.  A lock on the row from the one to the other would rule it out:
   no other handler that has loaded the job saves or counts meanwhile (retrievals may
   overlap one another), and the daily task waits. *)
Exclusive ==
  \A v, w \in Workers :
    v # w /\ pc[v] = "loaded" /\ pc[w] = "loaded" /\ pk[v] = pk[w]
      => kind[v] = "retrieve" /\ kind[w] = "retrieve"

TaskWaits ==
  [][CloseExpired =>
       \A w \in Workers : pc[w] = "loaded" /\ kind[w] # "retrieve" /\ row[pk[w]] # None
                            => ~Expired(row[pk[w]])]_vars

\* What a handler has loaded to save is still what the table has, but for the vector.
UpToDate(w) ==
  pc[w] = "loaded" /\ kind[w] # "retrieve" =>
    /\ row[pk[w]] # None
    /\ [row[pk[w]] EXCEPT !.vector = base[w].vector] = base[w]

ExclusiveInv == stale = {} /\ \A w \in Workers : UpToDate(w)

LEMMA UpToDateSaves ==
  ASSUME IInv, NEW w \in Workers, UpToDate(w), pc[w] = "loaded", kind[w] # "retrieve"
  PROVE  ~Overwrites(w)
<1>1. row[pk[w]] \in Row /\ base[w] \in Row /\ [row[pk[w]] EXCEPT !.vector = base[w].vector] = base[w]
  BY WriterOK DEF UpToDate, IInv, TypeOK
<1>2. row[pk[w]].status = base[w].status
  BY <1>1 DEF Row
<1> QED BY <1>1, <1>2 DEF UpToDate, Overwrites

\* A worker that has nothing new in hand, over a row that only its vector changed of.
LEMMA UpToDateKept ==
  ASSUME IInv, NEW w \in Workers, UpToDate(w),
         pc'[w] = pc[w] \/ pc'[w] # "loaded",
         pc[w] = "loaded" =>
           /\ kind'[w] = kind[w] /\ pk'[w] = pk[w] /\ base'[w] = base[w]
           /\ kind[w] # "retrieve" =>
                \/ row'[pk[w]] = row[pk[w]]
                \/ \E x \in Titles \cup {None} : row'[pk[w]] = [row[pk[w]] EXCEPT !.vector = x]
  PROVE  UpToDate(w)'
<1> SUFFICES ASSUME pc'[w] = "loaded", kind'[w] # "retrieve"
             PROVE  row'[pk'[w]] # None /\ [row'[pk'[w]] EXCEPT !.vector = base'[w].vector] = base'[w]
  BY DEF UpToDate
<1>1. /\ pc[w] = "loaded" /\ kind[w] # "retrieve" /\ pk'[w] = pk[w] /\ base'[w] = base[w]
      /\ row[pk[w]] \in Row
      /\ [row[pk[w]] EXCEPT !.vector = base[w].vector] = base[w]
  BY WriterOK DEF UpToDate, IInv, TypeOK
<1>2. CASE row'[pk[w]] = row[pk[w]]
  BY <1>1, <1>2, ListingsAssumption
<1>3. ASSUME NEW x \in Titles \cup {None}, row'[pk[w]] = [row[pk[w]] EXCEPT !.vector = x]
      PROVE  row'[pk'[w]] # None /\ [row'[pk'[w]] EXCEPT !.vector = base'[w].vector] = base'[w]
  <2>1. [row[pk[w]] EXCEPT !.vector = x] \in Row
    BY <1>1 DEF Row
  <2>2. [[row[pk[w]] EXCEPT !.vector = x] EXCEPT !.vector = base[w].vector]
          = [row[pk[w]] EXCEPT !.vector = base[w].vector]
    BY <1>1 DEF Row
  <2> QED BY <1>1, <1>3, <2>1, <2>2, ListingsAssumption
<1> QED BY <1>1, <1>2, <1>3

\* A worker that has just loaded.
LEMMA UpToDateLoaded ==
  ASSUME IInv, NEW w \in Workers, pk'[w] \in Jobs, row' = row,
         row[pk'[w]] # None, base'[w] = row[pk'[w]]
  PROVE  UpToDate(w)'
<1>1. row[pk'[w]] \in Row
  BY DEF IInv, TypeOK
<1>2. [row[pk'[w]] EXCEPT !.vector = row[pk'[w]].vector] = row[pk'[w]]
  BY <1>1 DEF Row
<1> QED BY <1>2 DEF UpToDate

\* A request that begins has just loaded, or has nothing in hand; the others go on.
LEMMA UpToDateBegins ==
  ASSUME IInv, NEW v \in Workers, NEW w \in Workers, UpToDate(w),
         NEW k, NEW j \in born, NEW l, NEW o, NEW p, Begin(v, k, j, l, o, p),
         row' = row, p = "loaded" => row[j] # None /\ l = row[j]
  PROVE  UpToDate(w)'
<1>1. j \in Jobs /\ pc \in [Workers -> Answered \cup InFlight] /\ kind \in [Workers -> Kinds]
      /\ pk \in [Workers -> Jobs \cup {None}] /\ base \in [Workers -> Row \cup {None}]
  BY DEF IInv, TypeOK
<1>2. CASE v = w /\ p = "loaded"
  <2>1. pk'[w] = j /\ base'[w] = row[j]
    BY <1>1, <1>2 DEF Begin
  <2> QED BY <1>1, <1>2, <2>1, UpToDateLoaded
<1>3. CASE v = w /\ p # "loaded"
  <2>1. pc'[w] # "loaded"
    BY <1>1, <1>3 DEF Begin
  <2> QED BY <2>1 DEF UpToDate
<1>4. CASE v # w
  <2>1. pc'[w] = pc[w] /\ kind'[w] = kind[w] /\ pk'[w] = pk[w] /\ base'[w] = base[w]
    BY <1>1, <1>4 DEF Begin
  <2> QED BY <2>1, UpToDateKept
<1> QED BY <1>2, <1>3, <1>4

LEMMA ExclusiveStep ==
  ASSUME IInv, ExclusiveInv, Exclusive, [Next]_vars,
         CloseExpired =>
           \A w \in Workers : pc[w] = "loaded" /\ kind[w] # "retrieve" /\ row[pk[w]] # None
                                => ~Expired(row[pk[w]])
  PROVE  ExclusiveInv'
<1>1. /\ row \in [Jobs -> Row \cup {None}] /\ pc \in [Workers -> Answered \cup InFlight]
      /\ pk \in [Workers -> Jobs \cup {None}] /\ base \in [Workers -> Row \cup {None}]
      /\ born \subseteq Jobs
  BY DEF IInv, TypeOK
<1>2. stale' = {}
  <2>1. ASSUME NEW w \in Workers, SaveEverything(w)
        PROVE  stale' = stale
    BY <2>1, UpToDateSaves DEF SaveEverything, ExclusiveInv
  <2>2. stale' = stale
    BY <2>1, StepWrites DEF RowsKept, CloseExpired, CreateJob, CountView, DeleteJob,
                            SaveStatus, RebuildVector
  <2> QED BY <2>2 DEF ExclusiveInv
<1>3. SUFFICES ASSUME NEW w \in Workers PROVE UpToDate(w)'
  BY <1>2 DEF ExclusiveInv
<1>4. UpToDate(w) /\ (pc[w] = "loaded" => pk[w] \in born /\ pk[w] \in Jobs)
  BY WriterOK DEF ExclusiveInv
<1>5. CASE UNCHANGED vars \/ Midnight
  BY <1>4, <1>5, UpToDateKept DEF vars, Midnight, local
<1>6. CASE CloseExpired
  <2>1. pc[w] = "loaded" /\ kind[w] # "retrieve" => row'[pk[w]] = row[pk[w]]
    BY <1>4, <1>6 DEF CloseExpired, UpToDate
  <2> QED BY <1>4, <1>6, <2>1, UpToDateKept DEF CloseExpired, local
<1>7. ASSUME NEW v \in Workers, Crash(v)
      PROVE  UpToDate(w)'
  <2>1. pc' = [pc EXCEPT ![v] = "idle"] /\ UNCHANGED <<row, kind, pk, base>>
    BY <1>7 DEF Crash, Goto, local
  <2> QED BY <1>1, <1>4, <2>1, UpToDateKept
<1>8. ASSUME NEW v \in Workers, Accept(v)
      PROVE  UpToDate(w)'
  <2>1. ASSUME NEW j \in Jobs, NEW t \in Titles, NEW d \in Deadlines, CreateJob(v, j, t, d)
        PROVE  UpToDate(w)'
    <3>1. /\ j \notin born /\ row' = [row EXCEPT ![j] = NewJob(t, d)]
          /\ pc' = [pc EXCEPT ![v] = "written"] /\ pc[v] \in Answered
          /\ \A u \in Workers : u # v => kind'[u] = kind[u] /\ pk'[u] = pk[u] /\ base'[u] = base[u]
      BY <2>1 DEF CreateJob, Begin, IInv, TypeOK
    <3> HIDE DEF NewJob
    <3>2. pc[w] = "loaded" => w # v /\ row'[pk[w]] = row[pk[w]]
      BY <1>1, <1>4, <3>1 DEF Answered
    <3> QED BY <1>1, <1>4, <3>1, <3>2, UpToDateKept
  <2>2. ASSUME NEW j \in Jobs, Retrieve(v, j)
        PROVE  UpToDate(w)'
    <3>1. j \in born /\ row' = row
      BY <2>2 DEF Retrieve
    <3>2. Dismiss(v, "retrieve", j, "missing")
            \/ (row[j] # None /\ Begin(v, "retrieve", j, row[j], row[j], "loaded"))
      BY <2>2 DEF Retrieve
    <3> QED BY <1>4, <3>1, <3>2, UpToDateBegins DEF Dismiss
  <2>3. ASSUME NEW j \in Jobs, NEW k, NEW may, NEW s, SetStatus(v, j, k, may, s)
        PROVE  UpToDate(w)'
    <3> DEFINE o == [row[j] EXCEPT !.status = s]
    <3>1. j \in born /\ row' = row
      BY <2>3 DEF SetStatus
    <3>2. \/ Dismiss(v, k, j, "missing") \/ Dismiss(v, k, j, "refused")
          \/ (row[j] # None /\ Begin(v, k, j, row[j], o, "loaded"))
      BY <2>3 DEF SetStatus
    <3> HIDE DEF o
    <3> QED BY <1>4, <3>1, <3>2, UpToDateBegins DEF Dismiss
  <2>4. ASSUME NEW j \in Jobs, NEW k \in {"edit", "delete"}, FindJob(v, j, k)
        PROVE  UpToDate(w)'
    <3>1. j \in born /\ row' = row /\ (Dismiss(v, k, j, "missing") \/ Dismiss(v, k, j, "found"))
      BY <2>4 DEF FindJob
    <3> QED BY <1>4, <3>1, UpToDateBegins DEF Dismiss
  <2> QED BY <1>8, <2>1, <2>2, <2>3, <2>4 DEF Accept, Publish, Close
<1>9. ASSUME NEW v \in Workers, LoadAgain(v)
      PROVE  UpToDate(w)'
  <2>1. pc[v] = "found" /\ pk[v] \in Jobs /\ UNCHANGED <<row, kind, pk>>
    BY <1>9 DEF LoadAgain, IInv, InstanceOK, InFlight, TypeOK
  <2>2. CASE row[pk[v]] = None
    BY <1>1, <1>4, <1>9, <2>1, <2>2, UpToDateKept DEF LoadAgain, Goto
  <2>3. CASE row[pk[v]] # None
    <3>1. base' = [base EXCEPT ![v] = row[pk[v]]] /\ pc' = [pc EXCEPT ![v] = "loaded"]
      BY <1>9, <2>3 DEF LoadAgain, Goto
    <3>2. CASE w = v
      BY <1>1, <2>1, <2>3, <3>1, <3>2, UpToDateLoaded
    <3>3. CASE w # v
      BY <1>1, <1>4, <2>1, <3>1, <3>3, UpToDateKept
    <3> QED BY <3>2, <3>3
  <2> QED BY <2>2, <2>3
\* The statements that write a row: no other handler has it in hand to save.
<1>10. ASSUME NEW v \in Workers,
              CountView(v) \/ DeleteJob(v) \/ SaveStatus(v) \/ SaveEverything(v)
       PROVE  UpToDate(w)'
  <2>1. /\ pc[v] = "loaded" /\ pk[v] \in Jobs /\ UNCHANGED <<kind, pk, base>>
        /\ \E p \in {"done", "failed", "written"} : pc' = [pc EXCEPT ![v] = p]
        /\ \A j \in Jobs \ {pk[v]} : row'[j] = row[j]
    BY <1>1, <1>10, WriterOK
    DEF CountView, DeleteJob, SaveStatus, SaveEverything, Goto, local
  <2>2. pc'[v] # "loaded" /\ (w # v => pc'[w] = pc[w])
    BY <1>1, <2>1
  <2>3. pc[w] = "loaded" /\ kind[w] # "retrieve" /\ w # v => pk[w] # pk[v]
    BY <2>1 DEF Exclusive
  <2>4. CASE w = v
    BY <2>2, <2>4 DEF UpToDate
  <2>5. CASE w # v
    <3>1. pc'[w] = pc[w] /\ kind'[w] = kind[w] /\ pk'[w] = pk[w] /\ base'[w] = base[w]
      BY <2>1, <2>2, <2>5
    <3>2. pc[w] = "loaded" /\ kind[w] # "retrieve" => row'[pk[w]] = row[pk[w]]
      BY <1>4, <2>1, <2>3, <2>5
    <3> QED BY <1>4, <3>1, <3>2, UpToDateKept
  <2> QED BY <2>4, <2>5
<1>11. ASSUME NEW v \in Workers, RebuildVector(v)
       PROVE  UpToDate(w)'
  <2>1. /\ pc[v] = "written" /\ pk[v] \in Jobs /\ UNCHANGED <<kind, pk, base>>
        /\ pc' = [pc EXCEPT ![v] = "done"]
    BY <1>11, WriterOK DEF RebuildVector, Goto, local
  <2>2. row' = row \/ (row[pk[v]] \in Row /\ row' = [row EXCEPT ![pk[v]] =
                                              [row[pk[v]] EXCEPT !.vector = row[pk[v]].title]])
    BY <1>1, <1>11, <2>1 DEF RebuildVector, Vector
  <2>3. row' = row \/ row[pk[v]].title \in Titles
    BY <2>2 DEF Row
  <2>4. pc[w] = "loaded" => \/ row'[pk[w]] = row[pk[w]]
                            \/ \E x \in Titles \cup {None} :
                                 row'[pk[w]] = [row[pk[w]] EXCEPT !.vector = x]
    BY <1>1, <1>4, <2>1, <2>2, <2>3
  <2> QED BY <1>1, <1>4, <2>1, <2>4, UpToDateKept
<1> QED
  BY <1>5, <1>6, <1>7, <1>8, <1>9, <1>10, <1>11 DEF Next, Proceed

\* What follows of a step when every save is of an instance that is up to date.
LEMMA ExclusiveMoves ==
  ASSUME IInv, ExclusiveInv, [Next]_vars
  PROVE  /\ \A j \in Jobs :
              row[j] # None /\ row'[j] # None /\ row[j].status # "published"
                /\ row'[j].status = "published" => row[j].status = "draft"
         /\ \A j \in born : row[j] = None => row'[j] = None
<1>1. ASSUME NEW w \in Workers, pc[w] = "loaded", kind[w] # "retrieve"
      PROVE  ~Overwrites(w) /\ row[pk[w]] # None
  BY <1>1, UpToDateSaves DEF ExclusiveInv, UpToDate
<1>2. ASSUME NEW j \in Jobs, row[j] # None, row'[j] # None, row[j].status # "published",
             row'[j].status = "published"
      PROVE  row[j].status = "draft"
  <2>1. \/ <<row[j].status, row'[j].status>> \in
             {<<"draft", "published">>, <<"published", "closed">>}
        \/ \E w \in Workers : pk[w] = j /\ pc[w] = "loaded" /\ pc'[w] = "written" /\ Overwrites(w)
    BY <1>2, LifeCycleStep
  <2>2. ASSUME NEW w \in Workers, pc[w] = "loaded", kind[w] = "retrieve"
        PROVE  pc'[w] # "written"
    <3>1. CASE \E v \in Workers : Accept(v)
      <4>1. PICK v \in Workers : pc[v] \in Answered /\ \E p : pc' = [pc EXCEPT ![v] = p]
        BY <3>1 DEF Accept, CreateJob, Retrieve, Publish, Close, SetStatus, FindJob, Dismiss, Begin
      <4> QED BY <2>2, <4>1 DEF Answered, IInv, TypeOK
    <3>2. ASSUME NEW v \in Workers, Proceed(v) \/ Crash(v)
          PROVE  pc'[w] # "written"
      <4>1. \E p : pc' = [pc EXCEPT ![v] = p] /\ (v = w => p \in {"done", "idle"})
        BY <2>2, <3>2 DEF Proceed, Crash, CountView, LoadAgain, DeleteJob, SaveStatus,
                          SaveEverything, SavesEveryColumn, RebuildVector, Goto
      <4> QED BY <2>2, <4>1 DEF IInv, TypeOK
    <3>3. CASE Midnight \/ CloseExpired \/ UNCHANGED vars
      BY <2>2, <3>3 DEF Midnight, CloseExpired, vars
    <3> QED BY <3>1, <3>2, <3>3 DEF Next
  <2> QED BY <1>1, <1>2, <2>1, <2>2
<1>3. ASSUME NEW j \in born, row[j] = None
      PROVE  row'[j] = None
  BY <1>1, <1>3, ResurrectedStep
<1> QED BY <1>2, <1>3

(* With a lock on the row from load to save, and nothing else changed, only drafts are
   published, a deleted job stays deleted and every view is counted, for any number of
   workers.  Without one all three are false: the run "reopened" shows the first. *)
THEOREM LocksSuffice ==
  Spec /\ []Exclusive /\ TaskWaits =>
    /\ PublishedFromDraft
    /\ [][\A j \in born : row[j] = None => row'[j] = None]_vars
    /\ [](\A j \in Jobs : row[j] # None => row[j].views = seen[j])
<1> DEFINE Waits == CloseExpired =>
                      \A w \in Workers : pc[w] = "loaded" /\ kind[w] # "retrieve"
                                           /\ row[pk[w]] # None => ~Expired(row[pk[w]])
           FromDraft == \A j \in Jobs :
                          row[j] # None /\ row'[j] # None /\ row[j].status # "published"
                            /\ row'[j].status = "published" => row[j].status = "draft"
           StaysDeleted == \A j \in born : row[j] = None => row'[j] = None
           AllViews == \A j \in Jobs : row[j] # None => row[j].views = seen[j]
<1>1. Init => ExclusiveInv
  BY DEF Init, ExclusiveInv, UpToDate
<1>2. IInv /\ ExclusiveInv /\ Exclusive /\ [Next]_vars /\ [Waits]_vars => ExclusiveInv'
  <2> SUFFICES ASSUME IInv, ExclusiveInv, Exclusive, [Next]_vars, [Waits]_vars
               PROVE  ExclusiveInv'
    OBVIOUS
  <2>1. CASE Waits
    BY <2>1, ExclusiveStep
  <2>2. CASE UNCHANGED vars
    BY <2>2 DEF vars, ExclusiveInv, UpToDate
  <2> QED BY <2>1, <2>2
<1>3. IInv /\ ExclusiveInv /\ [Next]_vars => [FromDraft]_vars /\ [StaysDeleted]_vars
  BY ExclusiveMoves
<1>4. ExclusiveInv /\ ViewsCounted => AllViews
  BY DEF ExclusiveInv, ViewsCounted
<1> HIDE DEF FromDraft, StaysDeleted, AllViews, Waits
<1>5. TaskWaits => [][Waits]_vars
  BY PTL DEF TaskWaits, Waits
<1>6. Spec /\ []Exclusive /\ TaskWaits
        => [][FromDraft]_vars /\ [][StaysDeleted]_vars /\ []AllViews
  BY <1>1, <1>2, <1>3, <1>4, <1>5, Inductive, ViewsAreExact, PTL DEF Spec
<1> QED
  BY <1>6 DEF FromDraft, StaysDeleted, AllViews, PublishedFromDraft
================================================================================
