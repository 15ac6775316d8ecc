------------------------------- MODULE JobListings -------------------------------
(***************************************************************************)
(* The jobs API and the daily task that closes expired jobs, over the      *)
(* table of jobs.  As in Applications each query of a handler is a step:   *)
(* publish and close save the status alone, PUT and PATCH save every       *)
(* column of the copy they loaded, and a post_save signal rebuilds the     *)
(* search vector in a statement of its own.                                *)
(***************************************************************************)
EXTENDS Naturals

CONSTANTS
  Workers,      \* gunicorn worker processes
  Jobs,         \* primary keys of jobs, each with its own slug
  Titles,       \* what the search vector is built from
  None,         \* no row, no instance, no deadline, no vector
  LastDay,      \* bound: days are 0..LastDay
  MaxRequests   \* bound: requests accepted in one behaviour

JobStatus == {"draft", "published", "closed"}
Deadlines == 0..LastDay \cup {None}

Row == [status : JobStatus, title : Titles, deadline : Deadlines, views : Nat,
        vector : Titles \cup {None}]

ASSUME ListingsAssumption ==
  /\ LastDay \in Nat
  /\ MaxRequests \in Nat
  /\ None \notin Row /\ None \notin Titles /\ None \notin Jobs /\ None \notin Nat

VARIABLES
  today,      \* the date
  row,        \* row[j]: the committed row of job j, or None
  born,       \* the jobs that have been created
  pc,         \* pc[w]: how far worker w is with its request, or how it answered
  kind,       \* kind[w]: the handler
  pk,         \* pk[w]: the job it is about
  obj,        \* obj[w]: the model instance in the worker's memory
  base,       \* history: obj[w] as it was loaded
  seen,       \* history: seen[j]: how often j has been retrieved
  stale,      \* history: jobs saved over a change their writer had not seen
  torn,       \* history: jobs whose writer was killed before it rebuilt the vector
  accepted    \* requests accepted so far

local == <<kind, pk, obj, base>>
vars == <<today, row, born, pc, kind, pk, obj, base, seen, stale, torn, accepted>>

\* How a request ends: 2xx, 400, 404, 500.
Answered == {"idle", "done", "refused", "missing", "failed"}
InFlight == {"found", "loaded", "written"}
Kinds == {"none", "create", "retrieve", "edit", "delete", "publish", "close"}

Init ==
  /\ today = 0
  /\ row = [j \in Jobs |-> None]
  /\ born = {}
  /\ pc = [w \in Workers |-> "idle"]
  /\ kind = [w \in Workers |-> "none"]
  /\ pk = [w \in Workers |-> None]
  /\ obj = [w \in Workers |-> None]
  /\ base = [w \in Workers |-> None]
  /\ seen = [j \in Jobs |-> 0]
  /\ stale = {}
  /\ torn = {}
  /\ accepted = 0

--------------------------------------------------------------------------------
\* A free worker takes a request of kind k about j, loads l, makes it o, gets as far as p.
Begin(w, k, j, l, o, p) ==
  /\ pc[w] \in Answered
  /\ accepted < MaxRequests
  /\ accepted' = accepted + 1
  /\ kind' = [kind EXCEPT ![w] = k]
  /\ pk' = [pk EXCEPT ![w] = j]
  /\ obj' = [obj EXCEPT ![w] = o]
  /\ base' = [base EXCEPT ![w] = l]
  /\ pc' = [pc EXCEPT ![w] = p]

Dismiss(w, k, j, p) == Begin(w, k, j, None, None, p)

Goto(w, p) == pc' = [pc EXCEPT ![w] = p]

\* Mutant: a counter without a default.
NewJobUncounted(t, d) ==
  [status |-> "draft", title |-> t, deadline |-> d, views |-> None, vector |-> None]

NewJob(t, d) ==
  [status |-> "draft", title |-> t, deadline |-> d, views |-> 0, vector |-> None]

(* POST /api/jobs/: the INSERT; the vector follows. *)
CreateJob(w, j, t, d) ==
  /\ j \notin born
  /\ Begin(w, "create", j, None, NewJob(t, d), "written")
  /\ row' = [row EXCEPT ![j] = NewJob(t, d)]
  /\ born' = born \cup {j}
  /\ UNCHANGED <<today, seen, stale, torn>>

(* GET /api/jobs/{slug}/: load, then count the view. *)
Retrieve(w, j) ==
  /\ j \in born
  /\ IF row[j] = None
     THEN Dismiss(w, "retrieve", j, "missing")
     ELSE Begin(w, "retrieve", j, row[j], row[j], "loaded")
  /\ UNCHANGED <<today, row, born, seen, stale, torn>>

\* Mutant: the counter of the instance in memory is incremented and written.
ViewsAfterCopy(w) == obj[w].views + 1

\* F("views_count") + 1 is evaluated in the database.
ViewsAfter(w) == row[pk[w]].views + 1

CountView(w) ==
  /\ pc[w] = "loaded"
  /\ kind[w] = "retrieve"
  /\ IF row[pk[w]] = None
     THEN UNCHANGED <<row, seen>>
     ELSE /\ row' = [row EXCEPT ![pk[w]].views = ViewsAfter(w)]
          /\ seen' = [seen EXCEPT ![pk[w]] = @ + 1]
  /\ Goto(w, "done")
  /\ UNCHANGED <<today, born, local, stale, torn, accepted>>

\* Mutant: a closed job may be published again.
MayPublishAgain(r) == r.status # "published"

MayPublish(r) == r.status = "draft"

MayClose(r) == r.status = "published"

(* POST /api/jobs/{slug}/publish/ and /close/: load, check, set. *)
SetStatus(w, j, k, may, s) ==
  /\ j \in born
  /\ IF row[j] = None THEN Dismiss(w, k, j, "missing")
     ELSE IF ~may THEN Dismiss(w, k, j, "refused")
     ELSE Begin(w, k, j, row[j], [row[j] EXCEPT !.status = s], "loaded")
  /\ UNCHANGED <<today, row, born, seen, stale, torn>>

Publish(w, j) == SetStatus(w, j, "publish", MayPublish(row[j]), "published")
Close(w, j) == SetStatus(w, j, "close", MayClose(row[j]), "closed")

(* PUT, PATCH and DELETE /api/jobs/{slug}/ load the job to check the membership, and
   the generic handler loads it again. *)
FindJob(w, j, k) ==
  /\ j \in born
  /\ Dismiss(w, k, j, IF row[j] = None THEN "missing" ELSE "found")
  /\ UNCHANGED <<today, row, born, seen, stale, torn>>

LoadAgain(w) ==
  /\ pc[w] = "found"
  /\ LET r == row[pk[w]] IN
       IF r = None
       THEN Goto(w, "missing") /\ UNCHANGED <<obj, base>>
       ELSE /\ \E t \in Titles, d \in Deadlines :
                 obj' = [obj EXCEPT ![w] = IF kind[w] = "edit"
                                           THEN [r EXCEPT !.title = t, !.deadline = d]
                                           ELSE r]
            /\ base' = [base EXCEPT ![w] = r]
            /\ Goto(w, "loaded")
  /\ UNCHANGED <<today, row, born, kind, pk, seen, stale, torn, accepted>>

DeleteJob(w) ==
  /\ pc[w] = "loaded"
  /\ kind[w] = "delete"
  /\ row' = [row EXCEPT ![pk[w]] = None]
  /\ Goto(w, "done")
  /\ UNCHANGED <<today, born, local, seen, stale, torn, accepted>>

\* Mutant: publish and close call save() without update_fields.
EverySaveIsFull(w) == TRUE

SavesEveryColumn(w) == kind[w] = "edit"

\* A column that w is about to write has changed since w loaded it.
Overwrites(w) ==
  LET r == row[pk[w]] IN
    \/ r = None
    \/ r.status # base[w].status
    \/ SavesEveryColumn(w) /\ [r EXCEPT !.vector = base[w].vector] # base[w]

(* save(update_fields=["status", "updated_at"]) raises when the row is gone. *)
SaveStatus(w) ==
  /\ pc[w] = "loaded"
  /\ kind[w] \in {"publish", "close"}
  /\ ~SavesEveryColumn(w)
  /\ IF row[pk[w]] = None
     THEN Goto(w, "failed") /\ UNCHANGED row
     ELSE Goto(w, "written") /\ row' = [row EXCEPT ![pk[w]].status = obj[w].status]
  /\ UNCHANGED <<today, born, local, seen, stale, torn, accepted>>

(* serializer.save(): every column, the vector too; a row that is gone is inserted. *)
SaveEverything(w) ==
  /\ pc[w] = "loaded"
  /\ kind[w] \in {"edit", "publish", "close"}
  /\ SavesEveryColumn(w)
  /\ row' = [row EXCEPT ![pk[w]] = obj[w]]
  /\ stale' = IF Overwrites(w) THEN stale \cup {pk[w]} ELSE stale
  /\ Goto(w, "written")
  /\ UNCHANGED <<today, born, local, seen, torn, accepted>>

\* Mutant: the vector of the instance that was saved.
VectorOfCopy(w) == obj[w].title

\* SearchVector("title") is evaluated in the database.
Vector(w) == row[pk[w]].title

(* update_search_vector, after every save. *)
RebuildVector(w) ==
  /\ pc[w] = "written"
  /\ IF row[pk[w]] = None
     THEN UNCHANGED row
     ELSE row' = [row EXCEPT ![pk[w]].vector = Vector(w)]
  /\ torn' = torn \ {pk[w]}
  /\ Goto(w, "done")
  /\ UNCHANGED <<today, born, local, seen, stale, accepted>>

--------------------------------------------------------------------------------
Midnight ==
  /\ today < LastDay
  /\ today' = today + 1
  /\ UNCHANGED <<row, born, pc, local, seen, stale, torn, accepted>>

\* Mutant: one day of grace.
ExpiredLate(r) == r.status = "published" /\ r.deadline # None /\ r.deadline + 1 < today

Expired(r) == r.status = "published" /\ r.deadline # None /\ r.deadline < today

(* close_expired_jobs: one UPDATE. *)
CloseExpired ==
  /\ row' = [j \in Jobs |-> IF row[j] # None /\ Expired(row[j])
                            THEN [row[j] EXCEPT !.status = "closed"] ELSE row[j]]
  /\ UNCHANGED <<today, born, pc, local, seen, stale, torn, accepted>>

(* gunicorn kills the worker. *)
Crash(w) ==
  /\ pc[w] \in InFlight
  /\ torn' = IF pc[w] = "written" THEN torn \cup {pk[w]} ELSE torn
  /\ Goto(w, "idle")
  /\ UNCHANGED <<today, row, born, local, seen, stale, accepted>>

Accept(w) ==
  \/ \E j \in Jobs, t \in Titles, d \in Deadlines : CreateJob(w, j, t, d)
  \/ \E j \in Jobs : Retrieve(w, j) \/ Publish(w, j) \/ Close(w, j)
  \/ \E j \in Jobs, k \in {"edit", "delete"} : FindJob(w, j, k)

Proceed(w) ==
  \/ CountView(w)
  \/ LoadAgain(w)
  \/ DeleteJob(w)
  \/ SaveStatus(w)
  \/ SaveEverything(w)
  \/ RebuildVector(w)

Next ==
  \/ Midnight
  \/ CloseExpired
  \/ \E w \in Workers : Accept(w) \/ Proceed(w) \/ Crash(w)

Spec == Init /\ [][Next]_vars

\* Celery Beat runs the task every day.
FairSpec == Spec /\ WF_vars(CloseExpired)

--------------------------------------------------------------------------------
TypeOK ==
  /\ today \in 0..LastDay
  /\ row \in [Jobs -> Row \cup {None}]
  /\ born \subseteq Jobs
  /\ pc \in [Workers -> Answered \cup InFlight]
  /\ kind \in [Workers -> Kinds]
  /\ pk \in [Workers -> Jobs \cup {None}]
  /\ obj \in [Workers -> Row \cup {None}]
  /\ base \in [Workers -> Row \cup {None}]
  /\ seen \in [Jobs -> Nat]
  /\ stale \subseteq Jobs
  /\ torn \subseteq Jobs
  /\ accepted \in Nat

(* views_count is exact, however retrievals overlap, until an edit saves the whole row
   over a change it has not seen: only that takes views back. *)
ViewsCounted ==
  \A j \in Jobs \ stale : row[j] # None => row[j].views = seen[j]

(* A search finds a job by the title it has: although edits write back the vector they
   loaded and rebuild it later, the vector is of the current title, unless a handler
   is about to rebuild it or was killed before it did. *)
VectorFresh ==
  \A j \in Jobs :
    row[j] # None /\ row[j].vector # row[j].title
      => j \in torn \/ \E w \in Workers : pc[w] = "written" /\ pk[w] = j

(* The life cycle is draft, published, closed, in this order.  Only a handler that
   writes over a change it has not seen breaks it: never one by itself, and never
   the daily task. *)
LifeCycle ==
  [][\A j \in Jobs :
       row[j] # None /\ row'[j] # None /\ row'[j].status # row[j].status
         => \/ <<row[j].status, row'[j].status>> \in
                 {<<"draft", "published">>, <<"published", "closed">>}
            \/ \E w \in Workers : /\ pk[w] = j /\ pc[w] = "loaded" /\ pc'[w] = "written"
                                  /\ Overwrites(w)]_vars

(* A deleted job is brought back by nothing but the full save of an edit. *)
ResurrectedByEdits ==
  [][\A j \in born :
       row[j] = None /\ row'[j] # None
         => \E w \in Workers : pk[w] = j /\ kind[w] = "edit" /\ pc[w] = "loaded"]_vars

(* A published job past its deadline does not stay published, although an edit that
   loaded it earlier can publish it again after the daily task has closed it. *)
ExpiredJobsClose ==
  \A j \in Jobs :
    row[j] # None /\ row[j].status = "published" /\ row[j].deadline \in 0..(today - 1)
      ~> row[j] = None \/ row[j].status # "published" \/ row[j].deadline \notin 0..(today - 1)

(* Only draft jobs can be published. *)
PublishedFromDraft ==
  [][\A j \in Jobs :
       row[j] # None /\ row'[j] # None /\ row[j].status # "published"
         /\ row'[j].status = "published" => row[j].status = "draft"]_vars
================================================================================
