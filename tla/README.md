# HireFlow in TLA+

A verification project for the HireFlow job board (Django, PostgreSQL, Celery over
Redis): TLA+ modules of the parts whose steps interleave or fail, TLC runs on small
instances, and TLAPS proofs for every instance.

## 1. Inventory

The system is one Django project. `docker-compose.yml` runs it as one gunicorn server
with 3 sync workers (each answers one request at a time and is killed after 120 s), one
Celery worker with 2 processes, Celery Beat, PostgreSQL and Redis. `ATOMIC_REQUESTS` is
not set and almost no handler opens a transaction: every query is a step that other
processes can come between, and every save is committed at once. One Redis is Celery's broker
and the Django cache (`config/env.py:46,51`), in which the default throttles count every
request of the API before its handler runs.

| Component | State it keeps | Operations | Interacts through | Hard part | What makes it correct |
|---|---|---|---|---|---|
| Applications API (`apps/applications`) | rows of `Application` | create, withdraw, status PATCH, the admin pages | `pre_save`/`post_save` signals queue mail tasks; foreign key to jobs | load, check and save in separate statements, the signal between them, a broker that fails, workers that are killed | one application per job and candidate, moves along the state machine, a mail for every status, no row that comes back |
| Celery mail tasks (`apps/notifications/tasks.py`) | queue, retries, mails sent, rows of `Notification` | the two tasks | read application rows, send mail, create rows | early acknowledgement, retries after a mail that did go out, killed processes | bounded mails, one Notification, every task ends |
| Jobs API and the expired-jobs task (`apps/jobs`) | rows of `Job`, `views_count`, search vector | create, PUT/PATCH, delete, publish, close, retrieve, search; daily closing | cascade to applications | full-row saves of stale copies | published only from draft, closed stays closed, views are not lost, the vector follows the title, expired jobs close |
| Company verification and membership (`apps/companies`) | rows of `Company`, `CompanyMember` | create, PATCH, verify domain, resend, submit, approve/reject (admin), invite, remove | membership decides who may act on jobs and applications | the same saves against approvals; tokens with expiry and cooldown | decisions stand, replaced tokens are void, the cooldown holds, one owner, one membership per pair |
| Accounts (`apps/accounts`, the register page) | users, e-mail tokens | register (API and page), verify, change profile, password, avatar | mail in `post_save` | the mail fails after the row is committed; two ways to register; overlapping saves | one account per address, verified by its own mail, no update lost |
| JWT sessions and `api.js` | refresh token rotation, blacklist, browser storage, session cookie | fetch, refresh, log-in, log-out | several tabs and requests at once; the bridge page carries tokens to the browser | two refreshes with one token; a refresh that fails for any reason; session and tokens change in two steps | tokens are lost for a cause only and agree with the session, rotated tokens are refused |
| Notifications API, the notifications page and the bell | `is_read`; the list and the badge of a tab | list, count, mark read, mark all read, poll | the tasks create the rows; calls go through `api.js` | optimistic updates undone over a list that was reloaded | the page claims nothing as read that is not or will not be, the bell catches up |
| Other page scripts (job search, pipeline) | what the page shows | search, move a card | answers of the API | answers out of order | the last search is shown |
| Dashboards, health, permissions, pagination, error format, configuration, request logger, service worker, seed command, deployment | none, or read once at start | – | – | – | – |

The hazards, each at its line and with the properties that cover it or the reason none
does, are the list `hazards` of `PROJECT.json`.

## 2. Plan

1. **Applications and mail (done, sections 3–6).** `ApplicationStates`, `ApplicationWorkflow`
   (abstract), `Applications` (detailed), `NotificationTasks`, and `ApplicationMail`, which
   composes the last two.
2. **JobListings (done).** `Job` rows, the seven handlers that change them, `close_expired_jobs`
   and midnight. Left: an abstract draft–published–closed life cycle that one worker without
   the daily task implements.
3. **Companies (done).** The verification of a company and its members in one module, since
   they share the loads, the deletions and the owner.
4. **Accounts (done).** Registration, the link, changes of one's own account.
5. **ApiClient and Inbox (done).** The client of the API as a module without a page; the
   notifications page, the bell and the Notifications API as the module that extends it.
6. **Left unmodelled of the page scripts:** the job board's search, whose late answers are shown
   as they come, and the pipeline board.
7. **Refinements (proved, section 6).** `Applications` without overlapping saves implements
   `ApplicationWorkflow`; `ApplicationMail` implements `Applications` and `NotificationTasks`,
   so that their theorems carry over. Left: an abstract life cycle for jobs, as in 2.

Runs: twelve. Each component has one passing run with all its questions; `Applications` has
three, because its questions want different instances, and four runs show a disagreement.

## 3. The modules

- `ApplicationStates`: `Application.Status`, `VALID_TRANSITIONS`, `WITHDRAWABLE_STATUSES`.
- `ApplicationWorkflow`: what the API promises, each operation in one step: `Submit`, `Move`
  along an edge, `Remove` (with the job).
- `Applications`: the handlers. A worker `w` has `pc[w]` (how far it is or how it
  answered), `kind[w]`, `pk[w]` and `obj[w]`, the model instance in its memory. The tables
  are `job` and `row`; `issued` are the ids some INSERT has used; `log` is what has been
  handed to the broker; `cascade[w]` are the rows an open transaction of `w` deletes.

  | Code | Actions |
  |---|---|
  | `POST /api/applications/` | `ApplyValidateJob`, `ApplyCheckDuplicate`, `ApplyInsert`, `ApplyPostSave` |
  | `DELETE /api/applications/{id}/` | `Withdraw`, `PreSave`, `Update` |
  | `PATCH /api/applications/{id}/status/` | `PatchStatus`, `PreSave`, `Update` |
  | admin change page, admin delete page | `AdminEdit`, `PreSave`, `AdminSave`; `AdminDelete` |
  | `DELETE /api/jobs/{slug}/` | `DeleteJobCascade`, `DeleteJobCommit` |
  | publish, close, edit, expiry of a job | `JobChanges` |
  | the throttles, before any of these but the admin's | `TurnedAway` |
  | Redis, gunicorn | `BrokerToggles`, `Crash` |

  Django sends `pre_save` before the UPDATE, so `PreSave` re-reads the row and queues the
  mail, and `Update` comes after it; `post_save` of a creation comes after the INSERT is
  committed. `save(update_fields=...)` of a deleted row raises (`failed`); the admin's
  `save()` writes every column and inserts the row again when it is gone. PostgreSQL is what
  the code relies on: statements are atomic, the unique index and the foreign keys hold at
  commit, a writer of a row that an open transaction deletes waits. `broker` is the one Redis
  of the default settings: while it is down `ThrottlesAnswer` lets no API request reach its
  handler (`TurnedAway`: a 500, or a 429 when there were too many), and a request that is past
  its throttles meets the failure in `.delay()`. The other modules leave requests that end there
  out: they change nothing. A PATCH of an application or a job reads the row once more than the
  model, between reads that are modelled and without deciding anything from it.
- `NotificationTasks`: the Celery pool. Tasks are numbered by their place in `log`;
  `state`, `retries`, `mails` and `notices` tell what became of each. `Take` acknowledges
  (Celery's default), `Load` validates and loads, `SendMail` succeeds, or fails before or
  after the mail was accepted, `Retry` republishes, `CreateNotice` writes the row and is not
  retried, `ProcessDies` loses the task. `WebStep` is all it assumes of the rest: tasks are
  added at the end of the log.
- `ApplicationMail`: extends `NotificationTasks` and instantiates `Applications` over the same
  log and broker; `live`, what the tasks can load, is the set of its rows. `shown` is a
  history variable: all statuses rows have had. `StillToWrite` tells a Notification that is
  ahead of a running handler's UPDATE from one whose UPDATE will never come.
- `JobListings`: the jobs API over the table `row`, in the style of `Applications` (`pc`,
  `kind`, `pk`, `obj`), with the date `today`. `base[w]` is the instance as it was loaded,
  `seen` counts the retrievals that were counted, `stale` are the jobs an edit has saved over
  a change it had not seen (`Overwrites`), `torn` those whose writer was killed before it
  rebuilt the vector: four history variables that no action reads.

  | Code | Actions |
  |---|---|
  | `POST /api/jobs/` | `CreateJob`, `RebuildVector` |
  | `GET /api/jobs/{slug}/` | `Retrieve`, `CountView` |
  | `PUT`, `PATCH /api/jobs/{slug}/` | `FindJob`, `LoadAgain`, `SaveEverything`, `RebuildVector` |
  | `DELETE /api/jobs/{slug}/` | `FindJob`, `LoadAgain`, `DeleteJob` |
  | `publish/`, `close/` | `Publish` or `Close`, `SaveStatus`, `RebuildVector` |
  | `close_expired_jobs`, the date | `CloseExpired`, `Midnight` |
  | gunicorn | `Crash` |

  The views of PUT, PATCH and DELETE load the job to check the membership, and the generic
  handler they call loads it again. `publish` and `close` save the status alone; the generic
  handler saves every column, `views_count`, `status` and `search_vector` among them, and
  inserts the row when it is gone. `F("views_count") + 1` and `SearchVector` are evaluated in
  the database, so they read the row and not the instance. The daily task is an UPDATE without
  `save()`: no signal. A title stands for all the text the vector is built from.
- `Companies`: one company (the handlers never relate two) and its membership table, in the
  same style; `copy[w]` is the instance the worker loaded last, `tokens` and `ids` number the
  tokens and memberships as they are made, so that an old one can be told from the last.
  `row` is `None` before the creation and after a deletion; initially there is no company, or
  one that the migration to the two-tier verification has left (`Migrated`: no token, verified
  as it was). `lost` are the columns an edit wrote back from an older copy and `forsaken` that
  the owner's account is gone or a deleted company was inserted again: history no action reads.

  | Code | Actions |
  |---|---|
  | `POST /api/companies/` | `Create` |
  | `verify-domain/`, `resend-domain-verification/`, `submit-verification/` | `Load`, `CheckMembership`, then `VerifyDomain`, `ResendToken` or `Submit` |
  | `PUT`, `PATCH`, `DELETE /api/companies/{slug}/` | `Load`, `CheckMembership`, `LoadAgain`, then `SaveEverything`, or `DeleteCompany` or `DeletionFails` |
  | `POST`, `DELETE .../members/` | `Load`, `CheckMembership`, `ValidateInvitation`, `InsertMember`; `FindMembership`, `DeleteMembership` |
  | admin: approve, reject, delete a user | `Review`, `DeleteUser` |
  | the clock, gunicorn | `Tick`, `Crash` |

- `Accounts`: the table `row` of accounts, the tokens that were `mailed`, and workers as above.
  `obj[w]` is the instance with the change made in memory, `Saved` what `update_fields` writes
  of it; `last`, a history variable, has each column as it was saved last.
  `SendVerificationMail` succeeds, or raises before or after the mail server took the mail. The username stands
  for the columns `PATCH me/` may change, since it is the one with a constraint; the role only
  matters to the registration and is an argument of `Register`.

  | Code | Actions |
  |---|---|
  | `POST /api/auth/register/`, the register page | `Register`, `InsertUser`, `SendVerificationMail`, and `SignIn` for the page |
  | `POST verify-email/` | `VerifyEmail`, `SaveColumn` |
  | `PATCH me/`, `change-password/`, `avatar/` | `ChangeOwn`, `SaveColumn` |
  | admin, the clock, gunicorn | `DeleteUser`, `Tick`, `Crash` |

- `ApiClient`: token pairs are numbered as they are issued; `expired` and `spent` are what the
  server refuses, `mem` and `store` what the tab and `localStorage` hold, `session` whether there is
  a cookie, good or lapsed. A call goes through `phase`: `sent`, `served` or `denied`, `refreshing`,
  `checked`, `renewed` or `norefresh`, `error`. `Denied` spends the refresh token of that
  moment, as `_fetch` does; `CheckRefresh` and `Rotate` are the queries of the token endpoint,
  between which another request can pass. `RefuseRefresh` is every other answer of that endpoint
  that is not ok (a 429 of the throttle, a 500), which `api.js` takes for a refused token.
  Signing in or out is two steps: the server changes the session and answers with a bridge page
  (`Login`, `Logout`, with the pair in `bridge`), whose script writes `localStorage` (`Bridge`),
  or never runs (`BridgeLost`); the old page and its calls go on in between. A session also
  lapses (`SessionLapses`) and leaves its tokens. A tab is one user's: who signs in is the one
  whose notices the page shows. What the server stores and what `localStorage` holds
  is shared with other tabs, whose doings are one action (`OtherTab`). `excused` is a history
  variable: since the last log-in or log-out, something disturbed the tokens (two refreshes at
  once, a refresh token that lapsed or was refused, a lost message or bridge page, a page left in
  a refresh, another tab).
- `Inbox`: extends `ApiClient` with the rows of the Notifications API (`notice`) and what the
  tab shows (`shown`, `badge`). `op` says what a call is about and which notices it would take
  back; `live` whether these are still in the list that is shown, as the page's closures keep
  the objects of an older list. `Send` and `Serve` of `ApiClient` are refined by `Poll`,
  `SetFilter`, `MarkRead`, `MarkAllRead` and `ServeCall`; `Succeed` and `Fail` are the code
  after the `await`.
- `MCApplications`, `MCApplicationMail`, `MCJobListings`, `MCCompanies`, `MCAccounts`,
  `MCInbox`: the modules TLC runs, with the symmetry sets.
- `ApplicationsProofs`, `NotificationTasksProofs`, `JobListingsProofs`, `CompaniesProofs`,
  `AccountsProofs`, `InboxProofs`: the theorems of a component. `WorkflowProofs` extends
  `ApplicationsProofs` with the refinement of the workflow; `ApplicationMailProofs` has the
  composition, with `WorkflowProofs` instantiated for its web side.

Operators whose comment begins with "Mutant:" are plausible bugs, in no specification: each
replaces the definition that follows it to show that a property depends on it.

## 4. Runs

| Run | Instance | Checks | Shows |
|---|---|---|---|
| `race` | 2 workers, 1 candidate, 1 job, 2 ids, 3 requests | `TypeOK`, `StatusAnnounced`, `SuccessMeansQueued`, `NeverResurrected`, `EveryRequestEnds` | whichever way requests overlap, with crashes, broker failures, deletions by staff and a deleted job: a status that shows has been announced, success means queued, deleted stays deleted, nobody waits for ever |
| `admin` | 2 workers, 1 candidate, 2 jobs, 2 ids, 3 requests, the admin change page | `UniqueApplication`, `NoOrphan` | the unique pair and the foreign key survive the gap between check and INSERT, and full saves that move an application to the other job or insert it again |
| `serial` | 1 worker, 2 ids, 2 notes, 5 requests | `ImplementsWorkflow`, `AnnouncedMovesLegal`, `NotesChangeOnRequest` | without overlap the handlers implement the workflow, even when they are killed in the middle |
| `terminal` | 2 workers, 1 id, 3 requests | `TerminalStatus` (violated) | a PATCH overwrites a committed withdrawal or rejection |
| `saved500` | 2 workers, 1 id, 2 requests | `SavedIsNotAnError` (violated) | Redis lost after the throttles and before `.delay()`: the application is saved and the client told 500 |
| `mail` | 1 worker, 1 id, 2 requests, 2 processes, 1 retry | `MailTypeOK`, `MailsBounded`, `NoticeOnceAndAfterMail`, `PayloadsValid`, `EveryTaskEnds`, `PoolIsAComponent` | both sides together: bounded mails, one Notification, every task ends |
| `phantom` | 1 worker, 1 id, 2 requests, no retry | `NoticesAreTrue` (violated) | a worker killed between the signal and the UPDATE: a Notification of a status the application never had |
| `jobs` | 2 workers, 1 job, 2 titles, 2 days, 3 requests | `TypeOK`, `ViewsCounted`, `VectorFresh`, `LifeCycle`, `ResurrectedByEdits`, `ExpiredJobsClose` | nothing but a save over an unseen change takes views back or leaves the life cycle; only an edit brings a deleted job back; the vector follows the title; expired jobs close |
| `reopened` | the same, without fairness | `PublishedFromDraft` (violated) | a late publish reopens a closed job |
| `companies` | 2 workers, 2 users, cooldown and expiry of 1, times 0 to 2, 3 requests after the creation | `TypeOK`, `MembersExact`, `OwnerKept`, `TwoTier`, `DecisionsStand`, `TokensPaced`, `ReplacedTokensVoid` | memberships are exact and owned; the tiers, the decisions, the cooldown and the void tokens give way only to a save over something its handler had not seen, and the properties name which |
| `accounts` | 2 workers, 2 accounts, 2 addresses of which one is free, 2 values, 2 times, 3 requests | `TypeOK`, `OneAccountPerAddress`, `ColumnsKept`, `VerifiedByItsMail`, `AnswersOfRegistrations` | the indexes hold what the queries miss; `update_fields` loses nothing; only an account's own mail verifies it; a 500 of a registration means a taken address or username, its own row, or a deleted one |
| `inbox` | 2 calls, 1 notice, 1 expiry, 1 disturbance | `TypeOK`, `ShownReadIsRead`, `WipedForACause`, `RotatedTokensRefused`, `TokensFollowSession`, `BadgeCatchesUp` | the page is honest, tokens are wiped for a cause and follow the session, the bell catches up |

**Bounds.** Two workers make every pairwise race; the code keeps no state that relates
three requests except through the rows, and the proofs are for any number. Three requests are
an application and two operations on it that overlap, or two applications and an operation;
five, one after the other, go through the whole pipeline. One candidate makes every pair of
applications to a job rivals; two ids allow a second application after a deletion; the second
job, in `admin`, is what an application can be moved to.
`MaxRequests` bounds the counter
`accepted` only; in `ApplicationMail` it is `MaxLog`, as a request hands over one task at most. With two tasks and two processes a retried task runs beside a later one;
`MaxRetries` is 1 instead of the code's 3, so that giving up and retrying both happen.
In `jobs` the handlers never relate two jobs, so one is enough; its creation and two requests
that overlap, with a deadline that passes between any two steps, give every pair of handlers
and the daily task; two titles tell an old vector from a new one; `LastDay` = 1 is one
midnight, before which a job with deadline 0 is not expired. Four requests (5.1 million
states) were run once and hold as well.
In `companies` two requests overlap and a third has prepared, or follows, what they race for;
the owner's and the other user's requests, a review, an expired token or cooldown and a deleted
account come between any two steps. One profile is enough, as an edit is seen by the other
columns it writes back. A token made at 0 is on cooldown at 0, may be replaced or used at 1 and
has expired at 2. In `accounts` two accounts and two values make every
pair of requests rivals for an address, a username or a column, and `MaxAge` = 0 lets a link be
good at one time and expired at the next. In `inbox` the two calls are any two of a poll, a
reload and the two ways to mark; one expiry makes both meet a 401 at once or one after the
other, and `MaxEvents` is one of a sign-out, a lapsed session, a page load, a lost message, a
refused refresh, a lost bridge page and another tab: each of them comes at any point of any two
calls, and with any log-ins, which like calls, bridge pages and polls are not bounded. Two of
them together are too many states for a run of minutes and are left to the proofs, which bound
nothing. A second notice adds nothing to one but the pairs the
calls mark together, and the proofs are for any number.
Deadlock is checked in every run but `companies` and `accounts`, whose requests are bounded:
there the system ends with all of them answered.

**Symmetry.** `admin` and `serial` check safety and action properties, in which workers, jobs
and ids are interchangeable; so do `companies` (workers, users) and `accounts` (workers, accounts,
values; not the addresses, of which one is free). The runs with liveness do not use it.

**Fairness.** `FairSpec`: a worker that is neither killed nor blocked goes on with its
handler (weak fairness of `Proceed`): gunicorn's workers are separate processes that
compose restarts. Clients, crashes, the broker and the state of a job get none.
`MailFairSpec`: a process finishes the task it runs (weak), Redis comes back because
compose restarts it (weak), and a task that is due again and again while Redis is reachable
is taken (strong: Redis may go down each time in between). `JobListings`' `FairSpec`: Beat
runs the daily task (weak fairness of `CloseExpired`), and nothing else. In `Inbox`, a
call that is under way goes on (weak fairness of `Advance`: the server answers, the network
delivers what it does not lose, the event loop runs what is due) and the timer fires whenever
there is a call to spare (strong fairness of `Poll`: `setInterval` does not wait for the page's
own calls, which may take the last one now and then); the user, expiry, losses and
other tabs get none. `Companies` and `Accounts` state safety only. Crashes are always possible and
never fair; nothing assumes that they stop.

## 5. Where the code and its documents disagree

The four violated properties, with the lines, are the `findings` of `PROJECT.json`:
terminal statuses can change under a race (`terminal`), the failure ADR-001 calls
unacceptable is still there when Redis goes away in the middle of a request (`saved500`; a
request that finds it down is turned away before it saves anything, unless the broker is a
server of its own), the mail comes before the change it tells of, so that a killed worker leaves
it false (`phantom`), and a publish that checked the draft reopens a job that was
published and closed meanwhile (`reopened`). Other differences are not behaviours a run
would add to, and are not modelled: the company of a job is writable in
`JobDetailSerializer` where ARCHITECTURE.md calls it read-only, deadlines in the past are
accepted, and `salary_max` is compared with `salary_min` on creation only.

Met while modelling the other parts, and visible in the models without a run of its own:
- ARCHITECTURE.md:590 calls the token of the verification mail "one-time"; `VerifyEmail` can be
  repeated until the link expires, and changes nothing the second time.
- `resend-domain-verification/` answers "New verification token sent." and sends nothing.
- `register_page` has neither the free-mail rule of `RegisterSerializer` nor a query for the
  username: a taken one ends in a 500 (`Valid`, `Taken`).
- `MemberView` loads the company with `objects.get`: one that is gone is a 500 and not a 404
  (`Load`).
- A PATCH that loaded a company before its deletion inserts it again, without members
  (`forsaken`), and one that loaded it before a review, a verification or a resend takes that
  back (`lost`).
- `api.js` wipes the tokens on any failure of a refresh: the 101st anonymous request of an hour
  from one address, or a moment without Redis, logs a tab out (`RefuseRefresh`).
- A tab whose tokens were wiped keeps its session, and `login_page` redirects whoever has one:
  only a log-out, or the end of the session, leads back to tokens (`MaySignIn`).
- `logout_view` blacklists no refresh token, and a refresh in flight in another tab can put
  tokens back after it.

## 6. Proofs

All are by an inductive invariant, for every value of the constants that satisfies the named
assumptions (`ConstantsAssumption`: `None` is no row and no key, ids are not jobs, the
default note is a note; `WorkflowAssumption`: `None` is no application of the workflow either;
`TasksAssumption`: at least one process, natural bounds; `MailAssumption`: what the first two
say, of the constants of the composition; `ListingsAssumption`: `None` again, natural bounds).
TLC evaluates them in the runs.

- `TypeCorrect`. `TypeOK` is not inductive: `Update` writes `obj[w].status`, so one must
  know that a worker between loading and saving has an instance. `InstanceOK` says so.
- `TablesConsistent` (and `NoneDangles`, its second half): `UniqueApplication /\ NoOrphan`, with the admin's edits. Given the
  types it is inductive: a row is written with a key only where the database finds no rival
  and the job (`RowWritten`), every other write keeps keys (`KeysKept`), and a deletion commits
  only when it takes all the rows that point to the job.
- `EveryStatusAnnounced`, `SuccessIsQueued`, `DeletedStaysDeleted`, without admin edits
  (an assumption of the theorems: the admin's full save brings rows back, and with them old
  statuses). `IdsInv`: only a handler before its INSERT holds an unused id, and no two hold
  the same, so no INSERT brings an old id back. `AnnounceInv`: what a row shows is `applied`
  or announced, and a worker past its `pre_save` either has announced its status, or found
  the row gone, which then stays gone, or found it in that status, which then is announced
  already. The last case is why the invariant needs that no one sets a status back to
  `applied`.
- `LocksBelongToDeletions`, with the admin's edits: `LocksInv` says that a worker that has rows
  locked is a deletion of their job before its commit, and that no two have locked one row. It
  needs `IdsInv`: an INSERT never takes the id of a locked row.
- `OneTaskPerRequest`: a counting argument. `MayHandOver` are the workers whose request may
  still hand over a task; `CountInv` says that they and the tasks in `log` together are at most
  `accepted`, and each step is one of: a request is accepted, one hands over its task and leaves
  the set, one leaves it without, or neither changes (the facts about cardinality are the library's).
- `TasksMakeSense`: the log read as the candidate reads the mails. A task is about a row that
  was committed (`TasksOfIssued`); what a mail calls the old status was told of before
  (`NothingSkipped`, from `AnnounceInv`: the row the `pre_save` reads shows an announced status);
  an application is confirmed once (`ConfirmedOnce`, with `ConfirmInv`: whose confirmation is
  still to be queued has none, and no two workers are there with one id).
- `WorkflowProofs`: `HandlersImplementWorkflow`, `MailsTellOfEdges`, `NotesAreKept`,
  `TerminalStaysTerminal`. With overlapping saves all four are false (`terminal` shows it of the
  last), so they assume `[]NoOverlap`: no two workers are between their load and their UPDATE of
  one application, as `select_for_update` in the handlers would ensure. Beside the absence of admin edits nothing else is assumed:
  any number of workers handle other applications, creations and deletions meanwhile, and
  processes die in the middle. `SavesInv` is the invariant that needs it: what a worker is about
  to write is an edge from the row *as it is now*, and carries the row's notes unless the request
  has its own. A row changes only by an `Update` (`RowStep`), which is then this worker's own; a
  deleted row stays deleted. In the refinement (`RefinementStep`) the INSERT is `Submit`, an
  `Update` of a row that is there is `Move`, an administrator's deletion and the commit of a
  job's deletion are `Remove`, and every other step changes nothing that `Shown` shows.
  `OneWorkerSuffices` discharges the condition: a single worker never overlaps with itself, so
  the three properties of the run `serial` hold of every instance it is a small one of.
- `ApplicationMailProofs`: the two sides meet only in `log` and `broker`, and the pool writes
  neither (`PoolLeavesWorld`). `WebIsAComponent`: the composition implements `Applications`
  (`SameWeb` relates the instance the model uses to the one the theorems come with), so
  `AllInv`, `TasksMakeSense` and the bound of `OneTaskPerRequest` hold in it, and with the bound
  every web step is one that the pool allows its environment: `PoolSeesItsEnvironment`. The
  theorems of `NotificationTasksProofs` follow (`PoolKeepsItsPromises`, `MailTypeCorrect`).
  `SkippedMeansDeleted` needs both sides: the row that a task does not find was committed
  before the task was queued, and ids are not given twice, so it was deleted; a
  task never runs ahead of its row.
- `MailsAreBounded`, `NoticeIsLast`, `PayloadsAreValid`: `TaskInv` counts one mail at most
  per run of a task, and as many runs as republications and one. They hold for every
  environment that appends to the log; `PoolSeesItsEnvironment` proves that the API is one.
- `JobListingsProofs`: `IInv` adds to the types that a worker past its load has a copy made
  from what it loaded (`InstanceOK`: an edit keeps the status and the views, publish went from
  draft to published, close from published to closed) and that a job that was never created
  has no row and no views (`UnbornOK`). `StepWrites` says which statements write rows at all.
  `ViewsAreExact` and `SearchFindsTitle` are inductive relative to `IInv`, and `LifeCycleKept`
  and `OnlyEditsResurrect` are steps from it: a save that overwrites nothing unseen finds the
  status its handler checked. `LocksSuffice` says what would repair the rest: if the load and the
  save of a handler are not interrupted by another that has the job in hand (`Exclusive`;
  retrievals may overlap) nor by the daily task (`TaskWaits`), as with a lock on the row, then
  only drafts are published, deleted jobs stay deleted and all views are counted (without the
  condition TLC finds each violated). Its invariant is that the instance in hand is the row
  but for the vector (`UpToDate`); rebuilds of the vector, creations and other jobs go on freely.
- `CompaniesProofs` (under `CompaniesAssumption`: `None` is no row, user or number): `TInv`, the
  types and that a request in flight has a copy; `MInv` adds that memberships have the numbers
  given out and that a removal past its check names one that is not an owner's, which stays so
  since numbers are not given twice: `MembershipSound` and `OneOwner` are inductive with it.
  `RowStep` says which steps write the row and from what. `TiersInOrder` needs that the copies in flight
  are in order too, and that the row's domain is verified where a copy's is, unless that column
  was lost (`DomainKept`); the cooldown and the old tokens that the row has the last token
  generated, unless that column was lost, that no copy has a later one, and that copies of one
  token agree on its time (`TokensKnown`). `DecisionsKept` and `CooldownKept` are steps: a
  write whose copy agrees with the row has checked the row.
  `CompanyLockSuffices` says when the exceptions go: if no two requests that may write the company
  are in flight at once (`Exclusive`) and a review waits for them (`ReviewWaits`), as with a lock
  on the row, each copy is the row (`CopyCurrent`) and nothing is lost; then the order of the
  tiers, the decisions, the cooldown, the void tokens and the deletion hold without exception.
  Without the condition TLC finds each of the five violated on the instance of `companies`.
  Memberships, accounts, time and crashes go on freely.
- `AccountsProofs` (under `AccountsAssumption`): all invariants at once, with what a worker has
  in hand at each point (`RequestOK`: a registration before its INSERT holds an id nobody has
  used, one after it an id with its own address, a verification an account that was mailed), that
  no two registrations hold the same id (`KeysDiffer`), and that an account that was never
  inserted has no row (`Unborn`).
  `AnswersTrue` is a step from it.
- `InboxProofs` (under `ApiClientAssumption`, `InboxAssumption`): for the tokens, `CInv`: pairs
  are in range, and as long as nothing disturbed the tab and no bridge page is on its way, at most
  one call refreshes, with the pair the tab and the storage hold, which is not spent
  (`Undisturbed`); so the refresh of an undisturbed tab meets no spent token
  (`NotWipedForNothing`). `Crossing` is about the bridge page: its pair is nowhere else until it
  arrives, so that no call of the old page can spend it, and what the session promises is held by
  the page, or by the bridge that will replace its tokens (`SessionTokens`). For the page, `PInv`: what a call marks exists, an answer to a reload shows as
  read only what is read (`AnswersOK`), and what the page shows as read is read or held by a call
  whose failure takes it back (`ShownOK`), which is stronger than `ShownReadIsRead` and inductive.

Only model-checked: `EveryRequestEnds`, `EveryTaskEnds`, `ExpiredJobsClose` and `BadgeCatchesUp`.
Liveness under fairness is out of the prover's reach. Every other property of a passing run is
stated by a theorem.

## 7. Not modelled

Permissions by role (they decide who may call a handler, not what it does; the membership
queries of the company handlers are steps and are modelled), the throttles' counters (a request
or a refresh may be turned away at any time), the contents of rows
that no handler branches on, listing and searching, pages of a list after the first, changes of
a job's slug or company, time other than dates, ticks and the choice of when something happens,
the admin's change pages of jobs, companies and users, which can set any column, and deletions
of users and companies as jobs and applications see them (they cascade like that of a job).
Dashboards, health checks, the request logger, the service worker and the seed command keep no
state the other parts depend on. `PROJECT.json` gives the reason for each component.
