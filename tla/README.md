# Verification of the ticketing backend

TLA+ models of the Django ticketing backend, their TLC configurations, and
proofs checked by TLAPS. All paths below are relative to the repository root.

Contents: [the system](#the-system), [the modules](#the-modules),
[the runs](#the-runs), [fairness](#fairness), [the proofs](#the-proofs),
[what the runs found](#what-the-runs-found),
[what is not modelled](#what-is-not-modelled), [plan](#plan),
[how to run it](#how-to-run-it).

## The system

The backend is a Django/DRF application (`apps/`) over PostgreSQL. Three kinds
of actors change the database at the same time:

* **request workers** of the web process. A request is handled by a *view*,
  which looks objects up without a lock and answers 404 for what the caller
  cannot see, and a *service*, which opens a transaction, usually locks the
  project row with `SELECT ... FOR UPDATE`, decides again, writes, and commits;
* **Celery workers**, which run the four jobs of
  `apps/notifications/tasks.py`. Beat starts publishing, closing and emailing
  every 60 seconds and reminding every 15 minutes
  (`config/settings/base.py:160-177`), whether or not the previous run has
  ended. Workers may die at any point;
* **the frontend**, which talks to the API only, with a short access token and
  a rotating refresh token.

Everything that is shared is in the database; there is no other channel between
these actors. What is hard here is therefore: what is read before a lock and
used after it, runs that overlap, runs that die between two transactions, keys
that must be unique, and long sequences of legal requests.

### Inventory

| Component | Source | State | Operations | Correct when |
|---|---|---|---|---|
| Project membership and ownership | `apps/projects/{models,services,selectors}.py`, `api/views.py` | `Project.owner`, `deleted_at`, `visibility`; membership rows with a role and `deleted_at`; two partial unique constraints | create, update, delete a project; add, change, remove a member; transfer | a live project has one owner row, that of its owner; only the current owner changes anything; a user never gets two rows |
| Lifecycle and scheduled jobs | `apps/projects/services.py`, `apps/notifications/tasks.py` | `state`, `published_at`, `publish_at`, `close_at`; audit idempotency keys | schedule, cancel, close, reopen; `publish_due_projects`, `close_due_projects` | schedules are ordered; jobs act only on what is due at the time; all or nothing with the audit row; what is due is done in the end |
| Tasks, comments, watchers | `apps/tasks/` | task rows (status, assignee, deleted), comments, watcher rows | create, update, transition, delete a task; create, edit, delete a comment; watch, unwatch | only writers of a live open project change tasks; the workflow is kept; a deleted task is final; notifications reach members only |
| Policies | `apps/projects/policies.py`, `apps/tasks/policies.py`, `workflow.py` | none | role tables, the transition table | they are evaluated on current state |
| Outbox | `apps/notifications/services.py`, `tasks.py:139-170` | `EmailDelivery.status` | file a notification; `send_pending_emails` | a message is attempted until an attempt is recorded, once unless a worker died with it |
| Reminders | `apps/notifications/tasks.py:101-136` | notification dedupe keys | `send_deadline_reminders` | every assignee of a task that is due soon is told once per due time |
| Attachments | `apps/attachments/` | attachment rows, two byte quotas | upload, delete, download | quotas hold; uploads need a role and an open project; a deletion is recorded once |
| Notification reads | `apps/notifications/services.py:40-55` | `read_at` | mark one, mark all | a read time is written over only by requests that overlapped |
| Accounts and tokens | `apps/accounts/` | password hash, `is_active`, refresh tokens and their blacklist, personal access tokens | register, login, refresh, logout, change and reset password, create, use and revoke a token | a password change ends every session that did not overlap it; a refresh token is not exchanged again and again; a revoked token stays so |
| Frontend session | `frontend/src/lib/api.ts:47-126`, `App.tsx`, `features/{auth,account}.tsx` | access and refresh token in storage; the session the page remembers | login, request, refresh, retry, two ways to sign out | parallel calls leave no spent token behind; signing out lasts |
| Audit log | `apps/audit/` | append-only rows, unique idempotency keys | write | a row per committed operation |
| API capabilities | `*/api/capabilities.py` | none | what a caller is told he may do | agrees with what the services allow |
| API plumbing, health, metrics, configuration, admin, demo data, user interface | `apps/api`, `apps/common`, `apps/health`, `apps/observability`, `config`, `deploy`, `frontend/src/features` | none shared | | |

Interactions: membership decides who may do anything in the other components;
deleting a project ends its memberships, which is what makes it unreachable for
everybody but staff; the jobs read the schedules the lifecycle operations write and
notify through the outbox; task operations lock the project row, and so exclude
membership and lifecycle operations; attachment operations lock nothing. Nor do the
account services: each of their queries commits by itself, and what the browser
stores depends on the order in which answers reach it.

`PROJECT.json` lists the hazards, each with its line and the properties that
would catch it.

## The modules

| Module | Models |
|---|---|
| `Policies` | the permission tables and the task workflow, as operators |
| `Ownership` | abstract: what the membership services promise of one project |
| `Membership` | one project, its rows, and concurrent requests; implements `Ownership` |
| `Schedules` | abstract: what services and jobs promise of the schedules of a project |
| `Lifecycle` | projects with schedules, requests, both jobs; implements `Schedules` |
| `Tasks` | tasks, comments and watchers; its project *is* `Ownership`, composed with the task services |
| `Delivery` | abstract: what the outbox promises of one message |
| `Outbox` | `create_notification` and `send_pending_emails`; implements `Delivery` |
| `Inbox` | the notifications of `Outbox` as their user reads them, one or all |
| `Reminders` | `send_deadline_reminders` against changing tasks |
| `Attachments` | uploads and deletions, query by query |
| `Sessions` | one account: password, refresh tokens, access tokens, query by query |
| `Browser` | one page of the frontend and its stored session, composed with `Sessions` |
| `MC*` | symmetry sets for the runs |
| `*Proofs` | theorems and their proofs |

Conventions. A variable `request` holds for every worker the request that its view
has let through; `Receive` is the view step, and each service is an action that
decides on the state it finds. A service is one step because all of them hold the
project row lock from their first read to their commit (`lock_project`, `lock_task`,
`lock_comment`), so that two of them on one project never overlap; where no lock is
taken (attachments, reminders, accounts, notification reads) every query is a step
of its own. A job run keeps the list it read at its start and takes one row per
transaction. Error answers that leave the database alone are one action (`Forbid`,
`Refuse`). Mutants, the bugs that the properties are tested against, stand next to
the operator they replace and are used nowhere else.

**Membership.** `rows` are the rows of the membership table, kept with their
identity, since removing a member only sets `deleted_at` and adding the user
again restores the row (`services.py:100-150`). The two partial unique
constraints are the operator `UniqueActive`, evaluated for each statement:
`MoveOwnership` demotes before it promotes. The branches for an inconsistent
database and for `IntegrityError` are modelled, so that they can be shown dead.
"The latest row by updated_at" is any of the candidates.

**Ownership** says the same without rows, locks or requests. `Membership` maps
its rows to a function from users to roles; the run `membership` checks and
`MembershipProofs` proves the implementation. `Tasks` then uses `Ownership`
itself as its environment: what is shown of tasks holds for every way the
membership services can act.

**Lifecycle.** `validate_future_aware` is in the view step, as in the code: it
runs before the lock, so that a schedule may lie in the past when it is
written. `announced` holds the idempotency keys of the audit table. A taken key
rolls the project back and ends the run (`tasks.py:74-96`), and so does the
third disjunct of `TakeProject`. Times are small numbers; the empty time is `None`.

**Schedules** is what remains of `Lifecycle` for who reads the project rows and the
audit table: at any moment a project is edited within limits (`Allowed`: not marked as
published, not taken back from deletion, not scheduled out of order), or one of its
schedules is carried out, when it is due, together with its audit row, once for each
kind. `Lifecycle` has these variables itself, so that the mapping is the identity.

**Tasks.** `notices` holds who was sent a notification by the last step.
Due dates, texts and priorities are left out; whether a watcher row is
restored or inserted makes no difference to `watching`.

**Outbox.** One number stands for a notification and its delivery row, which
are created together under a unique key. Row ids are handed out before commit
and so appear in any order. `Send` is the call of the mail server while the row
lock is held: it may accept the message and still raise. `lost` is a history
variable that counts, for each message, the runs that died after handing it over.

**Delivery** knows messages only. A message is filed, attempted, handed over, and its
attempt recorded (`Settle`) or lost with the worker (`Lose`), which makes it pending
again. `Phase` of `Outbox` maps the state: a message is where the worker that
holds its row is with it, and what its row says when nobody does.

**Inbox** extends `Outbox`: `Deliver` is any step of the outbox, and the read
steps leave its variables alone. `opened[r]` is the row that a request has
fetched and found unread, `reads` counts how often `read_at` was written.

**Reminders.** `todo` is the list of a run with the assignees and due times as
they were listed; the code files its reminders from these objects. `clock` moves
between runs and within them.

**Attachments.** `request[c].seen` is the project as the view read it, on which
`ensure_upload_allowed` decides later. Each project has one task and one comment;
quotas are small numbers of bytes.

**Sessions.** A request of an account is a chain of steps, `request[w].stage` says
how far it is: a password change is `CheckOldPassword` (or `CheckResetLink`),
`SavePassword`, `ListOutstanding`, one `Blacklist` for each row, `FinishChange`
(`services.py:102-176`); a refresh is `CheckRefresh`, `Spend`, `IssueNext`, as
`ROTATE_REFRESH_TOKENS` and `BLACKLIST_AFTER_ROTATION` make simplejwt do it.
`Abandon` ends a request after any query: the worker died, or the query failed,
which the blacklisting swallows and reports as success (`:175`). A password is
its version, because a new hash is salted anew; a reset link carries the version
it was made from and is good only as long as that is the hash. Tokens and
links may be presented at any time, so expiry would only take behaviours away.
`race` and `children` of a token and `ended` are history variables:
which password changes overlapped the requests that led to a token, how many
successors it has, and the newest change that ran to its end.

**Browser** extends `Sessions`: `call[c]` is a call of the page, and `request[c]` is
the request at the server that serves it. A call with an expired access token
is `StartCall`, `ReadStored`, then the server's refresh, then `StoreAnswer`, which
tries it again. What one call stores or clears, the others find. `LoseAnswer`
takes the page's side only: the server may go on with the request. `page` is the
`session` that `App` keeps in its state, `stored` is the browser's storage; the code
lets them differ (`App.tsx:16`, `api.ts:81`). Signing out is
either the button in the side bar, which only clears (`App.tsx:80-83`), or the one
on the profile page, which posts the stored refresh token first
(`account.tsx:91-94`). `late` and `lost` are history variables. Password changes are
left to `Sessions`: to the page they are one more reason why a refresh is refused.

## The runs

| Run | Configuration | Shows | States |
|---|---|---|---|
| `membership` | 3 users, 4 rows, 2 workers | rows and owner agree, stale views are harmless, `Ownership` is implemented | 52,798 |
| `lifecycle` | 1 project, 2 workers, 1 publisher, 2 closers, 1 death | schedule order, jobs act only on what is due, a deleted project is out of its owner's reach, `Schedules` is implemented (publishing is all or nothing, with its audit row) | 729,966 |
| `lifecycle_jobs` | 2 projects, 1 worker of each job, 1 death, fair | a due publication or closing is carried out or withdrawn; closing unless a key is used up | 248,198 |
| `tasks` | 2 users, 1 task, 2 workers | writers only, assigned while member, workflow, final deletion | 441,004 |
| `task_comments` | 2 users, 1 task, 1 comment, 2 workers | authority over comments, no notification to former members | 88,884 |
| `outbox` | 2 messages, 2 workers, 1 death, 2 readers, fair | copies need deaths, "sent" is true, every pending message is attempted, read times settle, `Delivery` is implemented | 238,681 |
| `reminders` | 1 task, 2 users, 1 worker, 1 death, fair | no reminder is early; a task due soon is reminded of | 100,352 |
| `attachments` | 2 projects, 3 slots, 2 workers | the excess over a quota is less than a file per worker | 404,758 |
| `attachments_change` | 1 project, 2 slots, 1 worker, everything changes | a late upload was under way at the closure | 87,552 |
| `sessions` | 2 refresh tokens, 1 access token, 2 workers, 2 password changes | what survives a password change overlapped it; exchanges and late uses are bounded by the overlap | 1.59 million |
| `browser` | 3 refresh tokens, 2 calls | storage keeps no spent token unless an answer was lost; only a late refresh undoes a sign-out | 291,495 |

The run `lifecycle_blocked` expects a violation; see [below](#what-the-runs-found).
The first run of each component checks its type invariant; that of `Sessions` is part
of `BrowserTypeOK`, which `browser` checks.

**Why the bounds are enough.** Two workers give every overlap of a view with
one other operation. A third adds nothing new: a service decides on the
committed state, so what matters is what was committed since its view, and
the second worker can commit any sequence of operations in between. Three
users are an owner, a new owner and a bystander; with four rows there is room for
a second row of one user. Two projects in one run of a job make one go before the
other; one project is enough where the property is about one project, since no
operation touches two. A clock of 0..2 has a schedule in the past, one
that falls due during a run, and one that is postponed. One death can hit a run at
every point, and the theorems on `Outbox` cover any number of them. For the
quotas, the sizes go up to one more than the largest file and the project quota is
smaller than two such files, so that every check can fail at its boundary, and the
total quota is smaller than two project quotas, so that one project can use up the
room of the other.

`sessions` needs two refresh tokens, one that a change lists and one that a
request issues behind its back, and two password changes, which may overlap each
other and be reordered: the older may list last. `browser` needs three tokens,
one that is spent, the two successors that a race issues; with two calls the
winner and the loser of the race store and clear in every order. Registration,
deactivation and reactivation of the account are part of both.

In `reminders` one worker is enough: a run and its successor after a death overlap
in what they have listed, and filing a reminder is one atomic `get_or_create`.
`lifecycle_jobs` leaves out cancellation, manual closing and deletion,
which only withdraw a schedule; `lifecycle` has them.

**Bounds by name.** `MaxTime`, `MaxCrashes`, `MaxChanges` (password changes),
`Asked`/`AskedOps`/`Edits`/`Settings` (which operations a run asks for),
`AskedRoles`, `AskedSizes`, `Row`, `Slot`, `Task`, `Comment`, `Refresh`, `Pat` (ids
the database hands out).
`Asked` and its relatives choose the part of the interface a run explores; between
them the runs use all of it.

**Deadlock** is not checked where the model may really come to an end: in
`Lifecycle` and `Reminders` once every project is deleted, or every task, and
the clock has reached its bound; in `Outbox` once all messages are sent; in
`Attachments` once the ids are used up or the projects deleted. In `Membership`,
`Tasks`, `Sessions` and `Browser` it is checked.

**Symmetry** is used in safety runs only. Projects, tasks and messages that a job
orders by id are numbers and not symmetric.

## Fairness

Only the jobs are fair. Beat starts each of them again and again, so that a run is
weakly fair to start when there is something to do, and a worker that does not die
takes its next row. Deaths are bounded in number: a worker that died every time
would do nothing. Users owe nothing, and the clock owes nothing either: it may stand
still, and it may move on between two runs. Readers of notifications owe nothing to
the outbox: the fairness of `Inbox` is that of `Outbox` with the read variables
unchanged. No liveness is claimed of accounts and browsers, where every step is a
user's, a network's or a request's that may die. `send_mail` returns or raises in
the end; a message that the server refuses is recorded as failed and not tried again
(`tasks.py:161-168`).

## The proofs

TLC checks an instance; the theorems hold for any number of users, rows, projects,
workers and messages, and any bounds. They assume only the named assumptions of the
modules: that `None`, `NoUser` and `NoRequest` are not values of the sets they are
added to (tokens, sessions and rows included), that ids that are ordered and bounds
are naturals, that the roles asked for are roles, that no process runs both jobs of
`Lifecycle` at once, and that there are finitely many request workers or readers
where a property counts them (`Attachments`, `Sessions`, `Inbox`). Two theorems say in
their statement that there is a single worker.

**`MembershipProofs`** proves `TypeCorrect`, `RowsAreUnique` (`OneRowPerUser`),
`OwnerAndRowsAgree` (`OwnerMatchesMembership`), `DeletedProjectsAreEmpty`
(`NoMembersAfterDelete`), `DefensiveBranchesDead`, `CommitsByCurrentOwner`,
`RemovedRowsStayFrozen` and `MembershipImplementsOwnership`.
`OwnerMatchesMembership` is not inductive alone: that a transfer ends with one owner
row needs that a user has one row, and that a removal or a role change leaves the
owner's row alone needs that the caller who passed `ensure_owner` owns a live
project. `IInv` joins the type invariant, `OneRowPerUser`, `OwnerMatchesMembership`
and `OnlyLiveHasMembers`; the lemmas show for each service that it keeps them, most
of them through `RowChanged`, what saving one row does. Refinement follows from
`IInv` and a case for each service that says which step of `Ownership`, if any, it
is.

**`LifecycleProofs`** proves `TypeCorrect`, `SchedulesInOrder`
(`ScheduleOrder`), `PublishedOnceAnnounced` (`PublishedIffAnnounced`: a project is
marked as published exactly when its audit row exists), `JobsAreCurrent`
(`JobsActOnDueProjectsOnly`), `DeletedIsOutOfReach` (`OwnerCannotTouchDeleted`) and
`LifecycleImplementsSchedules` (`ImplementsSchedules`). The strengthening is that no
run started in the future: a project that is due against the start of the run is due
now. The least element of a run's list, which `CHOOSE` picks, exists because `<` is
well founded on the naturals. The refinement rests on two lemmas: a service is an edit that
`Schedules` allows, or nothing (`ServeIsEdit`); a transaction of a job publishes or
closes one project, whose key it is the first to use, or does nothing (`TakeIsCarryOut`).

**`OutboxProofs`** proves `TypeCorrect`, `OneCopyPerAttempt`
(`DuplicatesNeedCrashes`) and `SentRowsTellTheTruth` (`SentIsTrue`). The bound on
copies is not inductive: it needs that copies of a *pending* row that is not in
flight died with a run (`PendingCopiesAreLost`), which needs that a row is held by one
worker (`ExclusiveRows`) and stays pending as long (`HeldRowsArePending`).
`CopiesAreBounded` sums up what a recipient may see: one copy, and one more for every worker
that died (`LossesNeedCrashes`). `OutboxImplementsDelivery` (`ImplementsDelivery`) adds
`RowsAreFiled` to the invariant: a run lists, and so holds, rows that exist. The mapping
chooses a holder; `PhasesAreClear` says that there is no choice, since a row has one holder at
most, and `StepsOfMessages` names for each step of the outbox the step of the message that it
is: listing, skipping and dying idle are none.
`InboxImplementsOutbox` shows every behaviour of `Inbox` to be one of `Outbox`, so that these
theorems hold while notifications are read (`InboxImplementsDelivery` among them);
`InboxTypeCorrect` and
`ReadTimeIsSettled` (`ReadTimeSettles`) are about the reading. A read time is counted
against the requests that have found the row unread: once it is written, no new one
joins them, so that the sum never grows.

**`TaskProofs`** proves `TypeCorrect`, `FormerMembersAreNotTold`
(`NoticesGoToMembers`), `TasksChangedByWriters` (`WritersOnly`), `AssignedToMembers`
(`AssignedWhileMember`), `WorkflowIsKept` (`WorkflowRespected`), `DeletedTasksStay`
(`DeletedTasksAreFinal`) and `CommentsByAuthority` (`CommentAuthority`), for
everything that `Ownership` lets the members do. The services ask for the
caller's role, not whether the project is live; that this is enough needs
`MembersOnlyWhileLive`: nobody has a role in a project that is not live. The lemma
`HowTasksChange` lists the four ways in which a task row changes, with what each has
checked; the theorems about tasks follow from it.

**`ReminderProofs`** proves `TypeCorrect` and `RemindersAreNotEarly` (`NotTooEarly`),
from `ListedInWindow`: what a run has listed was within the window and stays so.

**`AttachmentProofs`** proves `TypeCorrect`, `LateUploadsHadSeenItOpen`
(`LateUploadsWereUnderWay`), `QuotaExcessIsBounded` (`ExcessIsBounded`) and
`QuotasHoldWithoutOverlap`. For the first two the strengthening says what each query has established
of the upload that carries on with it (`AuthorisedUploads`), and that the row a
deletion has read is still there (`DeletionsFindTheirRow`). The bound on the excess is not
inductive: the bytes of uploads that have measured and not stored yet must be counted with
the stored ones (`TotalInv`, `ProjectInv`). An upload joins them only when what is stored
leaves room for it, while each of the others adds one file at most; storing moves its bytes
from one sum to the other, and a deletion only takes some away. A sum of sizes is the
cardinality of a set of pairs, one for every byte, so that the theorems of the library about
finite sets replace an induction over the files (`SumIsFinite`, `SumOfPart`,
`SumOfOneMore`). With one worker the excess is none.

**`SessionProofs`** proves `TypeCorrect`, `ChangeEndsSessions`
(`SurvivorsWereUnderWay`), `ExchangeIsBounded` (`ExchangedOncePerWorker`) and
`RevokedStaysRevoked` (`RevocationHolds`). That what survives a change
overlapped it is true only when the change is over, so the invariant `RaceInv` says
what holds before: while a change is blacklisting, a live token of an older password
that is not on its list, and every request that may still issue one, know of the change
(`EndingIsKnown`); after it, the requests still do (`EndedIsKnown`); and nothing is of a
password that was not set yet (`NoneIsNewer`), so that no new login can fall behind.
The two bounds are counts: successors issued plus exchanges under way never exceed
the workers, because what is spent is revoked (`SpentIsRevoked`) and admits no new
exchange, and what is unspent has no successor (`UnspentHasNoChildren`); likewise for revocation
(`UnrevokedIsOnTime`). `RowsAreNamed` says that a request refers to rows that exist.
`PromisesHoldInSequence` concludes that every exception is one of overlap: with a single
worker no race is ever recorded (`NothingOverlaps`), and what the documentation asks holds
as it stands, although the worker may die at any step.

**`BrowserProofs`** proves `BrowserTypeCorrect`, `BrowserImplementsSessions`,
`SignOutEndsTheSession` (`SignedOutMeansNoSession`) and `StorageKeepsUp`
(`StoredTokenIsUnspent`). Every step of the page is a step of `Sessions` or leaves the server
alone, so that `SessionProofs` holds of the composition; that needs `WellFormed`, what a
call at each stage presents. After a sign-out the calls that may still store are
marked late (`MayStoreLate`), and no others can start. That storage keeps up needs to know
where each successor is (`UnspentInv`): still with the request that issues it
(`ExchangesAreAwaited`), granted to exactly one call and nowhere else
(`GrantIsExclusive`), stored, or lost (`SpentIsFollowed`).

**Only model-checked:** the liveness properties, `PendingIsAttempted`,
`DueProjectsArePublished`, `DueProjectsAreClosed` and `DueTasksAreReminded`: fairness is
out of the prover's reach. Every safety property that a run checks is a theorem.

## What the runs found

One run checks a sentence of the documentation and ends in a counterexample.
`PROJECT.json` quotes the sentence.

* `lifecycle_blocked` – a project that the job has closed, that is reopened and
  scheduled again, is never closed, as the key `project:<id>:closed` is taken; and
  it keeps every project behind it from being closed, as the exception leaves the
  loop. `lifecycle_jobs` shows that this is the only reason. Publishing has no
  such flaw, since `published_at` is never unset.

Other places where code and documentation differ, which the models contain and
which no run is spent on:

* a plain member may move the tasks of others and reopen finished ones
  (`docs/product-specification.md:206,209`), and a viewer, or a former member, may
  be the assignee of a task (`:204`): `ValidAssignee` of `Tasks` asks for an active
  membership only, and a removal or a role change looks at no task;
* two uploads that measure before either stores exceed a quota
  (`docs/attachments.md:115-119`); `attachments` bounds the excess;
* a task whose due time passes between two runs is not reminded of
  (`docs/product-specification.md:316`), and one completed during a run is (`:317`);
* an upload under way adds its file after the project was closed (`:265`, what is
  promised instead is `LateUploadsWereUnderWay`); the files of a deleted comment stay
  readable (`docs/attachments.md:85`); a second deletion of a file replaces the record
  of the first (`:123`);
* "Refresh rotation and blacklist are required so logout and password reset can
  revoke existing refresh tokens" (`docs/security.md:14`): a logout with an expired
  access token refreshes first, then posts the refresh token that this has just spent
  (`account.tsx:92` evaluated it before, `api.ts:118-120`). The logout is refused, the storage
  cleared, and the successor stays good. In `Browser` this is `StartLogout`, `ReadStored`,
  the refresh, `StoreAnswer`, `LogoutRefused`;
* a password change leaves the sessions that overlapped it
  (`docs/security.md:46`, `SurvivorsWereUnderWay`), and one whose blacklisting failed
  leaves all of them and reports success (`services.py:175`, `Abandon`).

Behaviour of the page that is not documented: the loser of two parallel refreshes
clears the session that the winner has stored, and so does any failure of a
refresh (`api.ts:80-82`); `App` goes on showing its main screen then
(`App.tsx:16,65`); the answer to a refresh that arrives after signing out
stores a session again (`api.ts:90`), which the next load of the page opens; and the button
in the side bar leaves the refresh token good (`App.tsx:80-83`).

## What is not modelled

* Texts, names, file types, checksums, pagination, error envelopes: data that no
  property tells apart.
* Audit rows of manual operations: written in the transaction of the
  operation and never read by another.
* The Django admin, but for `is_active` of an account, and the seeding command: they
  write rows without the services.
* Of accounts: the time zone of the profile, the user search, the scopes of access
  tokens (`allows_method`, a function of one request), and `ExternalIdentity`, which no
  code uses.
* Demo mode of the frontend, which replaces the server by fixed data.
* API capabilities (`*/api/capabilities.py`): they call the permission functions of
  `Policies` that the services call, so that a model would compare these with
  themselves. Where capability and service decide on different data, the unlocked row
  and the locked one, the runs already show the service to be right.
* The user interface, health probes, metrics and deployment: no protocol.
* Lock-order deadlocks: `lock_task` joins project and assignee rows into one
  `FOR UPDATE`, so that transactions on two projects may lock user rows in different
  orders. In which order PostgreSQL takes the row locks of one query is its executor's
  choice, not the code's, and it resolves a deadlock by aborting one of the two.

## Plan

Done: `Policies`, `Ownership`, `Membership`, `Schedules`, `Lifecycle`, `Tasks`,
`Delivery`, `Outbox`, `Inbox`, `Reminders`, `Attachments`, `Sessions`, `Browser`; all
safety properties of the runs proved, and the refinements of `Ownership`, `Schedules`,
`Delivery`, `Outbox` and `Sessions`.

What could follow:

1. A publish schedule left on a public project that is later made private
   (`projects/services.py:309`): `Lifecycle` has the state, a statement of what should
   happen is missing.
2. Password changes in the composition of `Browser` with `Sessions`, and two pages that
   share one storage.
3. A run for the logout that revokes nothing, once the intended behaviour is decided.
4. An abstract specification of an account's sessions that `Sessions` implements, with
   what may survive a change as its one nondeterministic choice.

## How to run it

    tlc -config Membership.cfg MCMembership
    tlapm MembershipProofs.tla

Every configuration is named in `PROJECT.json` with its module. No run takes more
than two minutes on two cores.
