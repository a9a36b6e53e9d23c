# A verification project for Upbrando

TLA+ models of the Upbrando backend (`app/`, FastAPI over PostgreSQL, with its
scripts and migrations), checked with TLC on small instances and proved with
TLAPS for every value of their constants. Paths below are relative to the
repository's `src/`.

## 1. The system

| Component | State it keeps | Operations | What is hard about it |
|---|---|---|---|
| Cookie sessions (`app/modules/auth/router.py`) | `refresh_tokens` rows, `users.google_sub`, the browser's cookies | login (Google, dev), refresh, logout | check and commit are separate awaits; rotation is two commits; responses arrive in any order |
| Time clock (`app/modules/timeclock/router.py`) | `time_entries`, `time_break_windows` | check-in, check-out, break start and end | double clicks and two tabs; midnight between two awaits; totals computed from rows read earlier |
| Time summary (`app/services/timeclock.py`) | none | minutes worked, overtime, breaks, lunch | floors, allowances, night shifts |
| Rate limiter (`app/core/rate_limit.py`) | one bucket per `scope:ip` | hit | fixed windows, rounding of Retry-After |
| Accounts, invites, agent profiles (`app/modules/admin`, `org`, `agents`, `auth`) | `users`, `invites`, `agent_profiles` | invite, first login, direct creation, role change, bootstrap | unique e-mail against overlapping creations; a profile that must follow the role; roles read before an await |
| Request context (`app/api/deps.py`) | none | role claim against the role in the database | a claim that is stale between two requests |
| Departments and reporting lines (`app/modules/org`, `admin`) | `departments`, `users.manager_id`, `users.is_active` | create, rename, move, set manager, org chart | names compared in lower case by the handlers and exactly by the key; circles of managers; stale rows written back |
| Tasks and helpdesk (`app/modules/tasks`, `helpdesk`) | `tasks`, `task_comments`, `helpdesk_tickets` | create, update, delete, comment; the task made from a ticket | a ticket copied to its task one way; completion times decided on a row that may be stale; deletion under another request |
| Chat (`app/modules/chat`) | threads, participants, messages, read markers | find or create a direct thread, send, mark read, unread counts, pages | find-or-create without a lock; times taken before the commit that shows them; a marker that may move back |
| Seeding (`app/services/bootstrap.py`, `scripts/seed_pilot.py`) | the first superadmin and root department; the pilot data | seed, seed again | half-finished runs; two runs; the live system beside them |
| Migration (`scripts/migrate.py`, `alembic/env.py`, the start command) | `alembic_version`, the schema, an advisory lock | start, migrate, downgrade | instances starting at once; a parent that dies while its child migrates on |
| Schema (`alembic/versions`, `app/db/models.py`) | tables, keys, types | upgrade, downgrade | written twice by hand; the order foreign keys and types allow |
| Announcements, knowledge base, forms, attachments, operations | one table each | create, list, mark read | almost none |
| ERP API (`apps/api`, Express and Prisma) | users, roles, permissions, sessions, reset tokens | register, login, logout, reset, assign | a separate program with its own database |
| ERP web (`apps/web`) | the authentication store | bootstrap, login, logout, route guards | the client of that program |
| Pilot UI (`frontend`), shared schemas, configuration | – | – | presentation and constants |

How they interact. A request passes the rate limiter, then
`get_request_context` (which loads the account and compares the role claim),
then its handler. A handler owns one database session
(`app/db/session.py`: `expire_on_commit=False`, `autoflush=False`), which means
three things that every module here relies on:

* a row the handler loaded stays as it was loaded, whatever other requests
  commit meanwhile;
* pending writes reach the database at `flush` or `commit`, and an UPDATE
  writes only the columns that differ from what was loaded;
* the database runs at READ COMMITTED, so each SELECT sees what is committed
  when it runs, and unique and foreign keys are the only protection between two
  requests.

Every `await` on the database is a point where other requests run. The models
therefore give a request one step per SELECT (with the statements up to the next
await) and one step per COMMIT (with the statements before it). Where what lies
between two awaits reads nothing that another request writes, the two are one
step; the modules say so where they do it.

Components meet in the rows they share. `users.is_active` is written by
`PATCH /org/users/{id}` and read by every request; each module that depends on
it has that write as an action (`SetActive`, both ways). A ticket writes the
task it was created with (`WorkTracking`). Seeding writes the rows of the live
system (`PilotSeed`), and every start of the service first runs the migration
(`Migration`), which executes the statements of `Schema`.

## 2. The modules

| Module | Models | Kind |
|---|---|---|
| `Sessions` | login, refresh and logout as overlapping requests | state machine |
| `TimeSummary` | the arithmetic of an entry's minutes | operators |
| `TimeEntry` | what that arithmetic promises of an entry; extends `TimeSummary` | entries to look at, and properties |
| `TimeSheet` | what the time clock promises one employee | abstract specification |
| `TimeClock` | check-in, check-out and breaks as overlapping requests; extends `TimeSummary`, refines `TimeSheet` | state machine |
| `RateLimit` | the in-memory limiter | state machine |
| `Onboarding` | accounts, invites, roles and agent profiles as overlapping requests | state machine |
| `WorkTracking` | tasks, comments and tickets as overlapping requests | state machine |
| `Chat` | threads, messages and read markers as overlapping requests | state machine |
| `OrgChart` | departments, reporting lines and the chart as overlapping requests | state machine |
| `PilotSeed` | the pilot script, run again, beside itself and the live system | state machine with fairness |
| `Schema` | the statements of the revisions, and the declared models | operators |
| `Migration` | instances that migrate and serve, die and lose their lock; extends `Schema` | state machine with fairness |
| `...Proofs` | proofs: `SessionsProofs`, `TimeClockProofs`, `OnboardingProofs`, `WorkTrackingProofs`, `ChatProofs`, `OrgChartProofs`; `CountingProofs` for `RateLimit` and `TimeEntry`, `SetupProofs` for `PilotSeed` and `Migration` | proofs |
| `MC...` | the instances TLC checks | instances |

Definitions commented "Seeded fault" are deliberately wrong variants of the
definition that follows them. Nothing in the specifications uses them: they are
there so that each property can be shown to fail when the code has that bug (the
`mutants` of `PROJECT.json`).

The history variables of a module are named in its declarations. No guard reads
them; they let a property say "unless the two overlapped".

### 2.1 Sessions

A process of `Procs` is a request slot; `pc[p]` names the await it has reached.

| Action | Code (`app/modules/auth/router.py`) |
|---|---|
| `BeginGoogleLogin`, `GoogleSelect`, `BindSub` | `google_login`, the account exists: the SELECT of line 215, the checks of 271-278, the commit of 275 |
| `BeginDevLogin`, `DevSelect` | `dev_login`, the account exists: 374-396 |
| `BeginRefresh`, `RefreshRecord`, `RefreshUser`, `RevokeOld` | `refresh_token`: the cookie of 295, the SELECTs of 309 and 319 with their checks, the commit of 324 |
| `IssueTokenPair` | `_issue_token_pair`: the insert and commit of 170-179 |
| `SetCookies`, `ClearCookies` | the response reaches the browser |
| `BeginLogout`, `LogoutRecord`, `LogoutRevoke` | `logout`: 336, 340, 342-343 |
| `Abort` | the server dies or the connection drops at any await |
| `Expire`, `SetActive` | `expires_at` passes; `PATCH /org/users/{id}` commits `is_active` |

A token pair is named by its refresh token. `parent`, `issuer`, `late` and
`faulted` are history variables. The model's tokens are unique because each
carries a random `jti` (`app/core/security.py:61`).

* `ParentRevoked`: a rotation never leaves the old and the new token both
  usable, because the revocation commits before the insert. The price is that
  a crash between the two loses the session; `NotStranded` says that this (a
  request that died) is the only way a browser is left with a dead cookie, and
  that it never happens by ordering alone.
* `SuccessorPerRequest`: a refresh token has at most one successor per request
  that overlapped its rotation. It is not at most one in total: two overlapping
  refreshes of one token both read `revoked_at` as NULL and both insert a
  successor. With one request at a time it is one (theorem `SerialRotation`).
* `LateIssueBounded`: after an account is deactivated, each request that had
  loaded it before may still issue one pair, and that is all. The access token
  of that pair is refused by `get_request_context`, which reads `is_active`
  again.
* `SubStable`: a Google identity stays bound to its account. It holds while
  requests do not overlap (theorem `SerialIdentity`), and the run logs in with
  Google in its serial scenario only: with overlap two first logins with
  different identities both read `google_sub` as NULL and the later commit wins.

### 2.2 Time clock

One employee; requests may overlap. A row of `time_entries` is one `work_date`
and is absent while `checkIn` is `None`; a break window is an element of
`Windows`. A request that takes the time keeps it in `stamp` until its commit.

| Action | Code (`app/modules/timeclock/router.py`) |
|---|---|
| `CheckInOpen`, `CheckInSelect`, `CheckInInsert`, `CheckInStamp` | `check_in`: 89-93, the SELECT of 54, the flush of 59 or the UPDATE, and the commit of 102 |
| `CheckOutOpen`, `CheckOutWindows`, `CheckOutCommit` | `check_out`: 125-129, 136-141, 143 |
| `StartBreakOpen`, `StartBreakSelect`, `StartBreakInsert` | `start_break`: 166, 179-187, 191 |
| `EndBreakOpen`, `EndBreakSelect`, `EndBreakCommit` | `end_break`: 205, 221-224, 225 |
| `Tick` | time passes, midnight included |

`OpenEntryPerRequest` and `OpenWindowPerRequest` are what survives overlap:
the check and the insert are separate awaits, so two requests around midnight
may open the entries of two dates and two starts of a break may insert two
windows, but never one request, and never a request that starts afterwards. Two
open windows of one kind make `scalar_one_or_none` raise from then on.

With one request at a time the tables are a time sheet: `ImplementsSheet` is
the refinement of `TimeSheet` (the running day, the closed days, the breaks that
are on), `WellNested` puts breaks inside entries and `TotalsMatch` says the
stored totals are `summarize_entry` of the rows that are stored. `TimeSheet`
also says what check-out does to a break that is on: it is dropped, and its
minutes are not counted (`app/services/timeclock.py:28`).

`TimeEntry` checks `TimeSummary` against a tick-by-tick reference:
`WorkedWithinRounding` (worked minutes are the ticks outside breaks, up to one
minute per interval), `OvertimeWithinSpan` (an entry begun before 18:00 has no
more overtime than minutes in it), and `SkippingBreaksGainsNothing` (an employee
who records no break is charged the allowance). Overtime may exceed the minutes
*worked*, because minutes after 18:00 are counted without subtracting breaks;
and an entry begun after 18:00 may have more overtime than minutes, because the
count starts at 18:00 (`app/services/timeclock.py:45`). Neither contradicts a
document, so neither is a finding and no property forbids it.

### 2.3 Rate limiter

`Allow` and `Refuse` are the two outcomes of `hit`; its critical section has no
await, so a hit is one step. Time is in ticks, `SecondLen` of which make a
second, because `time.time()` has fractions and `int()` drops them.
`CountsEveryGrant` ties the bucket to the hits that were let through,
`SlidingBound` says what a fixed window is worth (at most twice the limit in any
stretch of a window's length), `RetryWithinASecond` how wrong Retry-After may be.
Buckets are never removed (`rate_limit.py:33`); the model has the same growth
and no property bounds it, since nothing in the code does.

### 2.4 Onboarding

An account is named by its e-mail, unique in the tenant; `role[e]` is `None`
while there is no row. `own[p]` says that the request changes the account it is
authenticated as, in which case the session returns the row it already holds.
An agent profile is an identifier, so that a request that loaded a profile which
was deleted and replaced meanwhile is told apart.

| Action | Code |
|---|---|
| `BeginInvite`, `InviteUser`, `InvitePending`, `InviteInsert` | `create_invite` of `app/modules/admin` (140-206) and of `org` (231-300) |
| `BeginDirect`, `DirectUser` | `create_user_direct` (`admin`, 216-244), `create_agent` (`agents`, 48-73) |
| `GoogleUser`, `GoogleInvite` | `google_login` of an unknown e-mail (`auth`, 211-238) |
| `DevUser` | `dev_login` of an unknown e-mail (`auth`, 374-386) |
| `BootstrapCount` | `bootstrap_superadmin` (`auth`, 414) |
| `InsertAccount` | the INSERT and commit that all of these end with |
| `BeginRole`, `LoadTarget`, `Flush`, `LoadProfile`, `Commit` | `update_user_role` (`admin`, 285-321) |
| `BeginUser`, `LoadTarget`, `LoadProfile`, `Commit` | `update_user` (`org`, 303-367) |
| `BeginSeed`, `SeedUser`, `Promote` | `seed_superadmin_from_settings` (`services/bootstrap.py`, 58-83), from the script or the endpoint |
| `Expire`, `Abort` | `expires_at` passes; the request dies |

`lock` is the row lock that the flush of `update_user_role` takes while its
transaction is open. `googled`, `authority` and `raced` are history variables.
HOD differs from EMPLOYEE in no check of these handlers, so the instances leave
it out.

* `GrantsWithinAuthority`: the role an account has was given by a role that may
  give it. The giver may have been demoted meanwhile, and an invite keeps the
  authority of the moment it was sent. Only the new role is compared: an ADMIN
  may demote a SUPERADMIN.
* `InviteOnly`: an account opened by Google, unless the configured superadmin's,
  has spent exactly one invite, however the logins overlap.
* `InvitePerRequest`: at most one pending invite per request that overlapped.
  With two, the next request's `scalar_one_or_none` raises and the login takes
  the newest.
* `ProfileFollowsRole`: agents, and only they, have a profile. The exceptions
  are the property's: an account whose change overlapped another one's (`raced`),
  and an agent who is seeded as superadmin, because seeding writes the role
  alone.

### 2.5 Work tracking

`task[t]` and `ticket[k]` are rows, `req[p]` what a request holds in memory: the
row it will insert, or the columns it will write, because an UPDATE writes only
the columns that differ from the row that was loaded. `completed_at` is reduced
to whether it is set.

| Action | Code |
|---|---|
| `Create`, `CreateValidate`, `CreateCommit` | `create_task` (`app/modules/tasks/router.py`, 66-96) |
| `Update`, `UpdateValidate`, `UpdateCommit` | `update_task` (140-196) |
| `Delete`, `DeleteCommit` | `delete_task` (200-222); the foreign keys take comments along and clear the ticket's `task_id` |
| `Comment`, `CommentCommit` | `add_task_comment` (226-260) |
| `Open`, `OpenValidate`, `OpenCommit` | `create_ticket` (`app/modules/helpdesk/router.py`, 43-84) |
| `UpdateTicket`, `TicketValidate`, `TicketTask`, `TicketCommit` | `update_ticket` (102-154): the ticket, the assignee, the task, one commit of both |
| `SetActive`, `Abort` | `PATCH /org/users/{id}`; the request dies |

* `CompletionStamped`: a task has its completion time exactly when it is DONE.
  It holds up to the two ways the code has of breaking it, which the property
  names (`loose`): two requests that overlapped on the task, and a ticket, which
  sets the status and leaves `completed_at` alone (`helpdesk/router.py:136-141`).
* `Mirrors`: after a PATCH of a ticket its task has the ticket's status and
  assignee, until the task itself is changed. A PATCH of the ticket's title is
  enough to overwrite what was changed on the task.
* `DeletedForGood`: no request that had a task loaded brings it back or leaves a
  ticket pointing at it.
* `AssignedWhileActive`: an inactive account becomes an assignee only through a
  request that overlapped its deactivation, or through a ticket that was already
  assigned to it.

### 2.6 Chat

A message's `created_at` is the time its transaction began, a read marker is the
server's clock when the handler sets it, and both become visible at the commit.
`clock` stands for both and moves with the commits.

| Action | Code (`app/modules/chat/router.py`) |
|---|---|
| `BeginDm`, `EnsureUser`, `FindDm`, `CreateThread` | `create_dm_thread` (97-138), `_ensure_user` (57-62), one participant after the other |
| `BeginGroup`, and the same steps | `create_thread` (146-212) |
| `BeginSend`, `TakeTime`, `Write` | `send_message` (288-317) |
| `BeginRead`, `TakeTime`, `Write` | `mark_read` (321-355) |
| `Unread`, `ListMessages` | `unread_counters` (359-383), `list_messages` (248-280) |
| `SetActive`, `Leave`, `Abort` | an account is deactivated or comes back (`org/router.py`, 344-345); an answer without a commit; the request dies |

`reader` is one client that reads a thread back: each page is a request of its
own and asks for what is before the oldest message of the page before.

* `OneDmUnlessOverlapping`: two people get a second direct thread only from a
  request that began before the first was committed. No key forbids it.
* `SentAfterIsCounted`: a message sent after a marker was last committed counts
  as unread. A message whose transaction began earlier may never be counted,
  since its time is older than its commit; the property draws that line.
* `SeenIsRead`: sending, and marking all as read, leave nothing unread that was
  there when the time was taken. Marking up to a message may move the marker
  *back*, and messages that were read count again.
* Proved beyond what the run checks:
  * `MembersWereActive`: whoever is put into a thread was active at some moment
    of the request. Not at its beginning: an account that comes back before it
    is looked up is put in. Nor at its commit.
  * `PagesReachAll`: of the messages there were when a client got its first
    page, going back misses some only in a tick where a page ended, because
    pages are cut by `created_at` alone. What is committed between two pages
    takes none away; but it is itself missed when its time is older than a page
    already read.

The database's clock and the server's clock are one clock here: skew between
them would move the line of `SentAfterIsCounted` by its size.

### 2.7 Departments and reporting lines

| Action | Code |
|---|---|
| `Create`, `SeekRoot`, `Insert` | `create_department` (`app/modules/org/router.py`, 80-106; `admin`, 98-112), `ensure_root_department` (`services/bootstrap.py`, 36-46) |
| `LoadDept`, `CheckName`, `CommitDept` | `update_department` (172-214) |
| `UpdateUser`, `UpdateManager`, `UpdateAgent`, each a `LoadUser`; `CommitUser` | `update_user` (304-368), `update_manager` (381-403), `update_agent` (`app/modules/agents/router.py`, 128-164) |
| `Roots`, `Levels`, `Shown` | `get_org_chart` (453-472) |

* `NamesApart`: two departments have one name up to case only where the look-up
  could not see the other: names padded with blanks, which line 87 compares as
  they are and line 101 stores stripped; the root that seeding makes beside a
  department of that name that has a parent; and overlapping requests.
* `OnlyAsAsked`: a commit changes the manager and `is_active` of an account only
  as its payload asked, however old the row it had loaded.
* `MissingInCircles`: an active account is missing from the chart exactly when it
  reports, through active managers only, into a circle. `update_user` and
  `update_manager` forbid only circles of one (`MayReportTo`), `update_agent` and
  the pilot script (`seed_pilot.py:384-388`) not even those. The property says
  what the chart makes of them. The script's managers are those of its own list,
  which has no circle; its writes are in `PilotSeed`, as fields it sets.

### 2.8 The pilot script

The data is a `Plan` of items, each of a `Kind`; a run takes them in turn, looks
for the row, adds one or sets its fields, and commits once at the end. Adding a
department or an account is flushed at once, which holds its unique key.

| Action | Code (`scripts/seed_pilot.py`) |
|---|---|
| `Begin`, `Commit`, `Fail` | `seed_pilot` (280-291, 445); an exception or a killed script |
| `GetOrCreateDepartment`, `UpsertUser`, `EnsureAgentProfile`, `EnsureTask`, `EnsureDmThread`, `EnsureMessage`, `EnsureTimeEntry` | the functions of those names, 46-277 |
| `FindThread` | `_find_dm_thread` (171-187), which takes the first of an unordered SELECT, and the thread it opens when there is none |
| `Flush` | their `flush`, which waits while another run holds the key |
| `Add`, `Edit`, `Delete`, `ChangeRole`, `SeedSuperadmin` | what the live system does to these rows |

The pilot users may have several direct threads: their own request opens one
(`Add`; `chat/router.py:97-138`), before, between or beside the runs, and so do
runs that overlap. Rows are therefore kept by *cell*, an item together with a
thread: the messages of one thread are not those of another.

* `AllOrNothing`: a run that changes anything leaves every item with a row, each
  message in the thread the run found, except what others removed while it ran.
* `OneRowUnlessOverlapping`: a second row of a task, a second thread, or a
  message a second time in one thread, appears only when somebody else added one
  while the run was under way. It is stated per cell because more does not hold:
  with two threads a run that nothing overlaps may take the other one and send
  the messages there again.
* `Idempotent` (`README.md:83`): run again, with nothing done in between, it
  changes nothing, except for that: the messages, when there is another thread.
* `AgentHasProfile`: the pilot agent has a profile exactly while it is an agent,
  unless its role was last changed beside a run (`crossed`).
* `SeedEnds` (liveness): every run ends, although its INSERTs wait for keys that
  another run holds until its one commit. Runs take the keys in the order of the
  plan, so they cannot wait for each other in a circle; a test with one process
  would not see it if they did.

Not modelled: with several superadmins the script takes any (lines 285-286, no
order), and `_ensure_task` sets it as the creator of the tasks it finds, so a
second run may change that one field. The models have one superadmin.

### 2.9 Schema and migration

`Schema` has the statements of both revisions, up and down, as data
(`Up0001`, `Down0001`, `Up0002`, `Down0002`), what each needs (`Runs`) and does
(`After`), and, from `app/db/models.py`, the schema they have to arrive at
(`Models`). `Migration` executes them:

| Action | Code |
|---|---|
| `Start`, `Acquire`, `Finish` | the start command of the `Dockerfile`, and `_run_upgrade` (`scripts/migrate.py`, 32-60): the advisory lock, the child, its exit code |
| `ReadVersion`, `Open`, `Execute`, `CommitRevisions` | the child, `alembic upgrade head` (`alembic/env.py`, 34-51): one transaction for all missing revisions |
| `Kill`, `LoseConnection`, `Break`, `Reap` | the parent dies, its connection (and the lock) is lost, the child dies; the child ends without a parent |
| `StartDowngrade` | `alembic downgrade -1` by hand, with no instance up |

Some names say that they are the migration's (`MigrationSpec`, `Nobody`,
`phase`), because one module has the proofs about it and about `PilotSeed`.
`RevisionsFit` says that the statements of each revision run one after the other
from every schema its version may have (`Reached`), and lead to one the next
version may have. It names no constant of the module; TLC computes it before
each run, as an `ASSUME`, and the proofs use it.

* `HeadIsTheModels`: whatever dies, the committed schema is that of a whole
  number of revisions, and at the last one it is `Models`: the same tables,
  columns, keys, types and deletion rules.
* `StatementsRun`: no statement fails in the order they are written, down as
  well as up.
* `OneMigrator` (`DEPLOY_AWS.md:147`): of the children at work at most one has a
  parent that holds the lock. A child whose parent died works on without it.
* `ServesMigrated`: a server started after its migration finds every revision its
  image knows applied.
* `LockTaken` (liveness): nobody waits for the lock for ever.

## 3. Runs

| Run | Bounds | Shows |
|---|---|---|
| `sessions` | 2 requests, 2 browsers, 1 account, 2 identities, 3 tokens. Scenarios: one browser without identities and two overlapping requests; "serial", both browsers and identities, one request at a time | the safety of tokens under overlap, deactivation, expiry and crashes; three tokens are a login, its rotation and the rotation of that |
| `timeclock` | 2 requests, 2 windows, 2 one-tick days | per-request uniqueness of open entries and windows, midnight between any two awaits |
| `timeclock_serial` | 1 request, 3 windows, days of 3 ticks, 5 instants | nesting, totals and the refinement of the abstract time sheet |
| `time_summary` | entries up to 9 ticks, 2 ticks a minute, at most 2 breaks, a day and a night shift | the arithmetic against its reference |
| `rate_limit` | 1 key, limit 2, windows of 2 seconds of 2 ticks, 10 instants | the limiter's bounds; keys do not interact |
| `onboarding` | 2 requests, 2 accounts, 2 invites, 4 profiles (both accounts' and both requests'). Scenarios: employees and agents without invites; invites for ADMIN | who has a profile, and what roles and invites are worth |
| `onboarding_seed` | 1 request, 2 accounts | violated: seeding acts on a database that has users |
| `work_tracking` | 2 requests, 2 accounts, 1 task, 1 ticket. Scenarios: overlapping changes of status; accounts that come and go; comments and deletion; every status, one request at a time | what task and ticket say of each other and of their assignees |
| `chat` | 2 requests, 3 accounts, 2 threads, 3 messages, 6 commits. Scenarios: opening threads among three accounts that leave and come back; sending and marking as read in one thread, with two messages and four commits; the same thread read back page by page while messages come | direct threads, counts and markers |
| `org_chart` | 2 requests, 3 accounts, 3 departments, 3 spellings of 2 names. Scenarios: names of departments; reporting lines, with at most one account inactive, where a request that asks for both fields runs alone | names, circles, stale writes |
| `pilot_seed` | 2 runs, one item of each kind that behaves differently. 2 threads, at most 2 rows of an item to which the live system adds. Scenarios: one run beside what the live system does to everything but threads and messages; one run beside what it does to those; two runs that overlap | the script is all or nothing, repeatable, and ends |
| `migration` | 2 instances, each of either image; the real statements of both revisions | migration under crashes, at every statement |

Scenarios divide a state space that is too large as one: each is a choice of
initial state (`scenario`) and a constraint on what the requests ask for
(`Within`), never on how they interleave. A property is checked in all of them.

Two requests are enough to reach every overlap of two handlers, at every pair of
awaits. Every safety property that a passing run checks is proved besides
(section 4): for any number of requests (for one at a time where the run has one
at a time), runs or instances and of rows, and whatever the limits, shifts and
plans. What the runs add is that the seeded faults do violate the properties, and
the liveness properties, which cannot be proved. One
task and one ticket suffice for `work_tracking` because a request touches one
task and one ticket, and no two tickets share a task (part of the proved
invariant).

All specifications are checked for deadlock, except `Chat`, whose bound on the
clock stops it. There is none: a request can always be aborted, and time bounds
are only reached by the clock.

Fairness is assumed in two modules, for the two liveness properties:

* weak fairness of a run's (`PilotSeed`) or a child's and a parent's
  (`Migration`) own next step: a process that is not killed goes on;
* strong fairness of the steps that wait, `Flush` for a key, `Acquire` for the
  advisory lock and `Open` for the tables: PostgreSQL queues who waits and wakes
  it when the holder's transaction or session ends. Weak fairness would not do,
  because others take and release in between.

Nothing is assumed of the live system, of who starts or dies. The handlers have
no liveness property: every one of them ends in its own commit or fails, and
waits for nobody.

### Disagreements with the documentation

One is shown by a run, and recorded as a finding:

* `onboarding_seed`: `README.md:78` says seeding "only works when no users
  exist". It has no such check, and promotes whoever has the configured e-mail.

Four more follow from what the models say, without a run of their own:

* `README.md:271` has logout end with cleared cookies. A refresh that had passed
  its check before (`auth/router.py:309`) issues its pair afterwards, which
  `logout` (330-344) never saw; when its answer arrives last, the browser is
  signed in again.
* The 429 answer says "Retry in {retry_after}s" (`rate_limit.py:36, 63-64`); the
  number is rounded down, so a caller that obeys it may be refused again.
  `RetryWithinASecond` bounds by how much.
* `README.md:83` calls the pilot seeding idempotent. When the pilot users have
  two direct threads, `_find_dm_thread` (`seed_pilot.py:171-187`) takes whichever
  the database returns first, so a second run may add the messages again, to the
  other thread (the exception of `Idempotent`).
* `README.md:116-117` calls the bootstrap endpoint one-time. Its count and its
  INSERT are separate awaits (`auth/router.py:414-442`), so an account created in
  between does not stop it.

## 4. Proofs

The eight proof modules follow one plan: an inductive invariant (`IInv`) made of
named parts, one lemma per action or per part, and theorems that combine them
with the temporal step. `Inductive`, `Invariance` or `TypeCorrect` is
`Spec => []IInv` or its types; the others are corollaries, or action properties
that need the invariant in the state before.

They assume the modules' own `ASSUME`s (`None` is nothing else, limits are
positive, the plan has each item once). Some theorems state a hypothesis about
the constants besides:

* one request at a time (`\A p, q \in Procs : p = q`, or `OneAtATime`) for what
  overlap breaks: `SerialRotation`, `SerialIdentity` and the four `Serial...`
  theorems of the time clock;
* finitely many accounts (`ChartMissesCircles`);
* one agent and one profile in the plan (`AgentKeepsProfile`), as
  `scripts/seed_pilot.py:346-375` has.

The modules:

* `SessionsProofs`. `IInv` adds to the checked invariants what makes them
  inductive: the shape of a request's local state at each `pc` (a request past
  `RevokeOld` holds a revoked token; one past `IssueTokenPair` holds a token it
  issued), and *tickets*: a request that may still issue has issued nothing for
  the token it presents. Proved: `TypeCorrect`, `RevokeThenIssue`,
  `OneSuccessorPerRequest`, `NeverStranded`, `DeactivationBound`,
  `SerialRotation` (one at a time, a token has at most one successor), and
  `SerialIdentity`: the account of a request about to bind an identity is still
  unbound (`StillUnbound`), since nobody else was there to bind it.
* `TimeClockProofs`. A check-in past its check holds a ticket: no entry that is
  open was opened by it. `CheckInStep` shows a ticket is taken when no
  entry is open and spent on the one opened. The same for breaks. Proved:
  `OneOpenEntryPerRequest`, `OneOpenWindowPerRequest`. With one request at a
  time the invariant is stronger (`SerialInv`): at most one entry is open, and
  none while one is being opened (`SerialEntries`); likewise for the windows of
  a kind (`SerialWindows`); times are stored in the order they were taken
  (`SerialClock`); and a check-out about to commit has the sums of the rows as
  they are stored (`SerialTotals`). From it: `SerialWellNested`,
  `SerialTotalsMatch` and `SerialImplementsSheet`, the refinement of `TimeSheet`:
  each step is one of the sheet's (`StepIsSheetStep`) or leaves it alone.
* `CountingProofs`. Of `RateLimit`: `NeverOverLimit`, `RetryAfterIsShortByLess`
  (what `int()` drops is less than a second, `WholeSeconds`), `NoGrantUncounted`
  (`Accounted`: what was let through since a bucket was opened is its count) and
  `TwiceTheLimitAtMost`, which needs also that the window's length before the
  bucket was opened had at most the limit. What they say of sums rests on lemmas about
  finite sums that are proved from the recursion of the community module's fold,
  by taking a smallest set for which the equation fails (`WFMin`). Of `TimeEntry`,
  for every shift, number of breaks and length of minutes and days:
  `WorkedIsRounded`, `OvertimeIsBounded`, `BreaksCostNothing`. Here the ticks of
  disjoint windows are counted one by one (`CoveredTicks`), and rounding each
  interval down loses less than a minute of it (`RoundedLengths`).
* `OnboardingProofs`. A role that is about to be given, by a request or by an
  invite that waits, is allowed by the one it is given on (`GrantTicket`); a
  request about to insert an invite has none pending of its own
  (`InviteTicket`); an e-mail without an account has spent no invite and has no
  profile; and a request that has loaded an account still knows its role and
  its profile, unless the account is in `raced` (`Loaded`). `InsertEffect` and
  `CommitEffect` say once what the two commits change. Proved: `TypeCorrect` and
  all four invariants of the run.
* `WorkTrackingProofs`. What a request holds at an await has to fit the rows it
  will meet at its commit. `Facts` says so for each label: rows it loaded are
  there or deleted, and its ticket still has the same task or lost it to a
  deletion (`Fits`); a new assignee is vouched for or still to be looked up
  (`Backed`); its writes, laid over what the table holds *by now*, give a row
  whose stamp agrees (`Stamps`) and equals what the ticket will be (`Copies`),
  unless the request is stale. `Steady` names what a step of somebody else must
  leave alone, and `FactsOn` shows that this is enough; `ContinueStep`,
  `BeginStep` and `FinishStep` then carry every action. That no two tickets share
  a task is part of the invariant and of no property. Proved: `TypeCorrect` (with
  the foreign keys), `StampsAgree`, `TasksFollowTickets`, `DeletedStaysDeleted`,
  `AssigneesWereActive`: all four properties of the run.
* `ChatProofs`. A request about to insert a direct thread has found none of its
  pair among the threads there were when it began (`Founding`); one that moves a
  marker forward moves it to a time not before its own beginning and not before
  any message it saw (`Moving`); every marker is as old as its last move or older,
  and that is before now (`Times`); and the participants a request has looked up
  were active while it ran (`Founding`). Proved: `TypeCorrect`,
  `CountsWhatWasSentAfter`, `OneDm`, `ReadsWhatWasSeen`, `OnlyActiveMembers`,
  `PagesAreComplete`.
* `OrgChartProofs`. A request that has looked for its name still finds no other
  department of it, unless one got a name since (`Looked`); the parent it will
  store is there and is not the department itself, and the columns it writes are
  among those it was asked for (`Carries`). Proved: `TypeCorrect`,
  `NamesStayApart`, `WritesAsAsked`, and `ChartMissesCircles`: a circle is on no
  level of the chart, and the levels, which stop growing after as many as there are
  accounts, have everybody who reports to somebody they have.
* `SetupProofs`, of `PilotSeed`, for every plan and any number of runs, threads
  and rows. What a run is going to write fits the rows of the cell by now, unless
  others gave or took one (`Fits`, and `ThreadReady` for the thread it found or
  opens); for a run that saw nobody else, it is what it would write looking now
  (`Exact`); it has the key it needs (`HoldsKey`); and one that is alone has missed
  nothing (`Unmissed`). After a run that was alone all cells
  of some thread are seeded (`AllSeeded`). Proved:
  `WholeOrNothing`, `SecondRowsOverlap`, `SeedingTwice`, `AgentKeepsProfile` (which
  needs in addition that a run that began before the agent's last change leaves
  it an agent with a profile: `MakesAgent`, `MakesProfile`), `SeedTypeCorrect`
  (an item with a unique key has one row at most, and none while a run's insert
  holds the key), and `NoCircleOfRuns`,
  the safety that `SeedEnds` rests on: a run that waits for a key waits for one
  further along the plan.
* `SetupProofs`, of `Migration`, for any number of instances. A child at work is an
  orphan or its parent holds the lock (`Holder`); the open transaction began at
  the committed version, upgrades go up and a downgrade runs alone
  (`Directions`); so a parent whose child succeeded still finds its revisions
  applied (`Applied`). The committed schema is one that whole revisions lead to
  (`Committed`), and the open transaction is where its statements have led it
  (`InProgress`), by `RevisionsAssumption`. Proved: `LockedMigrator`,
  `ServesWhatItKnows`, `WholeRevisions`, `HeadMatchesModels`, `EveryStatementRuns`,
  `MigrationTypeCorrect`, and `LockIsAtWork`, the safety that `LockTaken` rests on:
  the holder of the lock is at work, or behind a transaction whose child is.

Only model-checked:

* `LockTaken` and `SeedEnds`: liveness, and the ENABLED that fairness is made of,
  are out of the prover's reach. Of each, the safety it rests on is proved.
* `RevisionsFit`: that the given revisions fit together and fit `app/db/models.py` is
  a computation on their text, which TLC does.
* `SeedFirst`, the violated property of `onboarding_seed`.

The type invariants of `Sessions`, `Onboarding`, `WorkTracking`, `Chat`, `OrgChart`,
`PilotSeed` and `Migration` are proved and not listed in the runs; that of
`RateLimit` is part of its `IInv`, and that of `TimeClock` is proved but for the
minutes that rows and requests carry.

## 5. Not modelled

* The ERP API (`apps/api`) and its web client (`apps/web`): a second program that
  shares no table, process or message with the backend. It would be a project of
  its own; nothing above depends on it.
* Announcements, knowledge base, forms, attachments, operations: one insert is
  the whole behaviour. Of announcements, overlapping first reads by one reader
  meet at a unique key and the second commit fails; a later read only moves
  `read_at`.
* Within the modelled components: an account's department and working hours, an
  agent's tools and heartbeat and the check of those tools
  (`require_agent_tool`), which no other request writes while it is read; lists
  and reports, which choose nothing; the audit entry that follows most commits,
  a second transaction that no reader depends on; the tenant header, of which one
  value is ever used.
* Presentation, configuration parsing, validation schemas, alembic's offline mode.
