# Flint: a verification project

Flint is a job board for vacancies in the Netherlands. A daily pipeline fetches
postings from two sources, dbt turns them into marts in a Databricks warehouse,
a publish step copies the marts into the backend's Postgres, a Spring Boot
backend serves them and keeps users and saved jobs, and a Next.js site shows
them. This directory holds TLA+ models of that code, the TLC runs that check
them and the TLAPS proofs about them. Paths below are relative to the
repository.

## 1. Inventory

How data flows, and who keeps which state:

    Adzuna API, JobSpy --fetch--> landing zone (one ndjson blob per source and day)
      --dbt build--> warehouse marts --publish--> Postgres schema `analytics`
      --SQL--> Spring Boot backend (owns schema `app`: users, saved_jobs;
               HTTP sessions in memory) --JSON--> Next.js site (React state)
    Airflow runs ingest >> list_landing_files >> dbt_build >> publish_to_backend

| Component | State it keeps | Operations | Hard behaviour | What makes it correct |
|---|---|---|---|---|
| Publish, `data/src/publishing/sync.py` | published tables of `analytics`; one open transaction per publisher | `run`, `read_mart`, `publish`, `connect_with_retry` | crash at any statement, Airflow retries, a manual publish at the same time, readers in the middle of a swap | a reader sees a whole old or a whole new table; the name never goes missing; nothing is left behind; every publish ends |
| Warehouse client, `data/src/common/warehouse.py` | one statement on the server, the chunks received | `query`: submit, poll, follow chunk links | a failed poll, a missing link, a statement that ends badly | every row of the result or an exception, never a part |
| Ingestion, `data/src/ingestion/` | the landing zone, the results of the two sources | `run`, `fetch_raw`, `fetch_all_pages`, `parse_records`, `land_raw_json` | rate limits, retries, one source failing, a second run on the same day | one source's failure leaves the other alone; a page is not silently lost |
| Container job, `data/src/common/aca.py` | executions of the Azure Container Apps job, the poll loop's deadline | `start_and_wait`, `fetch_console_logs`, the log filter | overlapping executions, time-out followed by a retry, an execution that is not listed yet | the task succeeds only if *its* execution did |
| Pipeline, `data/airflow/dags/` | DAG runs, task attempts, the dbt project lock | the four tasks, retries, `flock` | prod and dev build in one project directory; a time-out kills the shell and not what it started | no publish of a mart that failed its tests; no two builds in the directory at once |
| LLM extraction, `data/dbt/models/intermediate/int_postings_extracted_attributes.py` | the incremental table of extracted attributes | one batch per ten postings | a failed batch in the middle, a short or reordered answer, a later run | a posting gets its own attributes, at most once |
| dbt transforms, `data/dbt/models/` | none (pure) | deduplication, salary, coordinates, category, contract | SQL's three-valued logic, ties | one row per job; flags that agree with the columns they describe |
| Jobs, `backend/.../job` and `frontend/.../job-feed.tsx` | the feed's pages in the browser | `findJobs` (items, then count), `loadMore` | a swap between two pages or two queries; ties in the sort | no job twice in the feed; what a page claims |
| Saved jobs, `backend/.../savedjob` and `saved-jobs-provider.tsx` | `app.saved_jobs`; the browser's set of saved ids | save, delete, list; `toggleSaved` with optimistic update | answers out of order, a failed call, login and logout in flight | the browser's set ends equal to the table |
| Accounts and session, `backend/.../auth`, `.../user`, `.../config`, `current-user-provider.tsx`, `auth.ts` | users, HTTP sessions, CSRF token, the browser's current user | register, login, logout, `me` | a late `me` answer, two tabs, a failed logout | one account per e-mail; the browser and the server agree on who is logged in |
| Search boxes, `search-input.tsx`, `location-input.tsx`, `job-filters.ts` | open flag, active option, text | typing, keys, picking | an active index past the end of a shrinking list; two options with one label | the picked option is the one submitted |
| Database setup, `scripts/db-setup.py` | roles, schemas, grants of the database; passwords printed once | `main` and its steps | a run that dies half-way and is repeated | a repeated run completes the setup; a published table stays readable |

Components that are not modelled, with the reason, are listed at the end and in
`PROJECT.json`.

## 2. Plan

The order is by what breaks the product worst when it is wrong.

Done:

1. `AtomicMarts`, `Publish`: the swap between the two halves of the system and its
   abstract specification.
2. `Warehouse`, `Ingestion`: completeness of what enters and leaves the lakehouse.
3. `ContainerJob`, then `Pipeline`: ingest, build gate, lock and publish over whole
   DAG runs.
4. `SavedJobs`: the heart from click to row, with logins and mart swaps as its
   environment.
5. `Session`: accounts, the HTTP session and the browser's current user.
6. `JobFeed`: pages, count, total and the infinite scroll against a mart that is
   swapped.
7. `Extraction`, `Transforms`: the incremental table, batches that fail, answers that
   are short; the SQL of one posting as operators; then `MartBuild`, which puts a
   build together from these two.
8. `DbSetup`: a run that dies half-way and is repeated, default privileges and
   the table that is created or swapped in meanwhile.
9. The proofs of `Publish` (with its refinement of `AtomicMarts`), of the two clients
   of `data/src/common` and of `DbSetup` (`CommonProofs`), of `Ingestion`, `Pipeline`,
   `MartBuild` and its parts, `Session`, `SavedJobs` and `JobFeed`: every safety
   property that a run checks.

Left: a bound on how long a run of `Pipeline` can last, as a theorem.

The search boxes were planned as pure operators and dropped: their logic is
sequential, one component's own, and its hazards (an active index past the end
of a list) are within a unit test's reach.

## 3. The modules

### How they compose

`Pipeline` is the frame: a DAG run goes through its four tasks. Each of the other
data modules is the inside of one task, seen at the grain its own hazards need:
`ContainerJob` is `ingest` as Airflow sees it, `Ingestion` what the container
does, `Warehouse` the call under `list_landing_files` and under `read_mart`,
`Publish` the task `publish_to_backend`. What `Pipeline` takes from them is what
they show: a task succeeds or raises; a green ingest may have landed nothing; a
publish copies what the warehouse holds, mart by mart. In the other direction
`Publish` takes from `Pipeline` that no build of the DAG runs under its publish
(`DbtBuild` waits until the scheduled publisher rests). `SavedJobs` has the swap
of the mart as one atomic action, which is what `Publish` shows a reader gets, and
`JobFeed` does the same. `MartBuild` is the inside of `dbt_build`: it extends
`Extraction`, whose model is one node of the build, and `Transforms`, which says
what each posting's columns make of the tests; that one build works at a time it
takes from `Pipeline`, and what `Pipeline` calls a mart's verdict is what
`MartBuild` computes. `DbSetup` gives `Publish` its roles and the default
privileges by which the backend may read a table that was swapped in. `Session`
is the inside of what `SavedJobs` takes as given:
logins, logouts and the token that goes with a session.

### AtomicMarts, Publish, MCPublish (`data/src/publishing/sync.py`)

State: the two committed names of each table (`published`, `staging`), for each
publisher the statement it is at (`phase`), its mart (`position`), Airflow's try
(`attempt`), failed connections (`tries`), the rows read (`data`) and the two
names as its open transaction sees them (`tx`); for each reader the table its
statement has locked and what its last statement returned.

Every SQL statement of `publish` is an action: `DropStaging`, `CreateStaging`,
`InsertRow`/`InsertDone`, `DropPublished`, `RenameStaging`, `CommentTable`,
`Commit`. `ReadMart`, `ReadFails`, `Connect`, `ConnectFails` are `read_mart` and
`connect_with_retry`; `Raise` is an exception that leaves `run` and Airflow's
answer to it; `Crash` and `CommitUnacknowledged` are a connection or process that
dies. Postgres is external and modelled by what the code leans on: transactional
DDL, the wait on a name created by an open transaction, exclusive locks that
queue. `AtomicMarts` is the promise: a table is a register, replaced at one
instant by a complete copy. `ImplementsAtomicMarts` maps a relation to its copy,
and a relation that is not whole to a copy of no build, which the abstract
specification never holds.

### Warehouse (`data/src/common/warehouse.py`)

One statement on the server (external: it works, succeeds, fails, expires) and
the client's `submit`, poll and chunk loop. A result is a number of rows, a chunk
the rows it carries. The server may be unfaithful (rows or a link missing) and
the manifest may lack its count, since those are the cases the code's checks are
for.

### Ingestion (`data/src/ingestion/`)

An execution is one container: Adzuna (pages, tries), then JobSpy (roles), each
with its own `run_date` (`day`), a gate that needs one valid record (`Land`), and one
file per source and day; without one the source raises (`NoValidRecord`). The
upload is two steps: the storage replaces the file (`Store`), and its answer
arrives (`UploadReturns`); between them the source may raise or the container be
stopped, and then a file lies there of a source that failed or never ended.
`SourceRaises` is any exception a source lets out at any place, which `run` logs.
`Killed` is a container stopped from outside; `Midnight` moves the date.

### ContainerJob (`data/src/common/aca.py`)

`start_and_wait` with Airflow's retries around it. The executions live on their
own (`Finish`, with a success or not: what a success has landed is for `Ingestion`
and `Pipeline` to say, since the container exits with 0 even if both sources
failed), show in the list late (`List`), can be started by somebody else
(`StartedByHand`), and a POST may start one without its answer arriving
(`StartUnanswered`). Time is counted in polls.

### Pipeline, MCPipeline (`data/airflow/dags/`, `data/dbt/models/`)

`run[d]` is a DAG's current run, `proc[b]` the dbt process of a build, which
outlives the task that started it; `lock` is the project lock. `KillBuild` is the
deadline of `dbt_build`: what is killed is the shell and `flock`, while dbt, which
inherited the lock file, goes on. `WorkerDies` leaves the process behind at the
places `Deaths` allows. `WriteMart` and `TestMart` are dbt's work on one mart;
`TestedMarts` is the set that has tests attached. A mart's version is the ingest its
build has read; that the attributes in `fct_postings_skills` are those of the
incremental table, which may be older than the build, is for `MartBuild`. `Tick` advances the clocks of
the lock wait and of the deadline.

### SavedJobs, MCSavedJobs (`frontend/src/context/saved-jobs-provider.tsx`, `frontend/src/lib/auth.ts`, `backend/.../savedjob`)

React state (`user`, `saved`) is separate from what handlers see (`rendered`);
`Render` copies one to the other and, for another user, runs the effect that loads
the list (`Effect`). `Navigate` opens another page: the provider is mounted with
the list of jobs (`job-results.tsx:24`), so the new page begins with an empty set
and a load of its own, while the clicks of the page before (`left`) go on without
a heart to flip. A load whose effect was cleaned up is `stale`; that another user's
or page's list is dropped when it comes is `StaleLoaded`. A click
is a small process: flip, `FetchCsrf`, `Serve`, `Settle`. Login and logout change
the session and with it the token, here or in another tab (`SessionChanges`); the
mart is swapped at any time (`MartSwap`); the same user acts elsewhere
(`OtherDevice`). `MCSavedJobs` puts the site into one of two surroundings, chosen
initially: `calm`, where the tab is alone with its account and patient, and the
other, where everything goes.

### Extraction (`data/dbt/models/intermediate/int_postings_extracted_attributes.py`)

`landing` is the set of postings in the landing zone, `table` the incremental
table: for each job the attributes of its row, or no row. Attributes are the job
whose description they were extracted from, or `Default`, so that a row that got
another's answer can be told. `Collect` is the anti-join with `dbt.this` and
`collect()`, in any order of rows; `Answer` one batch, of which the answer names
some; `Refused` the `RuntimeError` that ends the loop and keeps what was
extracted; `Raises` every other exception, which fails the model; `Merge` the
positional join of ids and attributes and dbt's MERGE, or the new table of a first
build or a full refresh. Postings land and are overwritten between any two steps.

### Transforms (`data/dbt/models/intermediate/`, `data/dbt/models/staging/`)

Operators, no state: SQL's three-valued comparisons and connectives, and with
them the coordinates that are kept, the flag that goes with them, the salary's
cast, band, note, outlier flag and display, the category, the contract type, and
the tests that one posting can fail (`PassesStagingTests`, `PassesViewTests`,
`HasTitle`). Amounts are in cents and coordinates in 10^-7 degree, one digit more
than the models keep, so that rounding is modelled by what it does.

### MartBuild, MCMartBuild (`data/dbt/models/`, `data/dbt/dbt_project.yml`)

One `dbt build`, of everything or of the attributes only: `TestStaging`, then the
extraction (`Extract`, `MergeRows`, `ExtractionFails`) with the intermediate views'
tests beside it (`TestViews`), then the two marts in any order (`WriteSkills`,
`WriteFct`) and `Finish`, which makes the verdict; `BuildDies` is a warehouse that
fails between two models. Skips follow dbt: nothing runs on a staging view that
failed, `fct_postings` not on an intermediate view that failed. Views read the
landing zone of the moment, so that what is tested, what is extracted and what is
written can be three different sets of postings. `posting` is what the postings
hold, chosen initially.

### DbSetup, MCDbSetup (`scripts/db-setup.py`)

`pc` is a place in `main()`: the statement that is due and where the loops over
schemas, roles and creators are, for any lists of them; `NextSchema`, `NextRole` and
`NextCreator` take a loop to its next element or past its end, so that the statements
come in the code's order. Each statement has an action that says what it does to the server's catalogue, and `Accepted` says when
the server executes it: `ALTER SCHEMA OWNER`, grants and default privileges need
an admin that is a superuser or a member of the role concerned, which is why
`grant_membership` comes before them. `Dies` is a statement that is refused, or a
connection that breaks; every statement is committed on its own, so nothing is
rolled back. A new password is in the run alone (`passwords`) until `report`
prints it (`known`). `SetupInit` is an empty server or one that an earlier version of the
lists set up. `CreateTable` is any table that an owner or the admin creates or
replaces (a publish does), with the default privileges of that moment, between any
two statements. `gap` holds the one role, if any, of whom the run had just then done
the `GRANT ON ALL` and not yet the default privilege for the table's creator
(`Between`); the `GRANT ON ALL` of another run takes it out.

### Session (`backend/.../auth`, `.../user`, `.../config`, `frontend/src/context/current-user-provider.tsx`, `frontend/src/lib/auth.ts`)

The backend's half is the users table (`account`) with its index, and the session
that each browser's cookie names (`session`). The browser's half is what the page
shows (`shown`), the request for `/me` of its last load (`me`), and one form under
way (`form`), which goes through `FetchCsrf`, `ServeLogin`/`ServeRegister`/
`ServeLogout` and `Settle` like the code's `await`s, and can lose its request
(`RequestLost`) or its answer (`AnswerLost`). `CreateUser` and `UpdateUser` are
`/api/users`, which anybody may call and which stores an e-mail as it was written.
A session is its user; that a login makes a new one is the step from the old
cookie to `Gone` and, with the answer, to the new. `quiet` is a history variable:
it says that nothing has come between page and session since the page was loaded
or somebody logged in or out.

### JobFeed, MCJobFeed (`frontend/src/app/jobs/page.tsx`, `frontend/src/components/jobs/job-feed.tsx`, `backend/.../job`)

A rendering of the page on the server is `ReadItems`, then `ReadCount`, then
`Arrive`: two statements, between which a publish may fall (`MartSwap`). The feed
keeps `jobs`, `page` and `isLoading`; its handlers are those of the last render
(`rendered`), so that the button and the scroll observer may both ask for a page
(`LoadMore`). `FindJobs` is the SQL: lists of as many jobs as the page has
(`PageLength`), where a job may stand at a place of the whole order that comes after
all newer jobs (`Newer`) and no later than those as new as itself (`AsNew`) reach;
these are exactly the pages of all orders that agree with `created`, which is what
`ORDER BY created DESC` promises, and need no recursion. `Fresh` is the one list of
the items that are not there yet in their order, stated by the increasing choice
of their places. Choosing a job renders the page on the server and keeps the feed
(`Open(FALSE)`); a search or a reload drops it.

## 4. What the runs check

| Run | Instance | What it shows |
|---|---|---|
| `publish` | DAG task with two marts and one retry, a manual publish of one of them, one reader, two builds, marts of 0 or 1 rows, two connection attempts | readers only get whole, non-empty, rightly labelled tables; staging never survives; the name never goes missing; a green task has published every mart of its list from its own run's build; the register of `AtomicMarts` is implemented; every task ends |
| `warehouse_query` | results of 0 to 7 rows in chunks of 2 | all rows or an exception; never before the statement is done; the query ends |
| `ingestion` | two overlapping executions, three pages, two roles, three tries, one midnight, lost answers to uploads and kills at any step | sources are isolated; a file has records, is of the right day and of a fetch that is over (not that it is whole or its source did well); no page skipped; an execution ends |
| `container_wait` | two attempts and an execution by hand | green means the attempt's own execution succeeded (not that files landed); the task ends |
| `saved` | two users, two jobs, two clicks, two sessions; calm, with one change of the page, or with everything going and one click on one job of one page | calm, hearts that are not being changed, and whose change the page did not leave behind, tell the truth while others fail and overtake each other and loads come late; otherwise a request never writes another user's rows than the token's, and clicks and loads settle |
| `pipeline` | two runs of the production DAG and one of the other, one retry, one mart, hanging and abandoned builds | one build at a time; none under a publish; only tested marts are published; a green run publishes what it ingested or newer; no build is cut short; every run ends |
| `session` | two browsers, two ids, one address | one account per address and nobody in another's, under races of registrations, logins and the users API; the page agrees with the session; forms become free |
| `job_feed` | up to five jobs on pages of two, two requests at once, one publish, one failure, two visits | no job twice; the newest first without a gap, and in the end all; loading ends |
| `mart_build` | two postings in batches of one (two good ones; a good one and one from JobSpy with a salary; one without a title and one whose title is cleaned away), one removal, one error, one refresh of the attributes | rows have their own attributes and keep them; after a green build the two marts agree and what the backend lists has a title; unless some posting keeps failing a test, every posting reaches the mart with its attributes |
| `db_setup` | two roles with a schema each, a superuser or not, any earlier subset set up, one death without a reason | a complete run means what `main` means, whatever died before; running it again changes nothing; repeats complete the setup and bring every password to light |
| `ingestion_busy` | one execution | expected violation, see section 7 |
| `pipeline_untested` | two marts, one of them without tests | expected violation, see section 7 |

### Bounds, and why they are enough

Every bound is a constant of its module and named in its cfg. The runs do not
check the type invariants that are proved (section 6), but for `publish`. The
theorems lift the bounds of all safety properties; the runs show besides that the
cases happen and that what should happen does.

* `publish`: two builds make an old and a new version to tell apart; one row
  makes a table that is empty, half-loaded (0 of 1) or whole; two connection
  attempts are a last one and one before it; one retry is a first and a last
  try, and the marts of the list are two, so that a failure can fall between
  them.
* `warehouse_query`: none, one exact, and several chunks with a part-full last.
* `ingestion`: three pages allow a hole in the middle; two days one midnight.
  Tries are the code's three.
* `container_wait`: a third execution beside the two attempts' own, so that the
  top of the list can be somebody else's; a poll can overshoot the deadline.
* `saved`, calm: with two jobs a failure can be undone next to another change, and
  two clicks are two requests that overtake each other; two sessions are a login
  and a logout, two users the next login's other owner, who begins with nothing
  saved; one change of the page can leave one or both clicks, or a load, behind.
  Otherwise: one click is
  one request to race with, and two sessions are enough for the cookie to change
  owner between token and request.
* `mart_build`: batches of one make two batches of two postings, so that one can
  be answered and the next refused; one posting can leave while the other is
  asked about. `MCPostings` has a posting for every test that can fail. A refresh
  comes with `--select` of the attributes, as the DAG's text has it; the theorems
  cover every combination of flags, numbers and postings.
* `db_setup`: two roles and two schemas are an owner and a reader for each; a
  subset of both may be there already. What dies because a statement is refused
  is not bounded. Tables stand for sequences and functions, whose statements follow in the same form
  (functions only for the owner).
* `pipeline`: a third build can queue behind one at work and one abandoned; two
  runs of one DAG let the second publish meet the first's abandoned build. Times
  are one tick each, which leaves every order of the three clocks. The
  theorems cover any number of DAGs, marts, runs, retries and any times.

* `session`: one address is what two registrations collide on; two ids are two
  accounts under way. `Room` keeps an id for every registration.
* `job_feed`: five jobs give a first, a middle and a part-full last page; a tie
  sits across the end of a page; two requests are the button and the observer;
  two visits are a page load and a choice of a job, or two loads.

## 5. Fairness

* `Publish`: weak fairness of each publisher's progress and of refusing an empty
  mart; weak fairness of a reader's statement ending (the backend's queries are
  finite); strong fairness of `CreateStaging`, because Postgres wakes the waiters
  of a transaction in order. A crash is never forced, a DAG run never required.
* `Warehouse`: every call is answered or times out (each HTTP call has a timeout), and
  the warehouse ends each statement; `query` polls without a deadline, so without
  the latter it would not end. A fetch of a chunk that is gone fails.
* `Ingestion`: every request is answered or times out, whatever the answer; a
  batch without a valid record raises.
* `ContainerJob`: only the task moves; Azure owes it nothing.
* `SavedJobs`: React renders and every fetch settles.
* `Session`: a form that is sent is served or its request fails; `/me`, reloads and
  clicks owe nothing.
* `JobFeed`: the server answers, React renders, and the end of the list stays in
  view, so that every render observes it anew (the effect has no dependencies).
  Failures are bounded: while they last, the observer asks again at once.
* `MartBuild`: every day has its build of everything, a build's steps go on, and
  the first call of a build is not refused for ever (the gateway's quota is
  renewed). Later batches may be refused in every build, and files need not stop
  landing: that they do is a premise of `PostingsReachTheMart`. `BatchSize` being
  positive, one batch a build is enough.
* `DbSetup`: a run goes on, a refused statement ends it, and whoever runs the
  script repeats it while it fails or a password is missing; if the script asks
  again and again whether to reset passwords, it is answered yes at some time.
  Deaths without a reason are bounded, tables are never required.
* `Pipeline`: time passes, workers run their tasks, `flock -w` fires. Nothing is
  assumed of dbt, which may hang for ever, or of who takes the lock.

## 6. What is proved

All proofs are checked by TLAPS, for every value of the constants that the named
assumptions allow.

`PublishProofs`, for any tables, publishers, readers, lists and numbers of tries.

* `TypeCorrect`, `ReadersAlwaysSeeWholeTable`, `StagingNeverLeftBehind`,
  `NeverGoesMissing`, `ReadersAreStable`. None of these is inductive: that a
  published table is whole needs to know what a transaction has built before it
  commits (`TxView`, statement by statement), that a staging table holds the rows of
  its own creator (`OneLoader`: one open transaction per staging name), and that a
  swap and a running statement exclude each other (`ReadLock`). `IInv` is their
  conjunction; `EnterInv`, `RaiseInv` and `ExecInv` treat the three shapes a step has,
  so that `NextInv` only says what is new in each statement.
* `DagInstallsItsBuild`, `SuccessCoversTheList`. Which build a row comes from is
  decided at `read_mart` and seen at the commit, five statements later, and a task
  is green long after its first mart was installed. `BInv` carries the build
  through the transaction (`FromWarehouse`) and says what the task has installed so
  far, through retries that begin at the first mart again (`SoFar`).
* `AtomicMartsImplemented`. Step by step: the commit is the abstract write, a
  reader's statement the abstract read, and everything else, crashes included,
  leaves every register as it was (`AbstractStep`). What a commit installs is whole
  (`IInv`), of a build that was made and not older than what it replaces by the same
  task (`BInv`).

`CommonProofs`, the two clients of `data/src/common` and the database setup;
`Warehouse` and `DbSetup` have names of their own for what every module has
(`QuerySpec`, `SetupTypeOK`), so that one module can extend the three.

* `QueryIsComplete`, `QueryTypeCorrect`. The invariant counts rows by chunks
  (`Collecting`): while chunk `link` is still to come at most the rows of the chunks
  before it have arrived, and exactly those from a faithful server.
  `QueryIsComplete` holds when the manifest counts the rows or the links are right;
  with neither, the code cannot know, and says so.
* `GreenIsEarned`, `TypeCorrect`, for any numbers of executions and retries and any
  deadline. The task turns green long after its execution's status was read from a
  list that lags. The invariant follows the verdict back: the list shows an end only
  of what has ended, an end is final, and a verdict was read in the line of the
  attempt's own execution. It is about the execution's status and not about files.
* `CompleteIsReady`, `RerunsAreIdle`, `SetupTypeCorrect`, for any lists of roles,
  schemas and owners, any subset of them that an earlier version set up, and any
  number of deaths. The invariant says at each place in the loops what the statements
  before it have done (`AccountsDone`, `OwnersDone`, `UsageDone`, `DefaultsDone`), that
  it is still so, and that a table is open to the roles the run has passed
  (`ObjectsDone`): one that is created before a role's `GRANT ON ALL` is found by it,
  one created after the default privileges has them, and one created between the two
  has the role in its `gap`. Once complete, that stays so through every later run,
  also one that dies (`Settled`). `RerunsAreIdle` says of tables that a repeated run
  changes nothing on them but for the roles in a gap (`RerunKeepsTables`).
* `NoStatementIsRefused`: memberships come before what needs them, and a schema is
  there when its owner is set, so an admin that is not a superuser gets through too.
  The refusals that `Dies` allows for therefore never happen; they do when
  `grant_role_membership` is taken out, which is how `RepeatsRecover` can fail.

`IngestionProofs`, for any executions, pages, roles, tries and days:
`SourcesAreIsolated`, `FilesStayGood`, `PagesInOrder`, `DaysAreApart`, `TypeCorrect`.
Executions overlap on one landing zone, so an outcome is judged when other
executions have written since, and a file may be of a source that failed: its upload
was stored and the answer lost. The invariant says where an execution is in its list
of sources (`InOrder`), that its parts are counted without a hole (`Counted`: without
it a batch could be valid and empty), and that a source that ended well has left a
file, which nothing removes (`Landed`). A source's day is set once, when it begins,
and never again: `FilesStayGood` and `DaysAreApart` rest on that, long after the
upload and at the step of it.

`PipelineProofs`. In layers, each resting on those before:

* types, and that a run which began has a number (`TInv`);
* the lock's holder is the one build at work (`LockInv`): `OneBuildAtATime`;
* a waiting build is within the lock wait, and a build's age is at most that wait
  and its time with the lock (`TimeInv`): `NoBuildCutShort`;
* where a run and its build can be at once (`BuildsInStep`), and that no earlier
  build of the DAG is left when a run's build has the lock or is over
  (`OrderInv`): `NothingBuildsUnderPublish`, assuming that no worker dies while
  its build waits for the lock;
* what a mart was built from (`Recorded`, `BuiltFromIngest`): `GreenIsFresh`,
  assuming that runs build every model;
* which verdict a mart has while its build is under way and after
  (`Verdicts`): `TestsGatePublishing`, assuming besides that every mart has
  tests.

`MartBuildProofs`, in three parts.

* About the SQL, for every posting: `GeoFlagIsTrue`, the flag `is_geo_known` is true
  exactly if both coordinates are kept, though each of the three is computed by a
  CASE of its own over missing values; `BandsHaveNoGaps`, every amount after the
  cast to whole euros is in the band whose name it should have, though the bands
  leave a gap of one between them; `NoSalaryAgrees`, the four columns that tell of a
  missing salary agree; `OnlyReportedFails`, the views' tests fail for exactly one
  kind of posting (section 7); `CategoryFlagIsTrue` and `ContractTypeIsAccepted`.
  Each column that is computed twice by the SQL is translated twice.
* Of the extraction, for any jobs, batch size and bounds: `RowsAreTheirOwn`,
  `RowsAreKept`, `TypeCorrect`. The invariant (`RowsInv`) says where the model is in
  its list: `extracted` is as long as the batches answered so far (`InStep`), every
  entry is that of the job at its place or the default (`Matched`), and no job that an
  incremental build collected has a row yet (`Rowless`). The last is true from
  `Collect` to `Merge` only because one build works at a time.
* Of a build: `MartsAlwaysAgree`, `BuildsKeepRows`, `BuildTypeCorrect`. While the marts
  are written the attributes stand still: a mart that is written is a function of
  the postings then and of `table` now (`FctIsOfTable`, `SkillsAreOfTable`), and a
  build that can end green has written both (`BothAreDue`). That the rows have
  titles comes from the test after the write, not from the views before it.
  `BuildsKeepRows` is what was proved of the extraction, for an extraction whose
  build may die under it (`BuildRows`).

`SessionProofs`, for any browsers, ids and addresses.

* `AddressesAreUnique`, `NobodyElsesAccount`, `TypeCorrect`. Types alone are not
  inductive: an answer that has succeeded must bring a user (`OkBringsUser`), or the
  page would show somebody who is none. `InsertAdds` and `UpdateKeeps` say what the
  index and the two statements do to the table; `BrowserStep` says that a browser
  which only holds what it held, or an account that it has the password of, keeps
  the invariant, and there is one lemma for each action.
* `PageIsFaithful`. Page and session are changed by different steps, so what is
  inductive is what the page is about to show: the answer to a login that waits
  (`EndsWell`), a logout that the server has done and the page has not
  (`HasLoggedOut`), a `/me` that is answered and will be shown (`FaithfulIn`).

`SavedJobsProofs`, for any users, jobs, clicks and sessions.

* `TokensGuardRows`: `Accepted` only compares numbers, so the invariant relates a
  number to a user: no token is of a session to come, and one of this session was
  issued to its user (`TokensArePast`).
* `CalmHeartsAreTrue`, of the calm surroundings of `MCSavedJobs`. A heart is a
  promise about a row. While its click is under way the heart is what it is to
  become, and the row is what it was until the request is served (`HeartInStep`);
  the list that a load brings is what the rows still are when it arrives
  (`LoadInStep`). That holds while the page is that of the session's user
  (`InForce`), and only because click, load, login and logout of one page never
  overlap in these surroundings (`Waits`, `CalmAuth`, `Emptied`); where they do, hearts
  can be wrong. A change of the page makes a load overlap with the clicks it leaves
  behind, so every promise is made for the other hearts alone (`LeftBehind`). The
  theorem is of `SiteSpec`, which begins with any rows.
* `TypeCorrect`.

`JobFeedProofs`, for any jobs, times, tables, page size and number of requests at once.

* Lemmas about the operators: `FindJobsIs`, `PageRanks` (without ties, page p is the
  stretch of ranks from p * PageSize, a job's rank being the number of newer ones),
  `PagesReach` (`ceil` as the code computes it covers the count), `FreshIs` (what is
  left of a page is in its order, and all that was not listed), `AddRanks` (a
  stretch of ranks, added to the first ranks that reach up to it, gives the first
  ranks).
* `NeverListedTwice` rests on no assumption about ties or publishes: neither a list
  nor a page has a job twice, and `Fresh` leaves out what is listed.
* `ListedNewestFirst`. "In order" is not inductive; that the list is the first ranks
  without a gap is (`Ranked`), once it is known that the list reaches up to every
  page that may still be added: those under way, those of the handlers on the page
  and the next (`Reach`).
* `TypeCorrect`.

The assumptions of `PipelineProofs` are the point of its theorems: they are what
the code needs from its operators and its dbt files, and each is needed (section
7).

Only model-checked: liveness under fairness and the steps that talk about
ENABLED, which the prover cannot do. Induction over data is out of its reach as
well; nothing here needs it, since loops over lists are places in them (`DbSetup`,
`Publish`) or sets still to do (`Pipeline`), and orders are counted (`JobFeed`),
without recursion.

## 7. Where code and documents disagree

Shown by a run:

* `pipeline_untested`: `data/dbt/models/marts/_fct_postings_skills.yml:4` attaches
  its tests to `fct_posting_skills`; the model is `fct_postings_skills`. The mart
  has no tests and is published unchecked.
* `ingestion_busy`: `fetch_raw` promises "Non-2xx raises", but a page answered
  with 429 or 5xx on every try returns no records and passes for the last page: a
  short batch replaces the day's file.

Met while modelling, and seen in TLC with other constants or a formula of one
line, but kept out of the runs:

* A run whose conf selects a part of the models publishes the other marts as an
  earlier build left them, failed tests included (`Selections` with a proper
  subset violates `OnlyTestedIsPublished`).
* A worker that dies while its `flock` waits leaves a build that may start under
  the next run's publish (`Deaths` with `"wait"` violates `NoBuildUnderPublish`
  and `OnlyTestedIsPublished`).
* An attempt of `ingest` that times out leaves its container running; the retry
  may be green while the first still writes (`aca.py:254-256` gives the opposite
  as the point of waiting).
* "Copy allowlisted marts [...] atomically" (`pipeline_dag.py:450`) holds for each
  mart, not for the list: a failure between two commits leaves two builds side by
  side.
* A permanent HTTP error is retried (`ingest.py:79` says it is not), since
  `HTTPError` is a `RequestException`.
* A page of jobs that is opened while a save is under way may read the list before the
  save is done and show an empty heart for a saved job until the next load
  (`saved-jobs-provider.tsx:21-45`, mounted per page in `job-results.tsx:24`): without
  its `LeftBehind`, `HeartsTellTheTruth` is violated in the calm surroundings.
* "Each source is isolated", but an upload that is stored while its answer is lost makes
  its source fail with the day's file replaced (`storage.py:68`).
* A container whose sources both fail exits with status 0, and JobSpy lands
  records as validation left them, not as they were sent (`data/README.md:526-533`).
* The search is documented to cover skills (`JobController.java:31`); `findJobs`
  looks at title, description and company.
* A publish between the two statements of `findJobs` can give an empty list with a
  count above zero: `page.tsx` shows the feed, and the details pane has no job,
  which `job-results.tsx:17` takes for impossible.
* Jobs of the same `created` have no order: one can be missing from every page.
  `NewestFirst` excludes such tables.
* An account made by `POST /api/users` has no password: nobody can log in to it,
  and its address cannot be registered.
* A late answer to `/me` sets the user back after a login
  (`current-user-provider.tsx:24`); the session stays.
* Invalid flags in a run's conf raise inside the `try` that is meant for a missing
  context (`pipeline_dag.py:156`), so the Variable's flags are used instead.
* `int_postings_salary.sql:108` says `Reported` of a salary nobody tells the origin
  of; `_int_postings_salary.yml:60-65` does not accept the word. One JobSpy posting
  with a plausible yearly salary makes the build red, skips `fct_postings` and so
  blocks publishing until it is gone (`OnlyReportedFails`; the posting `JobSpy` of
  `mart_build`).
* A JobSpy posting without a description fails a `not_null` of `stg_postings`
  (`_stg_postings.yml:45-48`) and stops every model after it; a posting whose title
  the cleaning removes fails that of the mart.
* `_int_postings_coordinates.yml:52-56` has both coordinates empty when the flag is
  false; half a coordinate is kept, with `is_geo_known` false.
* `data/docs/ingestion_doc.md:111,131` and `data/docs/team_b_doc.md:197` promise
  fallbacks for what the gateway or a title lacks; bad JSON and a time-out raise and fail the model, with
  the batches that were answered before, and go on failing it while that posting
  is asked about.
* A full refresh whose first batch is refused leaves an empty table, and a posting
  that an answer left out has the default attributes for good: it has a row.
* A posting that lands between the views' tests and the writing of `fct_postings` is
  in a green mart untested, except for the mart's own tests; a posting that leaves
  between the two writes is in one mart only.
* "A failed run can simply be repeated" (`db-setup.py`): the new password of a role
  dies with the run that made it, and only a confirmed reset makes another.
* A table created between the `GRANT ON ALL` and the `ALTER DEFAULT PRIVILEGES` of a
  role in the first run has neither, and the role cannot read it until the table is
  created again or the script is run again.
* The list of saved jobs is a join with the mart: a job that a publish drops is
  saved and not shown.

## 8. What is not modelled

Left out: alerting, the sample loader and the optional examples (input
and output without state of their own); CI and deployment (their logic belongs to
the CI service); pages and styles, API documentation and error bodies (wording
and layout); the user profile tables (no code reads or writes them); the search
boxes (section 2); the saved-jobs page (one list, loaded once). Within
modelled components: type mapping and DSN building in `sync.py`, credential
choice in `warehouse.py`, field coercions in ingestion, the log query and its
line filter in `aca.py`, secrets and extra flags in the DAGs (except the part of
the models they select), `saved_at` in `saved_jobs`; in `Session` the validation of what is typed, tabs that
share a cookie, a reload while a form is under way and the profile page; in
`JobFeed` the filter, which is fixed (a search makes another feed, but the "Jobs" link
of `site-header.tsx:7` changes the filter under a feed that keeps its list, since the
feed has no key, `page.tsx:56`), and the details pane; in `MartBuild` the
tests of `fct_postings` other than that it is not empty and has titles (fewer builds
are red without them, so what holds of the green ones is said of more builds; for
`PostingsReachTheMart` the postings are taken to pass them); in `Extraction` the
prompt and the coercion of single fields; in `Transforms` the province dictionary
of `int_postings_locations`, the expressions that clean titles and companies and
the deduplication by `ROW_NUMBER` in the staging models; in `DbSetup` the
generated password itself, sequences and functions beside tables, and a role that
the lists no longer name or a schema that changes its owner, whose old grants the
script leaves.
