# Trend Researcher: models, checks and proofs

TLA+ models of the parts of Trend Researcher whose correctness depends on what
happens *between* steps: the persistence of the embedded database, the ingestion of
crawled topics, the assessment jobs, the routes over departments, users, tokens,
sources and net views, and the schema migrations. TLC checks small instances; TLAPS
proves the main invariants and three refinements for every instance.

## 1. The system

One container runs uvicorn (FastAPI, asyncio) next to an embedded PostgreSQL. The
database survives the container only as a dump on a mounted volume. Crawls run in
the API process (three routes) or in a CLI container; assessments run as asyncio
tasks of the API process or inside a request. All of them share the database and
open a session per step; nothing else synchronises them.

| Component | State it keeps | Operations | What is hard | What makes it correct |
|---|---|---|---|---|
| **Dump persistence** (`middleware/dump_debouncer.py`, `scripts/pg-dump-rotate.sh`, `docker-entrypoint.sh`) | the pending debounce task, running scripts, a lock file, `DUMP_FILE`, `.prev`, `.tmp` | schedule, dump and rotate, restore on boot, clean up on SIGTERM | overlapping scripts, crashes between renames, a shutdown during a dump, restores that fail | dumps complete and ordered; a dumped write is never lost; shutdown ends |
| **Crawl ingestion** (`orchestrator.py`, the repositories, `dedup.py`; clean-up in `routes/topics.py`) | `topics`, `topic_sources`, `crawl_runs`; per run: the topics it touched | fetch, search, insert/update/skip, record the run; clean up | search and write are two transactions; runs overlap each other and clean-ups; a run may fail anywhere | no duplicate stories; counters and rows agree; time moves forward |
| **Assessment** (`routes/assessment.py`, `pipeline.py`, `postgres_rag.py`) | `assessment_jobs`, `business_cases`; per worker: its list and counters | post, run, retry, fall back, insert, report, finish; single assessment | topics deleted under a job, jobs over the same topics, database failures at each step, process death | a completed job covers what it picked; counters agree with results; jobs end |
| **Departments, memberships, frameworks, users** (`routes/departments.py`, `frameworks.py`, `users.py`, `dependencies.py`) | departments, members with roles, enabled frameworks, accounts | create, rename, delete; add, change, remove members; choose frameworks; create, deactivate users | last-lead check and removal in separate statements; creation in two commits; replacement of the enabled set next to it | a department keeps a lead and one default framework; a superadmin remains |
| **Sessions and tokens** (`auth/`, `routes/auth.py`, `middleware/pat_auth.py`, `routes/department_pats.py`, `routes/internal.py`) | signed cookies (nothing stored), hashed tokens with their revocation | log in; mint, revoke; the scheduler's crawl calls | revocation and deletion next to calls under way; a slug that a successor takes over | a token crawls for its department; a revoked one starts nothing |
| **Sources and subscriptions** (`routes/crawl_config.py`, `department_sources.py`, crawler `composition.py`; readers in `topics.py`, `dashboard.py`, `postgres_rag.py`) | source catalogue with owners, subscriptions by name | create, update, delete; subscribe; choose a crawl's sources | four copies of one predicate; subscriptions outlive sources; two SELECTs of a crawl | crawled = shown; assessed = shown |
| **Harmonization** (`routes/harmonization.py`) | one net view per topic | upsert, delete, read | select, then insert or update; topics deleted in between | a PUT is stored and answered 200, or leaves nothing |
| **Migrations and start-up** (`alembic/`, `core/seed.py`, `auth/seed.py`) | the schema version and every row | upgrade, downgrade, seed | data moved by 0007 to 0023; refusals and crashes in the middle; downgraded rows | nothing lost; the API serves only what it can |
| AI configuration (`routes/ai_config.py`) | one row per department | read, upsert | changes during a job | – |
| Framework prompts and parsing, adapters, operator scripts, SPA, read-only routes | – | – | – | – |

Interactions: every successful mutating response goes through the dump debouncer; a
job's and a failed crawl's commits do not. Crawls create the topics that jobs select;
clean-ups delete topics under both, and net views with them. A department is the
foreign key of memberships, frameworks, tokens, subscriptions, cases and sources: some
go with it, a source it owns refuses. `ai_config` decides the model of the next job. A
restart loses every asyncio task and, if the dump is older, rows; it restores a
database of any earlier version and migrates it.

## 2. Modules

| Module | Models | Composed in |
|---|---|---|
| `DurableStore` | abstract: a store that serves writes and keeps a growing checkpoint | refined by `DumpPersistence` |
| `DumpPersistence` | debouncer, script, entrypoint, and the crash of the container | `MCContainer` |
| `CrawlIngest` | `run_once` over the repositories, clean-up routes | `MCCrawlIngest` |
| `JobBoard` | abstract: what a client polling a job may rely on | refined by `AssessmentJobs` |
| `AssessmentJobs` | jobs, single requests, `assess_topic` | `MCAssessmentJobs` |
| `Directory` | users, departments, memberships, enabled frameworks | `Access`, `Catalogue`; refined by `Tenancy` |
| `Access` | cookies, tokens, internal crawl calls | `Tenancy` |
| `Catalogue` | sources, subscriptions, a crawl's choice, the readers of both | `Harmonization` |
| `Harmonization` | the net view of a topic | `Tenancy` |
| `Tenancy` | the four together, with the cascades between them | `MCPlatform` |
| `Migrations` | upgrades, seeding, downgrades of a restored database | `MCContainer` |

Each `*Proofs` module holds the theorems of the module it names (`TenancyProofs` also
those of `Access`, `CatalogueProofs` also those of `Harmonization`); `SchemaProofs` goes
on from `MigrationsProofs`. `MCCrawlIngest`, `MCAssessmentJobs`, `MCPlatform` and
`MCContainer` give the constants their values and say which behaviours a run has.

### DumpPersistence

The database is the set `db` of committed writes (a deletion is a write); a dump is
the set of writes its snapshot saw, so "lost" and "older" are set inclusions.

* *Boot.* `StartContainer`, `RestoreLatest`, `LatestUnusable`, `RestorePrevious`,
  `StartWithoutRestore` are the chain of `docker-entrypoint.sh`. `pg_restore
  --clean --single-transaction` replaces the content or leaves it. `PG_DATA` may
  survive (`"pgdata_kept"`): then there is content before the restore.
* *Requests.* `Commit` is a handler's commit, `Respond` the middleware after a
  2xx/3xx, `CommitUnscheduled` a commit that no such response follows,
  `RespondIdle` a mutating request that adds nothing.
* *Debouncer.* `Schedule` cancels and restarts the task. Cancelling a task that is
  launching its script may kill it; one that waits for its script leaves the
  script running. `Tick` and `Elapse` are the sleep, in `Window` ticks.
* *Script.* `TakeLock`, `Skip`, `Snapshot`, `Verified`, `CopyBegins`, `CopyEnds`,
  `RotateOld`, `Promote`, and `ScriptFails` at any command (`set -e`). A child of a
  killed script keeps descriptor 9, hence the lock: step `"orphan"`.
* *Shutdown.* `SigTerm`, `ApiExits` (requests drained, scripts of the API may die
  with it), the final dump as script `Final`, `StopPostgres`, `Exit`. `Crash` takes
  the container away at any instant, without the trap.

### CrawlIngest

A topic is named by its `first_seen_at`, an observation by the fetch that made it
(`observed_at` is read once per fetch). `Similar` is `is_duplicate`: any symmetric
relation, neither reflexive nor transitive, as `token_set_ratio` is neither (a title
that normalises to the empty key is like none, itself included). `Windows` are the
answers `find_candidates` may give, `Matches` the candidate the loop stops at. `Find`
and the write that follows (`SkipWithinRun`, `Update`, `Insert`) are separate steps, as
the repository opens a session for each. `update_existing` on a topic deleted
meanwhile: the foreign key fails, the retry's `UPDATE` meets no row, the run counts an
update. The source-filtered clean-up is three steps (`SweepSource`, `ScanOrphans`,
`DeleteOrphans`): under READ COMMITTED each statement has its own snapshot, and a
`DELETE ... WHERE id IN (subquery)` waits for locked rows without evaluating the
subquery again. Their effects show as soon as they are made, so a run may see the
sweep half done: more behaviours than the one transaction has, not fewer. `setting` says what
may happen in a behaviour: the sources that are enabled, what a fetch may return, and
whether runs overlap, repository calls fail and the clean-up routes are used.

### AssessmentJobs

A worker is one `_run_job` or one `assess_single`; `pc` and `task` are its position
and local variables, `row` and `errors` what the table shows. Each database call
of the code is one step. `Replies` are what a model call can end in; `Accepted`
says which of them `_call_and_parse` takes: the verdict framework (`Lenient`) turns
garbage into a stub, and the stub satisfies its own schema. `Fallback` is the
branch after the retry, and `Storable` says what it can store: a reply that parses to
something other than an object ends in an error, as `structured.get` raises.
`InsertRefused` is the foreign key (topic deleted) or the
unique key (same topic, framework, prompt version, model). `Raise` and
`AssessRaises` are failing database calls outside and inside the per-topic handler.
`Crash` loses every task. The model a provider reports is taken to be the one
configured, and the topics are those of the department's subscribed sources.

### Directory

A request is admitted in one step (`Ask...`: the SELECTs of its dependencies and of the
row it is about), may count in a second (`Count`), and commits in a last one (`Add`,
`Change`, `CreateUser`, `Deactivate`, `CreateDept` and `Enable`, `Drop`, `Replace`);
with `"overlap"` in `scope` other requests run between them. A handler keeps what it
read and acts on it: `seen` is the role the membership had. The caller is not kept, as
no handler looks at it again. `CreateDept` and `Enable` are the two commits of
`create_department`. The DELETE and the INSERTs of `PUT /frameworks/mine` are one
transaction: rows committed after its DELETE make the INSERTs meet the partial unique
index on the default, hence `Doom`. `Restart` loses the requests and runs
`ensure_seed_user`. A department id is created once, with a fixed slug; a successor of
a deleted department is another id with the same slug.

### Access

A cookie is a user and a date; `cookies` are the users for whom an unexpired one
exists, and nothing but `Expire` ends it. A token request is admitted and committed in
two steps. A crawl call passes `Guard` (AuthMiddleware), `RequirePat` or
`RequireDeptPat`, and `Resolve` (the slug looked up again), each with its own read of
the database; `stale` records that the token was unusable from the start. With
`"nopat"` in `scope` the installation has no `TREND_INTERNAL_PAT` (503).

### Catalogue

One topic stands for any, as every predicate looks at one of them; it exists while some
source has an observation of it. `Page`, `Shown` and `Unassessed` are the predicates of
`department_sources.py`, of `topics.py` and `dashboard.py`, and of `postgres_rag.py`. A
crawl reads the catalogue (`ReadCatalogue`), then the subscriptions
(`ReadSubscriptions`); a failed read or an empty catalogue ends in `FallBack`. A PUT
may set a feed address, leave it, or take it away with an empty string, after which no
crawl builds the source (`Buildable`).

### Harmonization and Tenancy

`AskPut` is the SELECTs of `put_harmonization`, `InsertView` or `UpdateView` its write,
`Reload` the answer. `UpdateView` always fails: the statement binds a `str` where
asyncpg wants a `datetime`. Each author PUTs once; one whose process ended was never
answered (status 0). `Tenancy` joins the modules: `DropDept` is a deletion with
the cascades and refusals of all tables, a step that deletes the topic takes its net
view (`LoseView`), `Crash` ends all requests.

### Migrations

A database is a record of the rows that migrations move or check; what its version has
no column for is `Null`, false or empty. `Begin`, `Migrate` (the next revision), `Raise`,
`CommitUpgrade` are `alembic upgrade head`, one transaction for all revisions (`env.py`
leaves `transaction_per_migration` off); `SeedUser` and `SeedFrameworks` are the lifespan;
`Serve` and its users are the API at the head version, which makes the rows that a later
`Downgrade` finds; `End` stops the container anywhere. A user has the departments they
lead (`leads`), those where they are a viewer or analyst (`joins`), and `active`.
`SeedUser` does what `ensure_seed_user` does: it promotes an account that is there, and
neither reactivates it nor changes a role it has in Default. `stage` is where the container is:
down, upgrading, seeding or serving. `Up7` to `Up23` and `Down16` to `Down23` are the
scripts.

`Schema` is what a database of each version satisfies: nothing where there is no column
(`Absent`), foreign keys and NOT NULL (`Referenced`), unique keys (`Keyed`), and what the
API keeps without a constraint (`Kept19`, `Kept21`). `FoundAssumption` says that whatever
is restored satisfies it, as some version of the system left it. A department without
any framework (`CutShort`) is one whose creation a crash cut short (`Directory`); the
model has it in restored databases alone, as `AddDept` is both commits.

## 3. Runs

| Run | Checks | Bounds and faults |
|---|---|---|
| `Container` | `TypeOK`, `OneDumpAtATime`, `NoPartialDumpVisible`, `DumpsOrdered`, `NoDumpedWriteLost`, `FinalDumpCapturesAll`, `DumpNeverVanishes`, `ImplementsStore`, `CalmWritesDumped`, `ShutdownEnds`; `MigTypeOK`, `CheckedAhead`, `ServesReady`, `UpgradeKeeps` | 2 writes, 2 API scripts and the final one; environment `rough` (all faults but `restore_fails`), `calm` (none) or `upgrade` (six restored databases) |
| `Crawl` | `TypeOK`, `CountIsRuns`, `RunRowsBalance`, `SequentialNoDuplicates`, `SequentialLastSeenAdvances`, `StoredClaims`, `StoredObservations` | 2 runs, 3 titles; settings of `MCSettings`: overlap, failures and clean-ups over one source; one run at a time over two sources, with clean-ups; overlap and failures without clean-ups, every feed of up to two items |
| `AssessConcurrent` | `TypeOK`, `CompletedCovers`, `CountersMatchResults`, `ImplementsBoard` | 2 jobs, 2 topics, strict framework, all faults |
| `AssessLive` | `CompletedCovers`, `JobsEnd` | 1 job, 1 request, 2 topics, a lenient and a strict framework, database failures and deletions |
| `Platform` | `DirTypeOK`, `OneDefault`, `LeadKept`, `AdminRemains`; `AccTypeOK`, `CrawlRunsAsToken`, `StaleTokenRefused`; `CatTypeOK`, `CrawlMatchesPage`, `CrawledAreShown`; `HarmTypeOK`, `FailedPutsLeaveNothing` | `MCScopes`, see below |

What the `Platform` run shows: foreign keys keep every row with the rows it needs, whatever
requests overlap and wherever the process ends; a department with frameworks has one
default; leads and superadmins remain as long as requests come one at a time; a token
crawls for its own department and not after it was revoked; a crawl fetches what the
page shows, and what it brings in is on the department's list; a PUT answered with an
error stores nothing. What the `Container` run shows of upgrades: a restored database of `MCFound`
reaches the head with everything it had; whatever is stored or under way fits its
version, after downgrades too; and what the API serves is ready, though a boot may have
ended between the upgrade and the two seedings and the next goes on from there. That an
upgrade shows nothing before it commits is how the model reads `env.py`, not a result.

Why the bounds are enough. Two scripts of the API and the final one give every overlap
the lock has to exclude: a holder, one that skips, and an orphan; two writes separate
the previous dump, the latest dump and the database (nothing, one, both). Two crawl
runs, three titles of which `a`–`b` and `b`–`c` are similar and `a`–`c` are not, and feeds
of one or two items give a repeat in a feed, a repeat across runs and a chain of
similarities. Two jobs and two topics give two selections that overlap, one that is cut
by the limit and one that shrinks by a deletion.

`Platform` starts with the head schema, three accounts (the seeded superadmin, one more,
one still to be made), two departments and a third id `d3` with the slug of `d2` (a
successor), two requests of `Directory` and two of `Catalogue`, one token, one crawl
call, two PUTs, two sources of which one is built in. Two requests are enough for each
race in the code, all of which are between a read and a write of one request and one
other commit. `scope` says which routes a behaviour uses, as all of them at once have
too many states (13 groups, `MCScopes`): members, users, departments, frameworks, tokens,
sources, crawls,
topics and net views alone or with those whose rows theirs refer to, each overlapping
where the code has more than one step, with crashes where a commit is followed by
another. `LeadKept`, `AdminRemains`, `CrawlMatchesPage` and `CrawledAreShown` are about
scopes without `"overlap"`, where requests come one at a time in any order.

The three environments of `Container` never meet in a behaviour: dumps see the database
as a set of writes, upgrades see its rows. Environment `upgrade` has two departments to
create, two cases, two sources, three frameworks, and the six databases of `MCFound`:
new; one clean; one whose seed account needs normalising and whose topic was assessed
under two prompts; names that collide; cases that collide; and one of the head version
whose cases differ by their framework alone, whose second department was cut short and
whose seed account is a deactivated viewer.
They reach each refusal and each branch of the scripts that the data decides.

Symmetry is used for topics and jobs (`AssessConcurrent`) and for the catalogue requests
(`Platform`), which nothing tells apart; never in a run with a liveness property.
`CHECK_DEADLOCK FALSE` is set for all but `Container`: a bounded number of runs, jobs and
requests ends, and so does the behaviour. `Container` checks deadlock: the container can
always be started again.

**Fairness.** Weak fairness on what runs by itself once it can: timers of the event
loop, the answer to a request under way, the commands of a script, the steps of
`cleanup()`, the tasks of the event loop and their model calls (the HTTP clients have
a timeout). Never on clients, operators, signals or failures. `Platform` has no fairness
and no liveness property: what its requests do ends with the client's answer.

### What the sources say and the code does not do

Seven runs are expected to end in a violation; each quotes the sentence in its
property's comment.

* `DumpInFlight`: the script skips when a dump is under way because "the in-flight
  dump covers them" (`pg-dump-rotate.sh:20-21`). The dump's snapshot may precede the
  write, and nothing else schedules a dump for it.
* `CrawlDuplicates`: re-crawls "never duplicate" (`docs/ARCHITECTURE.md:96`). Two
  overlapping runs both miss and both insert.
* `AssessStuck`: the SPA polls until the job is completed (`docs/ARCHITECTURE.md:222`).
  A job in flight when the process ends stays pending or running for ever.
* `AssessAgain`: `POST /api/assess/{topic_id}` will "(Re-)assess a single topic"
  (`README.md:164`). With an unchanged configuration the unique key refuses it.
* `ScheduledCrawl`: the guard exempts "login/logout/healthz/internal"
  (`docs/ARCHITECTURE.md:142`). `AuthMiddleware` does not exempt `internal`: a scheduler
  with the token and no cookie is answered 401.
* `OwnedUnassessed`: owners "are implicitly subscribed" (`department_sources.py:7-9`). The
  query for unassessed topics has no ownership branch: topics of owned sources are
  shown and never picked by a job.
* `NetView`: "Last-write-wins semantics" (`harmonization.py:149`). The `UPDATE` binds
  `isoformat()` to a timestamp, which asyncpg refuses: every second PUT fails.

Other divergences met while modelling, which follow from the actions named and have
no run of their own.

*Dumps.* The final dump is skipped, not repeated, when the lock is held (`Skip` as
`Final`, against `docker-entrypoint.sh:160`); requests less than a window apart postpone
the dump for ever (`Schedule`, against `:161`); a dump that fails is not repeated until
some later write schedules one (`ScriptFails`).

*Crawls.* An item is committed on its own, not with its source's batch (`Insert`,
against `docs/ARCHITECTURE.md:190`); `observation_count` is not lowered by a clean-up
(`SweepSource`, against `schemas.py:88`); an observation of a topic deleted since the
search is lost (`Update`, against `sqlalchemy_topic_repository.py:136-138`). A
department's crawl whose read fails, or meets an empty catalogue, fetches the whole
hard-coded list (`FallBack`), though it "must not silently fan out"
(`composition.py:156-157`).

*Assessments.* An unparsable first answer of the verdict framework is stored without the
retry of `pipeline.py:137` (`Accepted`).

*Departments and users.* Two requests that remove or demote the last two leads at the
same time leave none (`Count`, `Change`; `departments.py:372-376`), and two superadmins
that deactivate each other at the same time leave none (`Deactivate`). A restart creates
or promotes the seed account, which ends that unless the seed account is itself
deactivated: `ensure_seed_user` is "ensuring superadmin + dept" (`auth/seed.py:25`) of an
account it finds and sets neither `is_active` nor the role the account has in Default,
viewer or not (`SeedUser`).
A superadmin with a membership of their own is held to its role by `require_role`
(`ActiveRole`). A membership refused by the department's foreign key is answered
"already a member" (`Add`). Deleting a department that owns a source ends in an
unhandled error (`MayDrop`). A cookie survives a new password: nothing but its date
ends it (`Expire`).

*Net views.* Of two first PUTs at the same time the later meets the primary key and is
answered 500 (`InsertView`), against "Last-write-wins" (`harmonization.py:149`), "Upsert"
(`:162`) and "Concurrency: last-write-wins" (`models.py:832`).

*Sources and tokens.* A source that is deleted and created again under its name finds
the subscriptions of the old one (`Delete`, `Create`; `crawl_config.py:247`). After a
token is looked up its department may be deleted and another created with the slug:
the call then crawls for the successor (`Resolve`, `internal.py:127`).

*Migrations.* 0022 makes a department the owner of every source, and owners crawl what
they own: a source that was switched off before 0017 is crawled again (`Up22`, against
"preserves single-tenant behaviour post-upgrade", `0017_scope_existing_tables.py:23`). A downgrade below 0019 forgets the
framework of each case; cases of `swot` and `pestle` on one topic, both of prompt
`v1`, then make 0019 refuse the next upgrade (`Down19`, `Refuses19`). 0017's downgrade
inserts no default configuration where there was none (`Down17`, against its comment).

## 4. Proofs

Eight modules hold theorems for every value of the constants, from the named
assumptions in the modules they are about. Every invariant and action property that a
passing run checks is the conclusion of one of them.

*Dumps* (`DumpPersistenceProofs`). `CoreInv` adds to the invariants that who works holds
the lock, that `.tmp` is the copying script's whole snapshot from the end of `cp` to
the rename, and that the target name is free between the renames: it gives
`OneDumpAtATime`, `NoPartialDumpVisible` and, step by step, `DumpNeverVanishes`.
`FinalInv` adds that the database does not change from the final dump on, so that a
script which takes the lock late can only promote the same content: it gives
`FinalDumpCapturesAll` under every fault. `OrderInv` adds that each snapshot lies
between the restorable dump and the database: it gives `DumpsOrdered` and
`NoDumpedWriteLost`, and with them the refinement `PersistenceImplementsStore`:
`live <- db`, `stored <- Restorable`, `serving <- ` the container is up. `Promote` is a
checkpoint, `RotateOld` a stutter, every way down a stop. Where a theorem needs restores
that succeed it says `"restore_fails" \notin Faults`; the others cover that fault, which
no run has.

*Assessments* (`AssessmentJobsProofs`). `IndInv` relates the worker's locals to the row it
last wrote: todo and done topics partition the selection, what is done has a case or an
error entry unless deleted, and the row's counters lag by at most the topic about to be
reported. Proved from it: `TypeCorrect`, `CompletedJobsCover`, `CompletedJobsCount` and the
refinement `JobsImplementBoard`, where `SetTotal` is the board's `Resize` and `Report` its
`Advance`. `WorkersLessen` is what of `JobsEnd` needs no fairness: `Left` bounds the steps
a worker still has to make, every step of the worker lowers it and nothing raises it, so
that a job posted with a limit makes at most `6 * limit + 9` steps.

*Crawls* (`CrawlIngestProofs`). `TypeInv` says that what a run holds lies in the past;
`CountsRuns` is inductive with it, from the lemma that adding one run to those that
touched a topic adds one to their number; `RowsBalance` needs `Balance`: each fetched
item is counted or still to come. The next two are about behaviours without clean-ups.
`ClaimsAreStored`: a run has touched as many topics as it counted (`Counted`), and the
table has as many observations as runs have touched topics (`Kept`), each new one a new
row because a fetch has its time to itself (`Fetched`). `CountsObservations` is the other
half of `Kept`, topic by topic. The last two are about runs one at a time. `Alone` says
that no other run is active and that every topic the active one has not touched was last
seen before its fetch: it gives `SeenAdvances`. `Distinct` adds that nothing in the table
is similar to what a run is about to insert: it gives `AloneNoDuplicates`, with the
hypothesis `[]AllInWindow` that the topics are never more than `find_candidates` returns
(5000). That is the code's own limit and not the proof's: with more topics the match may
be outside the window, and the mutant of `Windows` shows the duplicate. The clean-ups,
failures and feeds may be any.

*Directory* (`DirectoryProofs`). `DirInv` types every row and request and says what a
request under way still relies on (`ReqOK`): a single default in what it will write, an
account that exists. `OneDefault` needs it for every overlap. `Alone` says that without
`"overlap"` one request is under way, so that what it counted is still so: `AdminInv` and
`LeadInv` follow, and with them `AdminAlwaysRemains` and `LeadIsKept`.

*Tenancy and Access* (`TenancyProofs`). `ImplementsDirectory`: with its cascades, refusals
and crashes, `Tenancy` is a `Directory`, so that every theorem about the directory is one
about the composition (`TenancyDefaultIsOne` and its like). `AccInv` says that the slugs of live departments differ, that live tokens
are of live departments, and that a call got where it is with a token that was good when
it was looked at.

*Catalogue and Harmonization* (`CatalogueProofs`). `CatInv` types the rows and requests
with what the foreign keys keep. `PageInv` says that, one at a time, what a crawl has
read is still so: it gives `CrawlsMatchPage` and, with the predicate of the list, which is
another one, `CrawlsAreShown`. `HarmInv` says that what is stored belongs to a PUT that
has committed it and not failed since: it gives `FailuresLeaveNothing`.

*Migrations* (`MigrationsProofs`, `SchemaProofs`), from `FoundAssumption`. `MigInv` says what
an upgrade under way has kept of what it found (`KeptSo`), revision by revision: one
lemma for each script. A database that 0017 let through stays one that 0019 accepts
(`ToldApart`, `StillApart`). The theorems are `RefusalsAreEarly` and `UpgradesKeep`.

`SchemaProofs` takes `Schema` apart into one predicate for each table (`Fits`, equivalent
by `SchemaFits`), and shows for each script which tables it rewrites and that what it
makes fits the next version (`Fit7` to `Fit23`, `MigratedFits`), for each downgrade that
it fits the version before (`Unfit16` to `Unfit23`, `DowngradedFits`), and for each request
and seeding that it fits the head. `BootInv` carries that through the stages, with the
seed administrator from `SeedUser` on and the code's prompts from `SeedFrameworks` on.
`BarredOnly` says that the seed account is deactivated only where a restored database had
it so: scripts, seedings and the API's requests in the model keep `active`, and
`Deactivate` with its restarts is `Directory`'s. The
theorems are `SchemaAlwaysFits` (`MigTypeOK`) and `ServingIsReady` (`ServesReady`), for any
restored databases, departments, frameworks, names and rows. What makes them more than
type correctness: 0019 and 0021 add unique keys over rows that are already there, and
only their pre-checks (`Refuses19`, `Refuses21`) and the downgrades before them decide
whether those hold.

*Only model-checked.* Liveness under fairness (`CalmWritesDumped`, `ShutdownEnds`, `JobsEnd`)
is out of the prover's reach, and so are induction over data and recursion, of which
the models have none.

## 5. Not modelled, and the plan

Left out for good: prompts and wording, HTTP and feed parsing, operator scripts, the
SPA, and of the read-only routes all but the predicates that `Catalogue` has. External
and assumed: PostgreSQL's transactions and constraints, `flock`, atomic `mv` on the
mounted volume, and a `pg_dump` that is a snapshot.

Order of the work that remains, most important first:

1. `DumpPersistence` with `AssessmentJobs`: what a restart from a dump does to jobs and
   cases.
2. Assessment: the CLI's `assess_batch`, several departments over the same topics, and
   `ai_config`'s concurrent PUTs, which merge fields of both.
3. Framework parsing as operators: what `parse_output` and the schema accept.
4. Proofs: that a single `DumpPersistence` write set and the database of `Migrations` are
   two views of one container.
