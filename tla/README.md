# Dagobert: specifications, model checks and proofs

Dagobert is a web application for incident responders: one Go binary, one SQLite
database, one directory of files (`data/`), and a pool of goroutines that runs
analysis modules in the background. This directory holds TLA+ models of the parts of
it where steps of several actors meet, the configurations that check them with TLC,
and proofs of the most important results for every size of the system.

* Models: `JobQueue`, `JobLifecycle`, `EvidenceStore`, `AutomationRules`, `ReferenceCache`,
  `CaseArchive`, `AccessControl`, `TimesketchClient`, `CaseRecords`, `CaseLifecycle`, `SchemaUpdate`
* Proofs: `JobQueueProofs`, `AccessControlProofs`, `EvidenceStoreProofs`, `SchemaUpdateProofs`,
  `AutomationRulesProofs`, `CaseArchiveProofs`, `CaseLifecycleProofs` (with `CaseRecords`), `SharedStateProofs`
  (about `ReferenceCache` and `TimesketchClient`)
* Instances for TLC: `MC*.tla` and the `.cfg` files

`PROJECT.json` maps every definition of a model to the lines it stands for and lists the
runs, the hazards and the theorems. Paths below are relative to `src/`.

    tlc -workers 2 -config JobQueue.cfg MCJobQueue
    tlapm JobQueueProofs.tla


## 1. The system

### Components

| Component | State | Operations | What is hard |
|---|---|---|---|
| **Job queue and runner pool** `internal/modules/runner.go`, `internal/model/modules.go` | `jobs` table; per goroutine the popped job; validated modules | PushJob, PopJob, AckJob, RescheduleStaleJobs; Start, runner, Validate | N runners and any number of requests on one table; crash with jobs Running; shutdown that nobody waits for |
| **Evidence store** `internal/handler/evidences.go`, `internal/model/evidences.go`, `internal/modules/utils` | `evidences` and `evidence_logs` tables, `data/evidences/<case>/` | save (create, upload, edit, rename, attach, adopt), import, delete, purge log, add from file system | two stores, no common transaction; read-check-write across requests |
| **Automation rules** `internal/modules/automation-rules.go` | `hooks` table, compiled rules in memory | save and delete a rule, load, trigger, schedule | the copy in memory is replaced by overlapping loads; jobs carry copies of objects |
| **Indicator lookups** `internal/modules/{virustotal,abuseipdb,hybridanalysis,webhook}` | `enrichments` table | Supports, Run, SetEnrichment | answers arrive late; TLP guard |
| **Reference-data caches** `internal/model/{value-lists,custom}.go` | one slice and one mutex per table | List (fill), Save, Delete (drop) | fill racing a write |
| **Case archive** `internal/handler/archive.go`, `internal/model/archive.go` | staged uploads under `tmp/`, most tables | export, preview, commit by token, fork | two-phase upload, tables before files, shared size budget |
| **Access control** `internal/auth`, `internal/model/{acl,users}.go`, `internal/handler/settings-users.go`, `internal/cli` | casbin's copy of the rules in memory, `policies` table, `users` table | login, password, save and delete user, roles, permissions of a user or a case, create-user from the command line | a row, its rules and the copy are changed in several statements; the copy has no lock; rows are read, changed and saved whole |
| **API keys** `internal/auth/apikey.go`, `internal/model/api-keys.go` | `api_keys` table | mint, edit, look up, delete | an edit writes back the row it has read |
| **Case lifecycle** `internal/handler/{cases,settings-case-templates}.go`, `internal/model/cases.go` | `cases` table, templates | save, close, import, clone template, promote, fork, delete | outstanding items counted before the save |
| **Malware samples** `internal/handler/malware.go`, `internal/model/malware.go` | `malware` table, one file per hash | save, upload, push, import, delete | file and row in separate steps; check, then insert |
| **Timesketch client** `pkg/timesketch`, `internal/modules/timesketch` | session cookie, CSRF token, one mutex | login, re-login, explore, upload, import | concurrent re-login, paging, repeated chunks |
| **Timeline, assets, indicators, tasks, notes, comments** `internal/handler/*`, `internal/model/*` | one table each | upsert, delete, CSV import, Timesketch import | get-or-create while an event is saved, orphaned comments, imports over edits |
| **Schema and MITRE updates** `internal/cli`, `internal/model/migrate.go`, `internal/modules/utils/zip.go` | `schema_migrations` row, ATT&CK files and their sentinel, rules of the modules | update, update --force; guards at start-up | interrupted and overlapping updates, builds that change |
| **Report templates, docx engine** `pkg/doct`, `internal/handler/reports.go` | none but files | render | sequential |
| **Web server, middlewares, validation** `internal/handler/init.go`, `middlewares.go`, `pkg/valid` | shutdown context | start, serve, shut down | start-up order |
| **Views, dashboard, MCP endpoint, helpers** | none | read-only queries, conversions | nothing shared |

### How they interact

* A **request** saves an object (case, evidence, indicator), then calls
  `TriggerOn...`, which evaluates the compiled **rules** and **pushes jobs**. A user can
  also push a job directly (`ScheduleModule`).
* A **runner** pops a job, loads its case and calls the module. Analysis modules write
  a file next to the evidence and call `AddFromFS`, which inserts **evidence**, and
  trigger rules again from inside the runner. Lookups write **enrichments**.
* **Deleting a case** removes its rows by foreign-key cascade, under running jobs and open
  requests; the directory is removed afterwards.
* Every page reads the **caches** of value lists and custom attributes, and asks **casbin** whether
  it may be shown. Saving a user or a case, forking and importing change casbin's rules.
* Importing from **Timesketch**, the case form and the upload module share one client, hence one session.
* Saving an **event** or a **sample** makes the assets and indicators it names; deleting one takes its
  comments along. Assets and tasks keep a **case** from being closed without a question.
* The shared state is the database (SQLite, one writer at a time: a statement or a transaction
  is one atomic step), the disk (each system call is a step), and the variables of the
  process, which a crash loses.

### What makes each component correct

* Queue: a job is worked on by one runner at a time; each is run to exactly one final result; a
  crash loses none; no job outlives its case.
* Evidence: the hash in a row is the hash of its file; the log (chain of custody) tells
  the present state of each row and every disappearance; no file belongs to two rows.
* Rules: what is in memory is what is enabled in the table; every rule that applies is
  scheduled, whatever happens to the others; red indicators stay inside.
* Caches: a copy never outlives the rows it was made of; nobody waits for ever.
* Archive: the rows of an import are there completely or not at all, and files only with them; an
  export that an edit overlaps can do no harm; a fork shares nothing with its source.
* Access control: casbin's copy and the table say the same, and both say what the user's row says; a
  replaced password and a deleted key are not accepted again.
* Timesketch: a request that is alone outlives an expired session; what arrives is whole; every call ends.
* Records: comments and enrichments have their objects; get-or-create creates once; what an
  analyst saved is what is there; a sample is found under its hash.
* Lifecycle: a case with outstanding items is closed only after the question was answered.
* Updates: the recorded version says which migrations were applied, each once; the server runs on those of its build;
  a complete update leaves what its build pins.


## 2. The models

### `JobQueue` (job queue and runner pool)

The table is `status`, `module`, `kase`, `rowid` over the ids that may ever be used, and
`cases`. A row that was never inserted is "Unused", a deleted one "Gone": ids are random
and never reused. The process is `phase` (down, booting, spawned: runners started,
serving: Start is done), `cancelled` (the SIGTERM context) and `avail`, the modules that
validated. The pool is `wpc`/`wjob`/`wres`, the local variables of `runner`. `req` is
the Case value a scheduler holds between GetCase and PushJob.

| Action | Code |
|---|---|
| ReadCase, PushJob, PushFails | `ScheduleModule` (handler.go:110-155), `triggerAutomationRules`, `PushJob` (modules.go:212) |
| CaseDelete | `DeleteCase` with the cascade on jobs |
| Boot, StartRunners, RescheduleStaleJobs, RescheduleFails | `Run` (init.go:96-100), `Start` (runner.go:63-101) |
| Cancel, Exit | shutdown (init.go:320-336), or a crash: nobody waits for the runners |
| PopJob, LoadCase, ModuleReturns, AckJob, AckFails, RunnerStops | one round of `runner` (runner.go:121-175) |

Two things the code does not show on its face are modelled as they are.
*Saving a job saves its Case association* (an insert that does nothing on conflict), so a
case deleted after `ReadCase` comes back with `PushJob`; that is why no job is ever without
a case. *Runners start before the recovery statement*: `EarlyTick` says whether the first
tick, one second after a runner starts, may come before `RescheduleStaleJobs` has run.

`JobLifecycle` is what a user of the queue may rely on: submitted, queued, active in one of
N slots, one final result; work may be lost and only a recovery requeues it; deleted jobs
stay deleted. `lifecycle` in `JobQueue` is the mapping: a Running row is "active" when
a runner holds it and "lost" otherwise.

### `EvidenceStore` (rows, files and log of one case)

`row`, `disk` and `told` are the three views of an evidence that must agree: the table,
the directory, and the row as it was when the log last spoke of it. A row keeps name,
kind (file-backed or not) and hash. A file's hash is its content. While a request is writing a
file, `disk` holds the request itself; if the writer stops, `Partial`. `req[r]` is the
local state of a request or module run with a program counter, one step per statement,
transaction or file operation.

| Steps | Code |
|---|---|
| SaveNew, SaveEdit, CheckName, OpenFile, CopyFile, CopyFails, StatTarget, RenameFile, Adopt, Commit | `EvidenceSave` and its helpers (evidences.go:199-458) |
| Import | one record of `EvidenceImport` (87-176) |
| DeleteRead, RemoveFile, DeleteRow | `EvidenceDelete` (540-570), `DeleteEvidence` (model/evidences.go:61) |
| PurgeLog | `EvidenceLogPurge` |
| DeleteCase, RemoveDir | `CaseDelete` |
| ModuleRun, OpenOutput, ToolWrites, ToolFails | `Run` of plaso, hayabusa, chainsaw, zircolite and dissect |
| HashOutput, AddFromFS, AddLog | `AddFromFS`: the output is hashed, its row inserted, then logged (modules/utils/utils.go:36-68) |
| AddBoth | plaso's two outputs: both rows and both entries in one transaction (plaso.go:114-135) |
| Fails, Crash | any step's error path; the process dies |

A module's output is a set of one file or, for plaso, two. `OpenOutput` truncates those the tool opens (dissect when it
rewrites what its tool has written); when a tool fails, any of the outputs may be removed, whatever it was before, and any may be left.
`Entered` are the names, `Typed` the hashes that a form or a CSV record may give.

The history variables name what a property excepts, and each exception is a
behaviour the code really has: `overlapped` (two requests were in flight at once),
`foreign` (a CSV record supplied the hash, or a tool replaced the file), `unlogged` (an
administrator purged the log, or a log entry's failure was ignored).

### `AutomationRules` (rules, triggers, lookups)

`hooks` is the table and `rules` the compiled copy. A loader (each administrator's request, and
`Start`) saves, lists, and stores: three steps, so that two loaders overlap. A rule's condition is
abstracted to `holds`, the kinds of object on which it is true. `Trigger` takes the
snapshot of the rules the loop runs over; `Push` and `PushFails` are one transaction per rule.
A job carries its copy of the object, `Send` looks at that copy, and `Finish` stores
the enrichment. `Restart` drops the copy and the requests; running jobs start again.
`alone`, `stale` and `late` are history: loads nobody disturbed, a copy from a disturbed or
failed load, indicators deleted while work on them was pending. `DeleteCase` drops the indicators and
jobs of the case; a running module goes on without its row, and enrichments stay, having no
foreign key. `indicators` are the rows that are there: `SaveAgain`, the upsert of a form opened before, may bring a deleted one
back, and triggers nothing. A job pushed after the deletion brings the case back, as in `JobQueue`.

### `ReferenceCache` (value lists, custom attributes)

A read locks, answers from the copy or queries and fills it, and unlocks; a write
changes the table without the mutex, then takes it to drop the copy. `Drop` is one step
because the critical section touches nothing else. `quiet` is history: no write of the table
was under way while the read was. Specification, initial states and next steps have `Cache` in their names, because
`SharedStateProofs` extends this module and `TimesketchClient`.

### `CaseArchive` (export, import, fork, deletion)

Four tables stand for the nine of an archive, one for each way a row depends on others:
`assets` (rows that others refer to), `events` (with links that are foreign keys), `comments` (whose
reference is no foreign key), `logs` (which have no foreign key, not even to the case). `disk` holds
the sizes of a case's binaries, `staged` the uploads by token, `downloads` the archives users have. One
archive comes from another instance. `req[r]` is a request with its program counter and the
archive it has read.

| Steps | Code |
|---|---|
| BeginExport, ReadAssets, ReadEvents, ReadComments, ReadLogs | `ExportCaseArchive` (model/archive.go:62), query by query |
| Download | `writeCaseArchive` (handler/archive.go:104), with or without binaries |
| Upload, BeginCommit | `PreviewImport`, `CommitImport` up to the transaction |
| ImportTx, ImportRefused | `ImportCaseArchive` with `assertNoCollisions`, one transaction |
| RestoreFile, Grant | `restoreBinaries`, `writeZipFile` with the shared budget |
| Remap, CopyFiles | `ForkCase`, `CaseForkSave` |
| Delete, RemoveDir, RemoveDirFails | `CaseDelete` |
| AddAsset, AddEvent, AddLog, AddComment, DeleteAsset | edits of the exported case |
| Fails, Crash | any step's error path; the process dies |

`Fresh(dst, id)` is the random id that `ForkCase` gives to `id`. A file of the budget's size plus one
byte is what `writeZipFile` leaves when it notices an overrun. Comments are added to objects that are there: the
race between a comment and the deletion of its object is left to `CaseRecords`. `mixed` and
`disturbed` are history, and name what the code does not protect against: an export overlapped by an edit
may hold a comment without its object, and a case deleted while its files are being written leaves files.

### `AccessControl` (users, rules, casbin's copy, API keys)

`users`, `policies` and `keys` are the tables, `enforcer` is casbin's copy of `policies`. A row of a user
keeps the role and the number of the password. Rules are tuples as in the table: `HasRole(u, x)` and `MayUse(u, c, a)`.
`req[r]` is a request with its program counter, the row it has read, what is still to be written (`todo`) and,
while it loads, what it has read of the table (`snap`).

| Actions | Code |
|---|---|
| UserSave, SaveRow, DeleteRoles, AddRole, ReadPermissions | `UserSave` (settings-users.go:41), `SaveUserRole` (acl.go:84) |
| UserSaveACL, DeletePermissions, AddPermission, PermissionsSaved | `UserSaveACL`, `SaveUserPermissions` (acl.go:98) |
| UserDelete, DeleteUserRoles, DeleteUserRules | `UserDelete`, `ACL.DeleteUser` |
| BeginCase, GrantRead, Give, LoadPolicy, Install | `SaveCasePermissions` (acl.go:116), called by `CaseSaveACL`, the fork and the import |
| Login, LoggedIn | `LoginLocal`, `Callback`: the user's row is read, stamped and saved whole |
| ChangePassword, PasswordSet | the form and the command |
| CreateUser | `create-user`, another process with a transaction of its own |
| MintKey, EditKey, SaveKey, DeleteKey, Accepted | `APIKeySave`, `APIKeyDelete`, `ApiKeyMiddleware` |
| Fails | any statement's error path |
| InsertFails | casbin's insert of a rule that the table has and the copy lacks: the unique index refuses it |
| Restart | the process dies and `NewACL` loads the table |

Three properties of casbin that the code relies on are modelled as they are. With *AutoSave*, a change goes to the table and then
to the copy, and a rule the copy already has is not written, even if the table lacks it. *LoadPolicy* reads a new
copy and then installs it. And `casbin.NewEnforcer` makes an enforcer *without a lock*: when another
request is writing rules too, a change may be missing from the copy (`Racing`); that the Go runtime may end the process
instead is `Restart`. `unloaded` collects the users whose rules in memory may differ for one of these reasons;
`torn` the users two requests changed at once, or whose change broke off, until the next undisturbed
one; `lost` those whose row another request held when their password changed; `clash`, `newest`, `made` and `revoked`
are the bookkeeping of these.

### `TimesketchClient` (session, paging, upload)

`mu`, `loggedIn`, `csrfToken` and `jar` are the fields of the client; `jar` and `csrfToken` are the
session they belong to. The server is external: the newest login holds the only session, as in the fake
server of client_test.go, and a POST needs the session's token. `req[r]` is one call. The events of a sketch are numbers, in
the order in which a query returns them; a file is the sequence of its positions.

| Actions | Code |
|---|---|
| List, Import, Upload, Validate | `fetchSketches`, `EventImportTimesketch`, `Module.Run` and `Module.Validate` |
| ensureSession, relogin | the mutex, and who has to log in (client.go:188) |
| login, probe, rotate | `login`: the CSRF page and the POST, the verification, the new token |
| token, send, Refused, Answered | `roundtrip`: the token is read under the mutex, the cookie taken from the jar when the request is sent, and the server looks at both when it arrives; one retry on 401 and 403 |
| explore | a page of `ExploreAll` |
| Build, Uploaded | a chunk of `Upload` |
| Lost, Expire, Star | a call fails or times out, its effect having happened or not, or the file can not be opened or read; the server drops the session; the sketch changes |

`disturbed` are the requests whose session was taken after they last began a round trip, `moved` the imports during
which the starred events changed.

### `CaseRecords` (events, assets, indicators, samples, comments)

The five tables hold what their rows say about each other; `files` is the directory of samples, by hash. Most
handlers are one transaction and one action. Two are not and run in `req`: saving a comment (look-up of the
parent, then the row) and anything about a sample.

| Actions | Code |
|---|---|
| EventSave, EventRecordFails, EventDelete | `EventSave`, a record of `EventImportCSV` (whose error does not roll back what it made), `EventDelete` |
| saveTimesketchEvents, saveTimesketchIndicators | the import from a sketch; of the indicators all that are new, or none if the unique index refuses one |
| AssetSave, AssetDelete, IndicatorSave, IndicatorDelete | the handlers, with the cascade of the foreign keys and the removal of comments by hand |
| getOrCreateAssets, getOrCreateIndicators | the helpers of this name, as relations between the names, the table and what is found |
| CommentBegin, CommentSave, CommentDelete | `comments.go`; a deletion looks for the object in the path of the request, not for the comment's own |
| MalwareSave, Create, Copy, Entry, Rename, SaveMalware, Push, Pushed | `MalwareSave`, `resolveMalwareFile` and the push of the hash as an indicator |
| MalwareImport | a record of the CSV import: the row is written whole, over one that has its id, and no file is touched |
| MalwareDelete, Remove, DeleteMalware | deletion, the file before the row |
| Fails | a statement or a copy fails, or the process ends |

History: `said` is what an analyst last saved of an event, `reimported` the events imported again since;
`late` the comments whose object went while they were being saved; `cascaded` the samples that went with their
asset; `uploaded` the samples that came with a file, `contested` those another request or a failure had a
hand in, `imported` those to which a CSV record gave a hash their entry did not have.

### `CaseLifecycle` (creation, templates, closing)

Extends `CaseRecords` and composes with it: `RecordStep` is any step of the records. `kase` is the case's
row, `tasks`, `notes` and `triaged` its other contents, `template` a template, `edit[e]` a request that saves the case.

| Actions | Code |
|---|---|
| CaseSave, Prior, CountTasks, CountAssets, SaveCase | `CaseSave` with `outstandingOnClose` (cases.go:191-331) |
| CloneCaseContents, CloneFails | the clone of a template into a new case |
| CaseImport | a record of the import: no question |
| CaseTemplateSave, CaseTemplateDelete, CaseTemplatePromote | settings-case-templates.go, and the promotion of a case |
| TaskSave, TaskDelete, NoteChange, Triage | tasks, notes, and an asset's status, which a form or a CSV record may also set back |

`slipped` are the requests during which something became outstanding, `unasked` whether a case was closed
without a question although nothing had slipped. Tasks a template brings into a case that is created closed are
not asked about: the case has none when they would be counted.

### `SchemaUpdate` (`dagobert update`, the guards of the server)

`version` and `dirty` are the row of `schema_migrations`, `applied` says how often each migration was committed, `matrix` the
release of each ATT&CK file, `sentinel` what `external/mitre/.version` says, `assets` whether the rules in each directory of a
module (chainsaw has three) are there in part or whole. `proc[p]` is a process that runs `dagobert update`, with its build, program counter and what it has still to
fetch; `server` is the build that serves and the knowledge base it has loaded. A build is its newest migration and the release
it pins.

| Actions | Code |
|---|---|
| Begin, ReadForce, Reset | `Update`, the dirty recovery of `migrateDB` (cli/migrate.go:67-89) |
| Up, Mark, RunMigration, Unmark | `m.Up` of golang-migrate (external): it reads the row once, refuses a dirty database and an unknown version, and for each migration writes a mark, runs it in a transaction, and takes the mark away |
| UpdateMitre, Download, WriteSentinel | `updateMitre`, `mitreCurrent`, `download` (cli/mitre.go) |
| FetchAssets, RemoveAssets, ExtractAssets, Complete | `UpdateAssets` (runner.go:107) and `ExtractZipSubtree`: a module whose variable is not set fetches nothing; else each of its directories is removed, then filled |
| Stops | a failure of any step, or the process is killed |
| Start, Shutdown | `guardSchema`, `guardMitre`, `LoadKB` (init.go) |

golang-migrate's lock is a variable of the process: nothing keeps two updates apart. The order in which files and
modules are fetched is the code's, and left open, as nothing depends on it. Two updates that download one file
at once share its `.tmp`, which may then be neither's; the model has one of the two releases.
History: `overlapped`; `cut`, the migrations that were committed and whose mark stayed because the process was killed in between;
`done` and `fetched`, the build whose update was the last to complete and the directories it filled; `newest` and `rolledBack`,
whether an older release was gone back to.

### Abstractions common to all

* A statement or transaction is one step and either happens or not.
* Wording, formatting, validation messages and views are left out. A file name or hash is a
  model value.
* Some modules hold a *wrong variant* of an operator next to it (`ClaimableAnyActive`,
  `CommitUnindexed`, ...): a plausible mistake, never part of `Next`. Putting one in the
  place of its operator must break a property; `PROJECT.json` lists which.


## 3. What is checked

| Run | Shows | Instance |
|---|---|---|
| `job_queue` | `ClaimedOncePerLife`, `RunningIsHeld`, `JobsHaveCase`, `ResultIsFinal` | 2 jobs, 2 runners, 1 client, 1 case, 2 modules (one may fail to validate), 2 exits, early ticks; 268,919 states |
| `job_lifecycle` | `NoDoubleClaim`, `ImplementsLifecycle`, `JobsSettle` | the same without early ticks, with fairness, 90,949 states |
| `evidence` | `HashMatchesFile`, `LogDescribesRow`, `VanishesLogged` | 3 ids, 3 names (2 of which forms give), 2 contents, 2 requests or module runs at a time, 4 in all, 1 of which may be a crash; 1,293,108 states |
| `evidence_cleanup` | `CleanupSparesEvidence` fails | as `evidence`; forms give the name of the input only, so that the output is a module's |
| `reference_cache` | `QuietReadsAreCurrent`, `ReadsAndWritesEnd` | 2 readers, 2 writers, 3 contents, unbounded in time |
| `automation` | `LoadedRulesAreCurrent`, `EveryMatchIsScheduled`, `EnrichmentsHaveIndicators` | 2 rules, 2 administrators and the start-up, 1 request, 1 indicator, 1 restart, 1 case deletion; 3,666,979 states |
| `archive` | `LinksStayInCase`, `CommentsHaveObjects`, `NoStrayFiles`, `OneWriterPerCase`, `RestoredFilesAreWhole` | a source, a fork and a case from elsewhere, 1 row of each kind, 2 requests, 1 upload, 2 binaries, budget 2, 2 edits, 3 exports, imports, forks, deletions or crashes; 1,715,095 states |
| `access_control` | `AccessFollowsUsers`, `EnforcerFollowsTable`, `PasswordsStay`, `RevokedKeysStayOut` | 3 users (built-in, from the command line, from the provider), 2 roles, 1 case, 1 key, 2 requests at a time, 3 in all, 1 password change each, 1 failure or restart; 2,793,381 states |
| `timesketch` | `LoneRequestsAreServed`, `TransfersAreWhole`, `RequestsEnd` | 2 calls, 2 events in pages of 1, files of 0 and 3 in chunks of 2, at most two of: 1 expiry, 1 change of the stars, 1 lost call; credentials right or wrong; 467,979 states |
| `case_lifecycle` | `CommentsHaveObjects`, `EventsAreAsSaved`, `SamplesKeepTheirFiles`, `ClosedMeansAsked` | 1 event, asset, indicator, comment, task, note; 2 samples, 2 hashes, 2 requests for records and 1 editor at a time, 3 in all, 1 failure; 775,157 states |
| `timesketch_reimport` | `ImportsKeepEdits` fails | the records of `case_lifecycle` alone |
| `schema_update` | `VersionTellsApplied`, `AppliedOnce`, `ServesOwnSchema`, `CompleteUpdatesPin` | 3 builds (one with a new migration, one with a new release), 2 migrations, 2 files, 1 module with 2 directories, 2 updates at a time, 3 in all, 1 start of the server; 3,413,194 states |

Type invariants are checked by `evidence`, `automation`, `archive`, `timesketch` and `case_lifecycle` (`CaseTypeOK` includes that of
`CaseRecords`), and proved for every model. They carry what
the schema promises: unique indexes, foreign keys, one row per evidence file, a closing date exactly on closed cases.

Why the bounds are enough to meet the interesting cases:

* Queue: two runners and two jobs give every race for a claim and for the order of claims; two
  exits give a crash, a recovery, a crash during or after the recovery and a third
  life; one case is enough to delete it under a job and to bring it back. What is not small-scope is proved (section 4).
* Evidence: the names `a` and `b` give a collision, a rename and a module's output (`a` becomes `b`, or, as with plaso, `b`
  and `c`); three ids allow two rows and a third attempt on the same name, or an input and plaso's two outputs; four requests,
  of which one may be a crash, allow a left-over (crash or failed transaction), its adoption, a rename and a deletion in
  one history. Forms submit the empty hash: a hash typed by hand differs from it in
  nothing the properties look at, except for a row that then adopts a file, whose hash is replaced.
* Cache: the model has no counter and no bound but the number of requests. Three contents
  tell an older copy from an old one.
* Rules: two loads and the start-up's overlap in every way; two rules let one push fail and one
  succeed; one indicator is saved, looked up, changed and deleted.

* Archive: the source's binaries use the budget up exactly, those of the case from elsewhere overrun it with
  the second file. Two edits are an asset and an event linked to it, a comment on it or its deletion; three
  operations are an export, a deletion and an import of the same case, two imports with one token and a
  deletion between, or an import, a crash and a second attempt.
* Access: each of the three users has an origin the code treats differently: rows that are refused, ids used once, ids that
  return with the next login. Three requests, two at a time, are a user's save that overlaps a load or a deletion, and a third
  that finds what they left; a failure or a restart falls in any gap. What is not small-scope is proved.
* Timesketch: two callers are enough to take each other's session, the expiry gives a third login; two events on two
  pages let the set shrink or grow between them; sizes 0 and 3 are the empty file, a full chunk and a rest. Two mishaps meet in every
  order; a third adds no new pair.
* Records and lifecycle: three requests are, for instance, a sample's upload, its rename and a deletion; an event, its edit and a
  second import; a case, a task and its closing. Two samples and two hashes let them share a hash or exchange it.
  With one comment and one object of every other kind each cascade has something to take and to leave.

* Updates: three are, for instance, one that is killed, one that is forced, and one of another build; two at once give each
  order of their writes to the row. Two files tell a mixture from a release; two migrations tell the first, whose recovery
  removes the row, from a later one.

Deadlock is not checked where the model legitimately stops: bounds are used up, or every
request of an instance is done.

### Fairness

`JobQueue!Fairness`, used by `job_lifecycle` only:

* a runner's ticker never stops, so weak fairness for PopJob, LoadCase and AckJob. It assumes
  `DAGOBERT_WORKERS` is at least 1;
* a module run ends (each module's tool or HTTP call ends, or the context ends it), and it schedules
  finitely many jobs on the way: strong fairness for ModuleReturns, since scheduling inside the
  run disables it again and again, and weak fairness for PushFails, so that a run does not hold
  a read case for ever;
* start-up goes on to its end, and the process is started again (the README runs the container with
  `--restart unless-stopped`);
* a cancelled server exits (`Shutdown` in init.go). A crash is never *forced*, and a failing
  statement never excluded: a job may stay behind in `stranded`.

`ReferenceCache!FairCacheSpec`: a request that was started goes on, and `sync.Mutex` starves nobody (its
starvation mode), hence strong fairness for Lock and Drop.

`TimesketchClient!Fairness`: weak fairness of each call's next step. The HTTP client's timeout ends every request to the
server, answered or not, and `sync.Mutex` hands the lock over in order, so one who waits for it is never passed
over for ever; each call makes finitely many requests. Nothing forces a call to begin, to fail, or a session to expire.

The safety runs use no fairness.


## 4. What is proved

TLAPS checks these for every number of jobs, runners, clients, cases, modules and exits, and for any
number of readers, writers, tables and contents, of users, cases, keys and requests, of rows, file names and contents, of builds,
migrations, files, modules and updates, of rules, indicators and restarts, of tokens, archives and binaries, of the records of a
case, its tasks and its editors, of calls of the Timesketch client, events, files and sizes of pages and chunks. The bounds on operations and failures are constants too: the results hold whatever they are.

They rest on the assumptions the models name, which TLC evaluates in every run. Most of each says that sentinel values lie
outside the sets they are added to. Beyond that:

* `QueueAssumption`: finitely many job ids and runners (`DAGOBERT_WORKERS` is a number).
* `AccessAssumption`: built-in and command-line users are users, and not the same ones.
* `EvidenceAssumption`: a module's outputs are one file name or two; names that are entered are names; a file's content is neither
  a request that writes it nor no file.
* `UpdateAssumption`: migrations are numbered from 1 without gaps; there is an ATT&CK file to fetch.
* `RuleAssumption`: the start-up's loader is no administrator.
* `ArchiveAssumption`: the binaries of an archive are finitely many and in one order, with sizes in bytes; the ids a fork draws
  (`fp.Random`) are none of the source's.
* `ClientAssumption`: finitely many events; pages and chunks are not empty.
* `RecordsAssumption`, `CaseAssumption`: hashes may be values of indicators; no row is "no row"; the history keeps comments and
  requests in one set, so that they must not be the same.

`JobQueueProofs`, from one inductive invariant, `QueueInv`:

| Theorem | States |
|---|---|
| `TypeCorrect` | `TypeOK` |
| `PopsOnce` | `ClaimedOncePerLife` |
| `NoDoubleClaimWithoutEarlyTick` | `~EarlyTick => NoDoubleClaim` |
| `NoStrandedJob` | `RunningIsHeld` |
| `JobsKeepCase` | `JobsHaveCase` |
| `ResultsAreFinal` | `ResultIsFinal` |

`ClaimedOncePerLife` is not inductive: that a job is popped once holds because a row that was popped
in this life is no longer Scheduled, and it is no longer Scheduled because only the recovery
writes Scheduled and the recovery runs once per life. `QueueInv` says this: it ties `claims` to `status`,
`early` and `phase`, the jobs runners hold to the rows, and the runner's program counter to its job. Each of its conjuncts is
there for one of these steps; the theorems above are then one step each.

`PoolImplementsLifecycle` states `~EarlyTick => (Spec => ImplementsLifecycle)`: without early ticks every step of the pool is a
step of `JobLifecycle` or a stutter. The refinement mapping, `lifecycle`, needs to know of each step whether it changes who holds a job
(`HeldBySome`): a claim gives a free runner one, only the runner that has a job releases it (by `NoDoubleClaim`), the end of the
process loses them all and the recovery, before which nobody ticks, brings all of them back. That at most one job per runner is
active (`FreeSlot`) is a cardinality argument: the active jobs are the image of the busy runners, and the one that claims is idle.

`AccessControlProofs`, from one inductive invariant in four parts (`TypeInv`, `FollowInv`, `PasswordInv`, `KeyInv`):

| Theorem | States | What has to be added to make it inductive |
|---|---|---|
| `AccessTypeCorrect` | `TypeOK` | what a request holds depends on its program counter (`StepOK`): a save has a row with a role, a loader a case |
| `EnforcerFollows` | `EnforcerFollowsTable` | every copy that was read and is not yet installed follows the table too, except on the users written to since (`behind`); installing it makes these the new `unloaded` |
| `OldPasswordsStayOut` | `PasswordsStay` | the row a save or a login holds has the newest password, unless its user is in `lost`; nobody holds the row of an id not yet made |
| `RevokedKeysStay` | `RevokedKeysStayOut` | no request holds a revoked key's row, and revoked keys were made, so that minting can not bring one back |
| `AccessFollows` | `AccessFollowsUsers` | `AccessInv`: what a save or a deletion has achieved by each of its steps (`Achieved`) and what others have read of a role (`Current`), for requests that nobody clashes with; that requests which meet on a user are in `clash` and their users `torn`; that nobody touches built-in users or one not yet made |

The proofs of `FollowInv` rest on the lemma that users share no rules: a change of one user's rules leaves
what copy and table say of every other user alone. `AccessFollowsUsers` then joins two results: the table grants what the rows
say (`TableInv`, outside changes of a role and torn users), and the copy is the table (`EnforcerFollowsTable`, outside
`unloaded`).

`EvidenceStoreProofs`, from three invariants, each on top of the one before:

| Theorem | States | What has to be added to make it inductive |
|---|---|---|
| `EvidenceTypeCorrect` | `TypeOK` | what a request holds depends on its program counter (`StepOK`) |
| `NothingVanishesUnlogged` | `VanishesLogged` | nothing but the types |
| `LogIsRight` | `LogDescribesRow` | `LogInv`: while nothing overlaps at most one request is under way, and the row an edit has read is the row that is there, so that `Commit` logs a difference from the table when it logs one from what was read |
| `HashesAreRight` | `HashMatchesFile` | `HashInv`: only the request that acts is writing, and under its own name; what it established on its way still holds (`WayOK`): its new name belongs to no other row, an upload never goes to a row that has a file, a rename carries the hash of the file it moves, and a row about to be saved has the hash of the file it names (`ToSaveOK`) |

A step changes one request, while the others are idle (`HashMoves`), so that only the invariants of the one that acts have to be
shown again. A crash needs them as well: a file left half written bears the name of no row whose hash is known.

`SchemaUpdateProofs`, from an invariant for each theorem:

| Theorem | States | What has to be added to make it inductive |
|---|---|---|
| `SchemaTypeCorrect` | `TypeOK` | an update works on a migration its build has (`StepOK`) |
| `VersionsTellTheTruth` | `VersionTellsApplied` | `ProgressInv`: the migrations before the one an update works on have been applied, whatever others write into the row meanwhile |
| `AppliedOnlyOnce` | `AppliedOnce` | `OnceInv`: while updates do not overlap, the row is the one the update has written, nothing above it was applied, and what is marked was not, before its transaction |
| `ServersKnowTheirSchema` | `ServesOwnSchema` | `ServerInv`: the row is still the one the server has looked at; the rest follows from the two above |
| `CompleteUpdatesDo` | `CompleteUpdatesPin` | `PinInv`: the sentinel names the newest release only if every file is of it; what an update is done with is of its release |

`AutomationRulesProofs`, from `RulesInv`, one part of which is about rules and loaders, the others about requests, jobs and indicators:

| Theorem | States | What has to be added to make it inductive |
|---|---|---|
| `RulesTypeCorrect` | `TypeOK` | nothing |
| `LoadsSettle` | `LoadedRulesAreCurrent` | `LoadInv`: a loader in `alone` is the only one under way, and what it has listed is what the table still says |
| `MatchesAreScheduled` | `EveryMatchIsScheduled` | `ReqInv` and `ScheduleInv`: a rule that applies is still to be pushed, has failed, or has its job, and a job is only lost after its case was deleted |
| `EnrichmentsKeepIndicators` | `EnrichmentsHaveIndicators` | `LookupInv`: as long as a trigger or a lookup may still come to an indicator, this is there or in `late` |

`CaseArchiveProofs`, from `ArchiveInv`, which is also what all the theorems need of the types:

| Theorem | States | What has to be added to make it inductive |
|---|---|---|
| `ArchiveTypeCorrect` | `TypeOK` | what a request remembers depends on its program counter (`Remembered`) |
| `LinksStay` | `LinksStayInCase` | every row, and every row in an archive wherever it waits, has ids of its own case only (`RowsInv`, `OwnRows`), which a fork's fresh ids and an import preserve; two cases have no id in common (`IdsApart`) |
| `CommentsKeepObjects` | `CommentsHaveObjects` | an archive that is not mixed has the objects of its comments (`StoreInv`), because an export no edit has overlapped still sees the rows it has read (`ViewInv`) |
| `NoFilesStray` | `NoStrayFiles` | a case that is being filled is there, or was disturbed (`WritersHaveCases`) |
| `WritersApart` | `OneWriterPerCase` | the same, with the collision check: a case that is there has a row |
| `FilesRestoredWhole` | `RestoredFilesAreWhole` | the binaries before the next one are there in full, those after it not at all (`RestoredSoFar`); what an import has written and what is left of its budget make up the budget (`BudgetInv`) |

`CaseLifecycleProofs`, from `LifecycleInv`, about `CaseLifecycle` and all of `CaseRecords` below it:

| Theorem | States | What has to be added to make it inductive |
|---|---|---|
| `CaseTypeCorrect` | `CaseTypeOK` | what requests remember (`Remembered`); forms are dated as they are closed (`Forms`) |
| `CommentsKeepTheirObjects` | `CommentsHaveObjects` | the same of comments on their way (`CommentInv`): one whose object went while it was being saved is in `late` |
| `EventsStayAsSaved` | `EventsAreAsSaved` | what was said of an event goes with the event (`EventInv`) |
| `SamplesKeepFiles` | `SamplesKeepTheirFiles` | `ContestInv`: requests that meet, in a sample or in a file, are both contested, and the file under a hash that a request deals with is its own, none or that of a contested sample. `FilesKnown`: what a request has found out about the file of its own sample is still so. `FilesKept`: the file is under the hash of the row but while a request takes it elsewhere (`Moving`) |
| `ClosingIsAsked` | `ClosedMeansAsked` | `AskInv`: what an editor has counted is still so unless something slipped past it; and a case that is not there has nothing outstanding |

A step about a sample changes one request, and the files and row of one sample. `SampleStep` shows once that what every other request
knows is left alone, since whoever could be harmed has met the one that acts and is contested; what is left for each action is its own sample.

`SharedStateProofs`, about the two objects all requests share in memory. Of `ReferenceCache`, from `CacheInv` (who holds a mutex and at
which step; what a reader has queried equals the table unless a writer is about to drop it): `CacheTypeCorrect`, `CopiesAreCurrent`
(a copy equals its table unless a writer is about to drop it) and `ReadsAreCurrent` (`QuietReadsAreCurrent`). The key point: a writer
that changes the table during a fill is still in "drop" when the fill ends, because dropping needs the mutex the filler holds.

Of `TimesketchClient`, from `SessionInv` and `TransferInv`:

| Theorem | States | What has to be added to make it inductive |
|---|---|---|
| `ClientTypeCorrect` | `TypeOK` | what a kind of caller asks for and how far it can have come (`Reached`); who logs in holds the mutex, and until then nobody is logged in (`HolderInv`) |
| `LoneRequestsGetThrough` | `LoneRequestsAreServed` | while the session of the cookie lives, the client's token is its token (`TokenInv`); a request nobody took the session from is refused only by a session that is gone, and after its own login, if the credentials are right, not even then (`LoneInv`) |
| `TransfersArriveWhole` | `TransfersAreWhole` | the server has the chunks before the next one, of an upload that broke off perhaps that one too (`Sent`); an import has the events before its next page (`Received`) |

`Sent` names each chunk and does not say yet what the chunks are together. `JoinedChunks` does: the first k chunks, put together, are
the first k * `ChunkSize` bytes of the file or all of it, by induction over k.

The library's induction theorems take an operator as a parameter, which the installed provers can not instantiate. Where a proof needs
induction over data it goes by sets instead: the library has it that the subsets of a finite set are well-founded (`FS_StrictSubsetOrderingWellFounded`) and that every non-empty set
has a minimal element then (`WFMin`). `SubsetInduction` says so of a set P that has every subset all of whose proper subsets it has, and
`NatInduct` of numbers. With them the folds of the community modules can be dealt with: the function behind a fold is shown to exist
(`IterDefined`, `JoiningDefined`), then what one more element adds (`IterStep`, `JoiningStep`), then the result (`SumWith`,
`JoinedChunks`); that the starred events can be put in order (`SortedThere`) is one, too. The two lemmas are stated in both modules that use them.

Model-checked only: the liveness properties (`JobsSettle`, `RequestsEnd`, `ReadsAndWritesEnd`), which are out of the prover's
reach, as fairness is stated with ENABLED. Every invariant and action property the passing runs check is proved.

## 5. Where the code disagrees with its own words

Each of these is a run that must find its counterexample.

1. **A failed second run removes evidence** (`evidence_cleanup`): the output path depends on the input's
   name only, and the clean-up of "partial output" removes the file the first run registered.
2. **A second import from Timesketch takes an analyst's links away** (`timesketch_reimport`), although the
   comment on it says that an edited event is "not duplicated or clobbered": without override `SaveEvent` keeps the
   columns, but still replaces the links by those of the imported event, which has none.

Behaviours that the models show, that a reader of the code may not expect, and that no property forbids:

* **A job can run twice at once.** `Start` launches the runners and only then sets Running rows back to
  Scheduled. If the first tick (one second later) comes before that statement, the job it popped is set back and a second
  runner pops it too. It takes a database that is busy for a second at start-up: `NoDoubleClaim` is checked without
  early ticks, and proved under that condition.
* An edit of evidence that changes nothing in the row as it was *read* is not logged, even if the row has changed since.
* Rules run on events they do not name: the loop evaluates every rule's condition whatever was triggered.
* The guard that keeps red indicators inside looks at the copy of the indicator in the job, not at the row.
* `MalwareExport` writes the ids of the samples and `MalwareImport` upserts by them (handler/malware.go:128,138), hash included. On
  the other ways to another hash `resolveMalwareFile` renames the file; here nobody does. Where a record has another hash than its
  entry, the file of an uploaded sample stays under the old one and the download does not find it. `SamplesKeepTheirFiles` excepts
  such samples (`imported`), and only these: records that repeat the hash of the entry do no harm.
* Deleting an asset takes its samples by the foreign key, but neither the comments on them nor their files; as
  files are opened with O_EXCL, the sample can not be uploaded again.
* A rule that casbin's older copy still has is not written again, so that after overlapping changes the table
  may lack it; and casbin's enforcer is shared by all requests without a lock.
* `ScheduleModule` and the rules store jobs for modules that did not validate, although docs/Evidence Processing.md
  says only those that did accept jobs. No runner asks for them; `JobsSettle` excepts them.
* A case that was exported and deleted can not be imported again, although the import's own message says to delete the case
  first: `DeleteCase` leaves the evidence logs, which have no foreign key, and `assertNoCollisions` finds their ids.
* An update of a newer build that stops between two downloads leaves the older sentinel over newer files. Going back to the older
  build, whose schema is the same, `update` finds the sentinel and every file and keeps the mixture (`rolledBack` in `SchemaUpdate`).
* A process killed between a migration's commit and the end of its mark leaves a dirty version that `--force` applies once more:
  an INSERT happens twice, an ALTER TABLE fails each time.
* Two updates at once may both apply the same migrations. The version they record is still true.
* A first start that is killed during its bootstrap leaves `data/dagobert.db`: docker-entrypoint.sh does not bootstrap
  again, and the server refuses to start until `update` is run by hand.


## 6. Plan

Done, in this order: `JobQueue` with `JobLifecycle` and its proofs; `EvidenceStore` and its proofs; `ReferenceCache` and its
proofs; `AutomationRules`; `CaseArchive`; `AccessControl` and its proofs; `TimesketchClient`; `CaseRecords`;
`CaseLifecycle`, composed with it; `SchemaUpdate` and its proofs; the refinement of `JobLifecycle`, `AccessFollowsUsers`, and
the proofs about `AutomationRules`, `CaseArchive`, `CaseRecords`, `CaseLifecycle` and `TimesketchClient`.

Left:

1. An abstract specification for `CaseArchive`: a case appears and goes atomically, with all its rows.
2. Pure functions with reference definitions: `refang` (replacements in the random order of a Go map), the
   ordered map of `pkg/attck`, pivoting in `pkg/doct`.

Compositions: `JobQueue` and `AutomationRules` share the jobs table; the latter abstracts a job to
scheduled, sent and done, as `JobLifecycle` justifies (lost work is requeued). `EvidenceStore`
takes a module run as one request, which `PopsOnce` justifies within one life of the process. `CaseLifecycle` runs all of `CaseRecords`;
the deletion of a case is left to `CaseArchive`, which has the tables that survive it, and its permissions to `AccessControl`.


## 7. Not modelled, and why

* Views, dashboard, graphs, styles, the MCP endpoint: read-only queries.
* Docx engine, OpenIOC, STIX, CSV and XML conversions, command lines of the tools, the mapping of answers to verdicts:
  sequential, without shared state. Of `refang` and the ordered map see section 6.
* What the single migrations do to the tables: SQL that runs once; `SchemaUpdate` has when each of them runs.
* The external tools and services themselves, GORM, SQLite, casbin, the session library: modelled only by what the
  code relies on. Which session belongs to which user is the library's and left out.
* Data races: casbin's enforcer is the only shared memory that is written without a lock. The model has three outcomes for two writers:
  both changes are made, one is lost in memory, or the process ends; a torn map or slice that stays in use would be
  a fourth. `rules` is an atomic.Value replaced as a whole, the caches are used under their mutex, and the Timesketch client's
  fields under its own.
* Comments on tasks, notes and evidence behave like those on events and are left out of `CaseRecords`.
* Time: ticks, timeouts and the one-second delay are nondeterministic.
