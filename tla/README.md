# Verification of nestjs-stack

TLA+ models of the stateful parts of the `nestjs-stack` libraries, the TLC
configurations that check them on small instances, and theorems about them that
the TLAPS proof system checks for every value of the constants.

The libraries are building blocks for NestJS back ends (`libs/core`,
`libs/common`), their entities (`libs/entities`) and a browser SDK for uploads
(`libs/web`).  Every process runs on one Node.js event loop, so the code between
two `await`s is atomic and everything else is not: several requests of one
process, and several processes, interleave at each Redis command, SQL statement
and HTTP call.  Almost all shared state is in PostgreSQL, in Redis, in the
object store or with a broker; the interesting behaviour is what happens between
two of these calls.  A step of a module is therefore one such call.

## 1. Inventory

| Component (source) | State | Operations | What makes it correct, what is hard | Module |
|---|---|---|---|---|
| Sessions and login (`core/nest/session`, `jwt-auth/helper`, `shared/services/credential-check`) | Redis: session record per token, one lookup key per (system, account), a debounce lock per token. PostgreSQL: account status, password reset time | issue a token (kicks the previous session), validate, touch, delete; reset password, enable/disable | a kicked or reset token is refused; only another login kicks; TTLs outlast the idle limit. Every Redis command is awaited, touches are fire-and-forget, instants are cut to seconds | `Session` |
| Runtime configuration (`core/nest/runtime-config`) | row per code with a version; Redis copy with a TTL | read one / many, `ensure`, create, update with `expectedVersion`, delete, invalidate | reads return committed rows, caches converge, no update is lost. Read-compare-save is three steps and the cache is filled after the read | `RuntimeConfig` |
| OSS default setting and OSS configurations (`core/nest/file-management/oss-*.service`) | row of the default target, rows of configurations, Redis copies | set the default, resolve a path; create, update, delete a configuration | the default refers to an existing configuration; one winner per version. Advisory lock, row locks, cache | `OssStorage` |
| Cache service (`core/nest/cache`) | Redis value and single-flight lock | `wrap`, evict | one computation at a time; everybody ends. Lock TTL, GET-then-DEL release, waiters' deadline | `CacheService` |
| File records (`core/nest/file-management/file.service`) | file rows, Redis hash of copies that never expire | create, upload tasks, save, translate, soft delete | the copy is the row; one active row per object | `FileRecords` |
| S3 storage (`core/nest/s3-storage`) | client context cached per configuration and process | 15 calls of the object store, signed URLs | a call goes where the configuration it read says; no public address names the internal endpoint | `ObjectStorage` |
| S3 multipart upload (`common-business/file-management/multipart-upload.service`) | S3 uploads, parts and objects; file rows | prepare, init (resume), sign, complete, abort, locate | a row exists only for a complete object; retries and concurrent completes are harmless | `OssUpload` |
| Local multipart upload (`local-multipart-upload.service`) | session directory with parts, assembling file, final file, file rows | init, upload part, complete, abort | same, on the file system | `LocalUpload` |
| Browser upload SDK (`libs/web/src/oss`) | state, pause flag, worker loops, abort controllers | start, pause, resume, stop | terminal states are final, no part is sent after stop, nobody sleeps for ever | `UploadProcess` |
| RabbitMQ acknowledgement (`core/nest/mq`) | queue, delivery headers | publish, ack, nack | a message is not dropped before its retries are used up | `RabbitAck` |
| Kafka offset commit (`core/nest/mq`) | committed offset, requests in flight | publish, filter, commit | no offset passes a message nobody looked at | `KafkaCommit` |
| BullMQ tasks (`core/nest/bullmq`) | job, worker, handler registry | add, replace, update, remove, retry | an answered update of a pending job is not lost | `TaskQueue` |
| BullMQ cron (`core/nest/bullmq`) | repeatables, delayed jobs, registry | boot (clean up, register), register, remove | a cron that left the code never runs, one that is in it is scheduled | `CronJobs` |
| Roles and permissions (`shared/guards/permission`, `op-role-shared`) | role, permission and assignment rows; Redis copies for 24 h | create, status, delete, grant, bind, unbind, check | a revoked permission stops working; the cache is filled by readers in flight | `Permissions` |
| Account cache (`find-account.service`) and the users that are cached (`op-user-shared`, `user-shared`) | Redis copies by id and by user name without a TTL; account and identity rows | find, clear; create, update, delete a user | a renamed, frozen or deleted account is not found as it was | `Accounts` |
| Bootstrap of the administrator (`op-user-shared`, bootstrap task) | four rows, a job per process | ensure, restore, delete | one administrator who can log in | `AdminBootstrap` |
| Departments (`op-dept-shared`, data scope engine) | tree, id paths, closure rows, members | create, move, delete, assign | the closure is the tree's; nothing refers to what is gone. No transaction anywhere | `Departments` |
| Identity activity (`identity-active.service`) | Redis set and keys, last-active column | mark, flush by cron | no mark is lost | `IdentityActivity` |
| Global guards (`core/nest/.../guards`, `catch.filter`) | what they mount on the request | JWT, session, account, identity, permission, filter | only who may gets in, and who may does, while the facts change between two guards | `RequestGuards` |
| Health (`core/nest/health`) | cached report, computation in flight | readiness | answers in time; trouble shows | `Health` |
| Request logs (`core/nest/request-logs`) | Kafka topic, rows | capture, persist, publish, consume, fall back | a log is stored, and once | `RequestLogs` |
| Dictionary, cities (`core/nest/dictionary`, `city`) | Redis tree and hash of paths | load, flatten, publish, translate | what is listed translates to its place. Codes that left the files keep translating: `hmset` removes nothing | `ReferenceData` |
| Log files, process configuration, helpers, entities, playground | see section 6 | | | none |

Components interact through calls (the guards call the session service, the
credential checker and the account and permission caches; the upload services
call the file, OSS and storage services, which call the runtime configuration),
through shared keys and rows, and through callbacks (event listeners,
interceptors, workers).

## 2. How the project is laid out

One module per component, each with its own variables, `Init`, `Next` and
specification.  Composition happens where components share state:

- `OssStorage` joins the default setting, the configurations and the file rows
  that refer to them, and implements `VersionedRegister`;
- `OssUpload` joins the upload service, the file rows, the store and the browser
  that holds signed URLs; `LocalUpload` the same with the disk;
- `Accounts` joins the services that edit accounts, the cache and the guard that
  reads it; `Permissions` does so for roles;
- `Session` joins login, guard, touch, credential service and the clock;
- `RequestLogs` joins interceptor, publisher, broker, consumer and table.

Proofs are in modules of their own: `SessionProofs`, `RuntimeConfigProofs`,
`RecordsProofs` (the OSS default, departments, the bootstrap), `UploadsProofs`
(S3 upload, browser, file records, object store), `LocalUploadProofs`, `AccountsProofs`,
`BackOfficeProofs` (roles, and the accounts in the three casts of the run),
`ServicesProofs` (the other services).  Those of a composed run extend its `MC`
module, so that what they prove is the property the run checks, of the
specification the run explores, with the constants left open.

Modules that share nothing would only multiply each other's states, so a run
that covers several of them chooses a **subject**: the initial state picks which
module the behaviour is about, the next-state relation takes that module's steps
and leaves the variables of the others where their `Init` put them.  The
invariants of the other modules hold trivially in such a behaviour, so a
property of a guest module is stated with `subject = "..." =>`.  Where a module
has several initial states, those of a parked module are fixed, which only
removes duplicates.

### Runs

`MC*.tla` instantiate the modules; every cfg gives two concurrent callers, and
every bound is a constant of the configuration.

| Run (module) | Checks | Instance |
|---|---|---|
| `sessions` (`MCSession`) | `TypeOK`, `KickIsByAnotherLogin`, `TtlOutlastsIdleLimit`, `RevokedNeverAdmitted`, `LaterLoginKicksSerially`, `OnlyTouchRevives` | two logins, two requests, two resets, 3 or 4 ticks; subjects `kick`, `revoke` (half-second ticks over two seconds, one token), `serial` (one login, request or touch at a time) |
| `session_lost_kick` | `KickMarkSticks` violated | the same instance |
| `session_same_second` | `NewTokenUnaffected` violated | the same instance |
| `services` (`MCServices`) | `TypeOK`, `ServesCommitted`, `ReadsSeeReturnedWritesAlone`, `VersionFallsOnlyByStaleSave`, `SerialPromises`, `SingleFlight`, `QueuesFollowTheCode`, `MessagesSettled`, `LogsKept`, `ListedCodesTranslate`, `HealthIsReported`, `GuardsAdmitAndRefuse` | ten subjects: `RuntimeConfig` (3 row changes), `CacheService` (3 calls, lock of 3 ticks), `TaskQueue` (2 attempts, 2 values, 1 stop), `CronJobs` (2 names, 2 patterns, 3 boots), `RabbitAck` (retry limit 3, 5 failures, 2 lost connections), `KafkaCommit` (3 messages, 2 rebalances), `RequestLogs` (1 request, 3 rows, 2 faults), `ReferenceData` (3 starts), `Health` (one critical and one optional check), `RequestGuards` (one change under way) |
| `config_lost_update` (`MCRuntimeConfig`) | `OptimisticLock` violated | two updates |
| `records` (`MCRecords`) | `TypeOK`, `TargetExists`, `FilesHaveConfig`, `ImplementsRegister`, `DepartmentsSafe`, `BootstrapLeavesAdmin` | `OssStorage` (2 codes; as subject `setting` versions to 3 with edits and no uploads, as subject `files` versions to 2 with uploads and no edits), `Departments` (3 departments, 1 member), `AdminBootstrap` (3 attempts, 4 starts) |
| `oss_reenable` (`MCOssStorage`) | `TargetExists` violated | as above with `Enabling` |
| `oss_upload` (`MCOssUpload`) | `TypeOK`, `CompletedHasObject`, `SerialUploads`, `LocalUploadSafe`, `BrowserUploadSafe`, `EndedStaysEnded`, `CopiesFollowRows`, `StoreFollowsConfig` | `OssUpload` (2 parts, 2 tasks, 2 uploads), `LocalUpload` (1 part and, as subject `halves`, 2 parts; 2 tasks, 2 uploads, 2 assembling files), `UploadProcess` (2 parts, 2 workers, 2 runs, 1 pause, 2 errors, 1 retry), `FileRecords` (2 rows, 3 writes), `ObjectStorage` (2 buckets, 2 parts, 1 edit of the configuration) |
| `back_office` (`MCBackOffice`) | `RolesSafe`, `AccountsSafe` | `Permissions` (2 administrators, a guard, a user, a role, a permission), `Accounts` in three casts (see there) |
| `frozen_identity` (`MCFrozenIdentity`) | `FrozenIdentityRefused` violated | one administrator, one request, one site account |
| `progress` (`MCProgress`) | `Converges`, `AnsweredTaskRuns`, `RunEnds` | liveness of `RuntimeConfig`, `TaskQueue`, `UploadProcess` |
| `completion` (`MCCompletion`) | `EveryCallEnds`, `EveryWrapEnds`, `MarkedTimeLands` | liveness of `OssStorage`, `CacheService`, `IdentityActivity` |

Two callers are the two sides of every race these services have: each property
relates what one call read or wrote to what one other call did meanwhile.  Where
a third party matters it is there (`CacheService`: the holder of a lock, the
waiter, and the one who takes the lock when it expired).  `SYMMETRY` permutes
callers and interchangeable names, and is not used where liveness is checked.
`CHECK_DEADLOCK FALSE` everywhere but in `oss_reenable`: with the bounds used up
(the last row change, the last start, the last fault) a system at rest has no
step left; that calls do end is what `progress` and `completion` check.  Two runs
carry a state constraint.  `Explored` of `MCOssUpload` keeps the instance smaller
where calls have overlapped: two tasks, or a task and its upload, on S3, and one
upload id in the subject `halves`; and one upload id in either local subject once
two completions have had a hand in one file (the subject `local` has two in every
other interleaving).  `OneTrouble` of `MCRecords` leaves out departments on which
operations both overlapped and died: each property excludes one or the other.

### Fairness

Safety runs assume none.  Liveness assumes only that what was started goes on:

- `RuntimeConfig`: a call that was made is carried on (`WF` of its steps: a
  promise of the driver is resolved or rejected), a Redis TTL runs out;
- `OssStorage`: PostgreSQL queues the waiters of a lock, so a transaction that
  could go on again and again does (`SF`);
- `CacheService`: steps of a call and the clock (a Redis command, a timer and
  `fn` come to an end; `fn` takes less than the lock, as the option's comment
  demands); a call may die instead;
- `TaskQueue`: a running worker takes jobs and ends them, delays end, a stalled
  job is found, a closed worker is started again;
- `UploadProcess`: the event loop goes on, a request is answered or fails;
- `IdentityActivity`: the cron queue starts the flush again, and a flush goes on
  unless its process dies (a bounded number do).

No request, administrator or page is assumed to do anything.

## 3. Core modules
### Session

`Session.tla` models one (system, account) pair: all keys carry both, so two
pairs never meet.

| State | Code |
|---|---|
| `data[j]` | Redis value of the session key of token `j`: `lastActivityAt`, `kickedOut`, the key's expiry |
| `lookup` | Redis value of the lookup key |
| `lock[j]` | debounce key of `updateLastActivity` |
| `resetAt`, `resetting[x]` | `passwordResetAt`, committed, and taken by a transaction that is still open |
| `status` | account status column |
| `login[j]` | where the `issue()` call that mints `j` is, and its local variables |
| `req[r]` | where the guard (and then the touch it leaves behind) is |

A login is `LoginStart`, `ReadLookup`, `ReadOld`, `MarkKicked`, `StoreSession`,
`PointLookup`; a request is `RequestStart`, `Validate`, optionally the three
steps of `deleteSession`, `CheckCredential`, `CheckStatus` and the four steps of
`updateLastActivity`.  `LoginFail` and `RequestFail` are a rejected Redis command
or a crash.  `ResetBegin`, `ResetCommit` and `ResetFail` are `resetOpUserPassword`,
which takes no lock: several may be open, and commit in any order.  `Tick`
advances the clock and expires keys.  `prior` and `reset` are history fields,
`latest` (the latest date a reset has committed) and `overlapped` (the dates of
resets that were open together) history variables.

The idle limit, grace period, kick TTL and debounce time are constants, scaled
down in the configurations but kept in the order of the defaults
(debounce <= maxTime, grace > 0, kick TTL at least the session TTL).

The run `sessions` has three subjects that differ in the configuration.  Under
`kick` two logins and two requests interleave with two touches, including
debounce expiry and key expiry; nothing reads the credential state without a
checker, so it is left alone.  Under `revoke` two ticks make a second, so that a
reset and a login can share one or not, and two resets may overlap.  Under
`serial` one login, request or touch runs at a time, resets do not overlap, and
`LaterLoginKicksSerially` is `LaterLoginKicksWithinTtl` there.  Two runs
expect a violation: the touch in flight that erases a kick
(`session_lost_kick`), and the token issued after a reset in the same second
that is refused (`session_same_second`).

`RevokedNeverAdmitted` has an exception, which is the code's: of two resets that
overlap, the one that took the earlier date may save last.  The date the guard
compares with is then lower than one that was committed before, and tokens issued
between the two, which that one had revoked, are admitted again.  The property
excepts the tokens younger than such a date and no other.

`LaterLoginKicksWithinTtl` has a time limit because touches renew the session
key and not the lookup key: an account that stays active past the TTL of the
lookup key is not found by its next login, and both sessions stay in force.

`CHECK_DEADLOCK FALSE`: the clock is bounded and every login may have failed.
Two tokens are enough for the properties, each of which relates one token to at
most one other; two request slots give two touches of one session in flight.

No fairness is assumed and no liveness is claimed: nothing in the code obliges a
client to return.

#### Proofs (`SessionProofs.tla`)

`IInv` strengthens `TypeOK` with the shape of the two program counters: a login
past `old` has a jti and a snapshot, a request past `get` has a token, a lookup
record names a token whose login has stored it.  `Inductive` proves
`Spec => []IInv`; `TypeCorrect` follows.  `KickOnlyByAnotherLogin` adds that a
login never finds its own token in the lookup key.  `ResetRevokes` uses `RInv`:
no reset time is in the future, a request remembers one that is not later than
`latest`, and a request past the credential check holds a token younger than that
or than a date in `overlapped`; the row's date is the latest, or is in
`overlapped` itself (`ResetDates`: so is the date of every open reset that is
earlier than one committed).  The step through `CheckCredential` is the
monotonicity of truncation to seconds (`SecMonotone`).  `TtlCoversGrace` uses
`TInv`: no stored or copied activity time is ahead of the clock.

`RevivedOnlyByTouch` takes the steps that write a session apart: a mark writes a
kicked copy, a deletion and the clock remove, so that only a login's store and
the last step of a touch can bring a session back.  `SerialLoginsKick` is about
the executions with one handler at a time (`OneAtATime`, which the specification
`AllSpec` of `MCSession` keeps): `SerialShape` says that what a handler has read
is still so, `KickShape` that every issued session but the one the lookup key
names is out of force or older than the key may become.  What makes it inductive
is that no issued session comes back (`StaysOut`), which is the previous theorem:
alone, a touch writes back only what is in force.

All are for any number of tokens, requests and resets, any clock resolution and
any TTLs.

### RuntimeConfig

`RuntimeConfig.tla` models one code: its row, its copy in Redis, and `Proc`
concurrent calls of the service.

| State | Code |
|---|---|
| `row` | the row of `sys_runtime_config`: value, version, status, builtin |
| `cache` | the Redis value of the code, with its TTL |
| `op[p]` | where call `p` is, the entity it holds, the row `repo.save` loaded, `expectedVersion` |
| `commits`, `history`, `returned`, `overlapped`, `stamp` | history |

Reads are `ReadCache`, `ReadRow`, `WriteCache`.  Writers (`EnsureRead`,
`CreateRead`, `UpdateRead`) read the row and build an entity in memory; then
`SaveLoad` and `SaveWrite` are TypeORM's `save`, which loads the row again by
primary key and writes only the columns in which the entity differs; then
`ClearCache`.  `delete` is `DeleteRead`, `DeleteClear`, `Remove`, in this order.
`Fail` is a rejected statement or a crash, `Expire` the TTL.

Runs: the subject `config` of `services` (two calls of any kind interleave,
statements fail, the TTL runs out, three row changes) and of `progress` (the
copy ends up equal to the row, even if clearing it failed), and
`config_lost_update` (two updates with one `expectedVersion` both succeed).
`SerialPromises` is `OptimisticLockAlone`, `BuiltinStaysAlone` and
`EnsureKeepsValueAlone`.

The comments of the service promise four things that hold only while no two
calls overlap, hence the history variable `overlapped`.  With overlap, each
fails: two updates that carry one version both succeed (`config_lost_update`);
a reader that read the row before an update stores it after the update cleared
the copy, and it is served until the TTL; `ensure()` in a starting process saves
its entity over a concurrent update and takes the version back; a row becomes
built-in between the check and the delete.

`MaxCommits` bounds the row changes: three are a first write, a second that
overtakes it and a third that meets what the two left behind.  Two calls are
enough for the races above, each of which has two actors.  `CHECK_DEADLOCK
FALSE`: after the last change writers have nowhere to go.

Fairness (`FairSpec`): a call that was made goes on to its end (`WF` of `Step`;
a promise of the driver is resolved or rejected) and a Redis TTL runs out (`WF`
of `Expire`).  No call is assumed to be made.

#### Proofs (`RuntimeConfigProofs.tla`)

`IInv` is `TypeOK`, the shape of the calls (a call about to fill or to save
holds a row) and `Committed`: `cache`, what a reader is about to store and what
reads served are in `history`.  `TypeCorrect` and `OnlyCommittedServed` follow.
`OnlyStaleSavesLower` uses `Stamps`: an entity whose stamp is the row's was read
from this very row, so its version is not below the row's; every commit gives
the row a stamp no entity in memory has.  `ReadsSeeWrites` and
`WritersKeepPromisesAlone` are about calls that do not overlap: then one is
under way, what it has read is still so (`Current`), and no copy in Redis is older
than the last change that returned (`NotBehind`).

### OssStorage

`OssStorage.tla` puts together the default target, the configurations it names
and the file rows that refer to configurations.

| State | Code |
|---|---|
| `setting` | the row `file.storage` of `sys_runtime_config`: target, status, version |
| `configs`, `filed`, `stray` | the rows of `sys_oss_config`; the codes `sys_file` rows refer to, those of late uploads apart |
| `cached`, `known` | their copies in Redis |
| `advisory`, `shared`, `exclusive` | `pg_advisory_xact_lock`, `FOR SHARE`, `FOR UPDATE` |
| `op[p]` | where call `p` is, its code, the version it carries, the entity or row it will write, the row `repo.save` loaded |
| `putBack`, `crossed`, `late`, `leftover` | history |

`set()` is `SetLock`, `SetRead`, `SetShare`, `SetSave` (the comparison, and the
load of `repo.save`), `SetWrite`, `SetCommit`, `SetClear`; `delete()` is
`DeleteLock`, `DeleteCurrent`, `DeleteRow`, `DeleteCount`, `DeleteCommit`,
`DeleteClear`; each may roll back.  An upload resolves the target and the
configuration through Redis (`GetSetting` ... `FillConfig`) and inserts a file row
that names the code (`InsertFile`): `sys_file` has no foreign key, so the row goes
in whether or not the configuration is still there.  `CreateRead` ... `SaveClear`
create and update configurations.  `EditRead`, `EditLoad`, `EditWrite` and
`EditClear` are the generic runtime-configuration editor changing the status of
the row: it reads the entity, and saves it without a lock and without a version
condition; `repo.save` loads the row once more and writes the columns in which
the two differ (`Written`), so that an edit that read before a `set()` committed
writes the old target and version back after it.  It waits only for a `set()` that
has written the row and not committed yet (`SettingLocked`).  The constant
`Enabling` says whether it may turn a disabled row on.

Runs: the subjects `setting` and `files` of `records` (the default exists, file
rows keep their configuration, `set()` is a compare-and-set on the version), the
subject `storage` of `completion` (the order of the locks admits no deadlock and
every lock is given up), and `oss_reenable` (disable the setting, delete its
configuration, enable the setting).

Three exceptions are the code's and are named in the properties:

- An edit of the status that puts an earlier setting back (`EditPutsBack`) is a
  step no versioned register takes, and a `set()` it crossed after its read
  (`crossed`) writes over something it has not seen.  What is left of the
  compare-and-set is between two `set()`.
- What an edit puts back may name a configuration that was deleted meanwhile, as a
  disabled or replaced target may be; `TargetExists` excepts it (`putBack`) until
  the next `set()` that no edit crosses.
- The count of `delete()` and its own row lock do not see an upload that has
  looked its configuration up already, or finds a copy that a delete has not
  cleared yet, or a copy that such an upload has filled again after the clearing.
  Rows of these uploads (`late`, `Counted`) are in `stray`, and `FilesHaveConfig`
  is about the others.

`ImplementsRegister` is the refinement of `VersionedRegister` with
`value <- target of the setting, or None` and `version <- Version`; every step
but `SetCommit` and `EditWrite` is a stutter of it.  `MaxVersion` bounds the
versions requests carry: with 3, in the subject `setting`, a request can be
current, late or too early, and an edit can put back a version that a request
carried before; uploads do not look at the version, and 2 is enough beside them.
Two codes are the old and the new default; two calls are the two sides of every
race, since at most one transaction is past the advisory lock.

Fairness: PostgreSQL queues the waiters of a lock, so a transaction that could
go on again and again does (`SF`); other statements just go on.  `completion`
has one code, which is where two calls meet, and leaves uploads out, which take
and await no lock.

#### Proofs (`RecordsProofs.tla`)

`ProcInv(p)` says what a call relies on between its statements: past the
advisory lock it holds it, past `FOR SHARE` the target exists, past the count no
file row refers to the code but a stray one; and, unless an edit crossed it
(`SetInv`), past the read of `set()` the version is still the one it carries and
the row it is about to commit is the next.  `Respects` is what a step of another
call may do to these facts; `OtherKeeps` proves them stable under it once, for all
pairs of calls.  `FilesKeepConfig` uses `FilesInv`: an upload whose configuration
is gone is late, and a copy of a deleted configuration in Redis has outlived it.
`SetIsCompareAndSet` (the refinement, for any number of calls) follows from the
advisory lock.  `DefaultExists` adds `PastCheck`, a delete past its check is not
deleting the default unless an edit put that back, and is proved under
`~Enabling`: without that assumption it is false (`oss_reenable`).

### OssUpload

`OssUpload.tla` models the uploads of one file by one person for one purpose to
an S3 store, under an `OssUploadPolicy`.  A task is a row of `sys_file` with an
object key of its own.

| State | Code |
|---|---|
| `tasks`, `row[t]` | the rows: `uploadId`, `completed` |
| `upload[i]`, `object` | in the store: multipart uploads with their parts, objects |
| `signed`, `signedPut` | signed URLs in circulation, which the browser may use at any time |
| `op[p]` | where call `p` is, its task, the entity in memory, the row `repo.save` loaded |
| `overlapped`, `failed` | history |

`prepareDirectUpload` and `initMultipart` begin with `LocateNone` or
`LocatePending` and go on with `CreateTask`, `OpenUpload`, the save and
`SignPut`; `completeMultipart` is `CompleteRead`, `ListParts`, `Merge`, `HeadObject`
and the save; `abortMultipart` is `AbortRead`, `Drop` and the save;
`recordCompletedObject` is `CallbackRead`, `HeadObject` and the save;
`signMultipartPart` is `SignPart`.  A save is `SaveLoad` and `SaveWrite` as in
`RuntimeConfig`.  `PutPart` and `PutObject` are the browser.  A call begins with
its first statement; the arithmetic of part sizes is left out, a list of parts
is complete or not.

Run `oss_upload` checks `TypeOK`, `CompletedHasObject`, `SerialUploads`
(`ResumableAlone`, `NoOrphansAlone`, `OneTaskAlone`) and, in `EndedStaysEnded`,
`CompletedIsFinalAlone` with two calls, a file of two parts, two tasks and two
uploads; once calls have overlapped, two of both together.

`CompletedHasObject` holds for every interleaving and crash.  The other four
exclude what the code does not withstand:

- two calls that overlap both find no pending task and create one each
  (`OneTaskAlone`), so that the file goes to two objects;
- an init or a prepare that read the row before another call completed it saves
  its entity afterwards, and `completed` is false again
  (`CompletedIsFinalAlone`);
- a crash between the merge in the store and the save leaves a task whose upload
  the store no longer knows: complete and init fail on it
  (`ResumableAlone`);
- a crash between opening an upload and the save leaves an upload no row names
  (`NoOrphansAlone`).

#### Proofs (`UploadsProofs.tla`)

`IInv` is `TypeOK`, `CompletedHasObject` and `SavesMerged`: only a call about to
save holds a completed entity, and the object of its task is in the store.  A
save writes `completed` only from the entity or keeps the row's value
(`WrittenTyped`), and objects never leave the store in this flow, so the stale
entities that break `CompletedIsFinalAlone` cannot break this.  `TypeCorrect`
and `CompletedOnlyWithObject` follow, for any number of calls, tasks, uploads
and parts.

`UploadsAreSerial` and `CompletedStaysCompleted` need what a call that runs alone
knows.  `AloneInv`: one call is under way, one task pending, the entity it holds
is the row's (`Kept`), and past the merge or the abort the upload it is about to
take off the row is gone (`Ended`).  `SerialInv`: the upload of a pending row is
open and an open upload is its row's, but for the one the call has just ended or
has just opened.  The exception for a failure is needed exactly there: a crash
leaves the row in that state and nobody repairs it.

## 4. Further modules

### Files and uploads

**`LocalUpload`**: uploads of one object to the server's disk.  `task` are the
`sys_file` rows, `dir[<<t, u>>]` the part files below `tempRoot/<row>/<upload>`,
`written` the calls whose part is there under a temporary name, `temp[u]` the file
`<target>.<upload>.assembling`, `target` the file with the object's name; `files`
and `data` say which file is behind a name and which parts it holds, so that two
calls that open one name share it and a rename takes what was written later with
it.  A call is `FindLocalByObject` / `GetActiveTask`, then `CreateLocalUploadTask`
or `SaveInit`; `CheckPart`, `MovePart`, `PlacePart`, `RecheckPart`; `ListParts`,
`OpenAssembling`, `CopyPart`, `MoveAssembled`, `RemoveObject`, `ReplaceObject`,
`SaveEnded`, `RemoveParts`.  `fs.move` with `overwrite` removes the destination
and renames afterwards, so a part that is sent again is absent between `MovePart`
and `PlacePart`, and an object that is completed again between `RemoveObject` and
`ReplaceObject`.  `RemoveParts` is both removals at the end of complete and abort:
the second takes the directory of the row, with the parts of whatever other upload
the row has by then, and the temporary files in it.  Removing a directory is one
step.  `CallFails` is a failure the service cleans up after, `ClientDies` a process
that cleans up nothing; one of either happens (`failed`).

`LocalUploadSafe` says that a completed object is whole, that an upload that ended
has no part files left though parts race with its end, that an answered part stays,
and that one task is open.  What it excludes is what the code does not withstand,
and exactly that:

- the second of two completions truncates the assembling file under the first, and
  one may rename what the other wrote (`mixed`);
- a completion that has removed the object finds its own file gone, taken by the
  other completion or its clean-up, or dies: the object is missing (`cut`);
- a part that is sent again is absent while it is replaced (`Replacing`), and lost
  when the second request fails, dies in between or finds the upload ended, or when
  calls that overlap remove the row's directory (`lost`, with `crossed` or `failed`);
- overlapping inits, completions and aborts write stale rows (`crossed`).

Of the two checks that an upload is still the task's, either alone would keep the
parts of an ended upload from staying, given that a removal is one step: a part
that is moved after it fails, its temporary file gone.  The mutant is therefore the
removal of the upload's own directory only, which leaves the parts of an upload
that a new init had replaced.

**`UploadProcess`**: `FileUploadProcess` in the browser, a step from one `await`
to the next.  `run` is the run of `start()`, `worker[r][w]` the part workers (those
of a failed run go on beside the next), `pending` the parts not taken, `abort` the
abort request, `stray` requests given up by the client that may still reach the
server.  `Start`, `Pause`, `Resume` and `Stop` may come at any moment.  The run
checks that a completion is requested only when every part has arrived, that
`completed` is true of the server, that a stopped upload is aborted unless its
init was never answered, that nothing is sent after a stop, and (`RunEnds`) that
no worker sleeps through a resume or a stop.

**`FileRecords`**: `FileService`.  `file` and `map` are the rows and the hash
`file:translate:map`; `op` the operation of each client: `translateIds`
(`Hmget`, `FindMissing`, `Backfill`), `create` (`FindOne`, `SaveRow`, `Hset`),
`save`, the upload tasks, `softDelete` (`SaveUpdatedBy`, `DeleteRow`, `Hdel`).
`CopiesFollowRows` is exact about the exceptions: `suspect` holds the rows on
which operations overlapped or failed, and loses them with the next undisturbed
write.  Overlap breaks it: an entry never expires, so a copy that `translateIds`
puts back after a deletion answers until somebody writes the row.  A save of an
entity read before the deletion also brings the row itself back.

**`ObjectStorage`**: `S3StorageService`.  `config` is the row, `clientCache` the
context kept per configuration with its fingerprint; a call is `FindByCode`,
`GetClientContext` and the command.  The fields of a configuration are kept as far
as they decide where a call goes or which address it answers.
`StoreFollowsConfig`: a call connects as the configuration it read says, whatever
was cached before; no address or signature names the internal endpoint; parts are
completed in order; the answer of a call that stored an object names the bucket it
is in, which is that of the row the call has read, and carries the address that
row gives an object of that bucket.  Under a domain the address names no bucket.
`Overlapping` names the operations that may overlap another call: one is enough,
as calls meet in the cache only.  Not a property, because the code does not keep
it: a multipart upload that is open while the bucket changes goes on in the new
bucket.

### Roles, accounts, departments

**`Permissions`**: `role`, `grants`, `bindings` are the tables, `permCache` and
`roleCache` the Redis copies.  Administrators create, enable, disable and delete
roles, set their permissions, bind and unbind users; the guard reads a copy or
fills it (`GuardReadBindings`, `GuardReadGrants`, `GuardPersist`).  `RolesSafe`: a
cached set is that of the tables unless an operation owes its eviction, died
before it, or a guard filled it from an older read; deleted roles are bound to
nobody and stay deleted while operations do not overlap (the count of bindings is
taken before the transaction).  Overlapping replacements of the permissions of
one role may leave the union of both.

**`Accounts`**: `account` and `identity` are the rows of back-office and site
users, `byId` and `byName` the copies without a TTL, `task` the operations
(`findById`-`save`-evict and their kin), `request` a request that deserializes its
account and meets the identity guard.  A create looks the name up in the table
(`FindName`): an account of that name that has an identity of the kind is 409, one
that has none is used again, with a new identity of the status asked for, and no
cached copy of it is evicted (`Insert`).  The run has three casts: two
administrators and a request on one account; one administrator, three accounts,
two names, where operations do not die; one account of each kind.  `AccountsSafe`:
copies are those of the rows with named exceptions (`excused`: a copy filled from
an older read, left by an operation that died, or of an account that a create used
again; `leaked`: the name entries nobody evicts any more), and while
operations do not overlap a name comes to be held twice only where an earlier
rename left its entry (`UsernameUniqueAlone`).  The exception is the code's, and
was met while proving: `updateOpUser` evicts the new name only, so a rename leaves
the old one's entry; `createUser` looks in the table, so another account may then
take the old name; and the first, renamed back, is told by the entry that it holds
the name itself (`op-user-shared.service.ts:394`).  `op_account.sql:24` has an index on the
name that is not unique, so both rows stay.  `frozen_identity`: `updateUser` of a
site user evicts nothing, so the guard goes on admitting an identity that was frozen.

**`AdminBootstrap`**: rows of the built-in administrator, another account that is
called admin, the job of each process.  A finished bootstrap leaves all four rows,
whatever other processes did, unless somebody deleted the user: then only the
user's own row is restored, which is why the property excludes it.

**`Departments`**: `parent`, `path` (the id path as a set), `closure`, `memberOf`.
No operation has a transaction, so each is a sequence of statements, any of which
may be the last.  `AssignMember` is `createOpUser` and `updateOpUser`, which store
the department they are given and do not look whether it exists.
`DepartmentsSafe`: what the closure answers to the data scope engine is the tree,
and nothing refers to a department that is gone, while operations do not overlap;
an update repairs what an operation that died left.  A user who was given a
department that was not there is excepted (`unchecked`) from the second, and is in
nobody's scope by the first.

### Services

**`CacheService`**: `wrap` with single flight on one key: `AcquireLock`
(SET NX EX), `Recheck`, `FnAnswers`, `Persist`, `ReleaseGet`, `ReleaseDel`, or
polling (`PollHit`, `PollTimeout`).  A tick is longer than a Redis command.
`SingleFlight`: one computation while nothing is disturbed; a waiter computes only
when the call it waited for has stopped; GET-then-DEL never deletes another's
lock, given that `fn` is shorter than the lock.

**`TaskQueue`**: one idempotent job and the callers of `TaskService`, who look at
its state and then act; the worker takes, completes, fails, dies, closes.
`AnsweredTaskNotLost`, and as liveness `AnsweredTaskRuns`: the data of the last
`addTask` that answered reach the handler, unless the job changed between look
and command (`raced`).  Two more exceptions are the code's: a *prioritized* job is
none of the listed states, so neither updated nor replaced; a worker without a
handler of the name completes the job silently.

**`CronJobs`**: a start lists and removes repeatables, then jobs, that the code
does not know, registers its own and starts the worker; it may die anywhere and
start as another version.  A cron that left the code never runs, one in the code
is scheduled, and once, unless its pattern changed while it kept its name (the
clean-up compares names only).  A process that starts without crons makes no
worker, so a later `registerCron` schedules what nobody runs (`upIdle`).

**`RabbitAck`**, **`KafkaCommit`**: a message leaves the queue handled, or failed
on a delivery whose header says that the retries are used up.  A plain requeue
does not write that header, so a message that keeps failing is requeued for ever;
the property says what leaves, not that something does.  Kafka: the committed
offset passes only messages somebody processed, in whatever order commits land
and whoever takes over; a failed message is passed by the next success.

**`RequestLogs`**: the log of a request from the interceptor to the table.
`LogsKept`: it gets a row by Kafka or the fall-back unless a save failed, its
process died, or it went through Kafka with a captured body that makes it longer
than `maxBodyLength` (the consumer normalizes the log as a whole and drops it);
one row, unless a failure left it open whether the broker has it; the options set
at run time win over the decorator and the default.

**`ReferenceData`**: dictionaries and cities.  `Flatten` is `validateAndFlatten`
on sequences of items with depths, item by item (`Take`); `SetFull` and `SetMap`
are the two writes, of any starting process, with its own files, of which the
instance has six (`MCTrees`).  `ListedCodesTranslate`:
what is listed is listed once and translates to its place in the list, unless the
two writes of two refreshes crossed or one broke off.

**`Health`**: `readiness` of several requests over checks whose dependencies go
up, down, degrade or hang, critical ones included (an indicator is critical unless
it says otherwise).  A request is answered within the time of one check, whoever
asked before; trouble older than a report's life and a check's time shows, and a
critical dependency that has been out of service so long takes the whole down.  One
that says degraded does not: the whole is then degraded.

**`RequestGuards`**: one request through the five global guards and the filter,
while one fact about its token and account turns between any two.
`AdmittedWasAllowed`: at the handler, every condition of the route was true at
some moment since the request came.  Three gaps are the code's and are named in
the property: a failed credential query and a failed status query count as met,
and the status of a deleted account does.  `RefusedForAReason`: who meets every
condition throughout is not refused, and a 500 means that a store or the handler
failed.  A `@Public` route skips the session guard but still mounts account and
identity.  The header `Identity-Id` is read in that spelling, which Node never
uses: only body and query name an identity, and so it is here.

**`IdentityActivity`**: `recordActive` (throttled) and the flush: SMEMBERS and
MGET, UPDATE, SREM.  `MarkedTimeLands`: a marked time reaches the database though
runs die; the exception (`missed`) is a time set between the run's read and its
SREM, or set late over a newer one.

### Proofs of these modules

Each proof has the same outline.  An invariant says where every call is and what
it holds there (its *shape*), what it has read that is still so, and the property;
a lemma per kind of step says what changes for the call that moves, and that the
others keep what they hold.  A composed specification picks a subject and leaves
the other variables alone, so `ServicesRefineEach`, `RecordsRefineEach` and
`UploadsRefineEach` show once that its behaviours are behaviours of each module.

- `KafkaCommits`, `RabbitLeaves`: below every offset that was committed, requested
  or reached there are only processed messages (`KafkaInv`); a dead message has
  its retries in the header (`RabbitInv`).
- `GuardsHold`: `GuardsInv` records, guard by guard, what a request has shown when
  it is past it (`TokenShown` to `PermissionShown`), over the history `held` of
  each fact.
- `HealthAnswers`: `Fresh` bounds the age of a trouble, and of an outage, that a
  computation in flight or a cached report does not know of by how long it has run
  or lived.
- `LogsAreStored`: a request's log has its row, is in the topic, or was lost by a
  named failure (`LogsPlaced`), and is not in two of the places (`Once`).
- `CacheComputesOnce`: `LockHeld` (a holder's callback ends before its lock) and
  `WaitersOutlast` (a waiter's deadline outlasts the lock it saw) relate the three
  clocks; `Undisturbed` is what holds while nothing went wrong.
- `CronsFollowTheCode`: what each phase of a start has cleared and registered.
- `TasksAreNotLost`: what a call that was not raced knows of the job
  (`UnracedKnows`), and that answered data are pending or were handled.
- `BootstrapIsSafe`: until somebody deletes it, the administrator's rows come and
  stay together, and a job that is not settled has an attempt left.
- `DepartmentsAreSafe`: `TreeSound`, of which `PathsHold` carries the argument: an
  id path is the set of ancestors, defined as the least set that is closed under
  the parent, so that moving a leaf and adding one keep it.
- `LocalIsSafe`: `WholeInv` (a file only one completion had a hand in holds what it
  has copied, and once there is an object it is missing only while a completion
  replaces it, or as `cut` says), `QuietInv` (the call that is to write the row
  knows it), `KeptInv` (an accepted part that is gone is being replaced or is in
  `lost`; where no call crossed or failed, a temporary file goes only with the
  directory of a row that ended) and `ClearedInv` (a part on the disk serves a row
  or somebody is about to remove it).  It is instantiated for both subjects of the
  run.
- `BrowserUploadIsSafe`: `PageInv`.  `InitWatched` and `OpenIsKnown` say who still
  has to undo an upload that is open, `NoPartLost` where each part is: on the
  server, waiting, or in the hands of a worker of this very run.
- `CopiesAreRows`: `FileOpHolds`, what an operation is about to write is the row,
  or the row is `suspect` and the operation knows.
- `PermissionsAreFresh`, `RolesAlone`: `GuardHolds` (what a guard has read so far
  is the tables', or the user is marked `overfilled`)
  and, serially, that bindings name roles that exist (`RowsBound`).
- `CachedAccountsFresh`, `NamesStayUniqueAlone`: `RequestHolds` and `NamesTracked`
  (a name's entry is its holder's, or somebody is about to evict it, or it is in
  `leaked`); serially, that a name a call has looked up is free (`AcAlone`).
- `CallsFollowConfig`: `StoreInv`, a call about to send holds the context of the
  row it has read, as does the cache, and an answer fits its operation (`Fits`).
  That the parts of a completion can be put in order is `SetsHaveOrder`.
- `DataTranslates`: `DataInv`, a process between its two writes is alone there and
  the published tree is its own, or the group is `spoilt`.  `FlattenKeeps` follows
  the recursion of `Flatten` item by item.

`SetsHaveOrder` and `FlattenKeeps` are inductions.  The prover cannot instantiate
the induction theorem of the library, so they argue by the least number at which
the claim fails (`LeastNumber`, from the well-foundedness of the numbers).

## 5. What is proved, what is model-checked

Proved by TLAPS for every value of the constants: every safety invariant and
action property of the passing runs, with the inductive invariants of sections
3 and 4; that `OssStorage` implements `VersionedRegister`; and that the composed
specifications implement those of their parts.

The assumptions are those the modules name, and TLC evaluates each on an instance.
They say three things: bounds and times are natural numbers; `None` and the names
that stand for no row, account or part are none of the values they are compared
with (`null` and literals in the code); and of times, what the code's comments or
its checks demand: a callback is shorter than its lock, a report lives for a
while, a job is tried at least once.  `Proc` is not empty in `MCOssUpload`: a
browser has a worker.  There is a bucket, parts have numbers, and the files of the
reference data hold trees, whose first item is no child.

Model-checked only: liveness, which is out of the prover's reach, as is `ENABLED`:
`Converges`, `AnsweredTaskRuns`, `RunEnds`, `EveryCallEnds`, `EveryWrapEnds`,
`MarkedTimeLands`.

## 6. Not modelled

- Listings, paging and profile views: reads without effect.
- `resolveMultipartChunkSize` and the arithmetic of part sizes: a list of parts is
  complete or not.
- Avatars: one write that follows a file; as the code stands `uploadAvatar` builds
  a path the local store refuses.
- Log files: streams of one process; nothing else reads them while they are open.
- Issuing, signing and parsing of tokens: external libraries.
- Transforms, pipes but for their refusal, formatting of answers, the
  thread-local request context.
- Process configuration: read once, its values are constants of the modules.
- Pure helpers, entities, DDL, wiring, the playground; unique indexes and primary
  keys appear as guards of the statements that meet them.  There are no foreign
  keys.
- The legacy upload mode in which the client names the object key.
- Clean-up rules of the object store and of the broker.

PostgreSQL, Redis, TypeORM, BullMQ, the brokers, the object store and the browser
are modelled as the code uses them.
