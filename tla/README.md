# A verification project for mini-s3-clone

mini-s3-clone is an S3-like object store: a Go/fiber HTTP server, a worker
process, MySQL for metadata, a shared directory `./storage` for the files, Redis
for rate limiting and (through asynq) for background tasks. This directory holds
TLA+ models of it, TLC runs on small instances, and TLAPS proofs for all
instances.

- [Inventory](#inventory) - the system, part by part
- [Modules](#modules) - what models what, and how
- [Runs](#runs) - what each run checks, and its bounds
- [Fairness](#fairness)
- [Findings](#findings) - where the code does not do what it says
- [Proofs](#proofs)
- [Not modelled](#not-modelled), [Plan](#plan)

Run a check with `tlc -config Versioned.cfg MCObjectStore.tla`, a proof with
`tlapm ObjectStoreProofs.tla`. `PROJECT.json` lists the runs, the map from
definitions to source lines, the hazards, and for every property a mutant of the
model that it catches.

## Inventory

| component | source | state | operations |
|---|---|---|---|
| metadata tables | `db/mysql.go`, `sql/schema.sql` | rows of `users`, `buckets`, `files`, `tasks`, `email_verifications`; `bucket_name` and `email` unique, `ON DELETE CASCADE` from buckets to files | one SQL statement at a time; gorm wraps each in a transaction of its own, no handler opens a longer one |
| blob storage | `handlers/file_handlers.go` | files under `./storage/<bucket>/` named `<key>` or `<version>_<key>` | `SaveFile`, `os.Remove`, `os.Stat`, `SendFile` |
| bucket handlers | `handlers/bucket_handlers.go` | none of their own | create, delete, list, inspect a bucket; enqueue "empty" and "copy" |
| file handlers | `handlers/file_handlers.go` | none of their own | three uploads, two downloads, delete, two that create presigned URLs |
| bucket tasks | `handlers/bucket_handlers.go`, `handlers/task_handlers.go`, `worker/worker.go`, `tasks/tasks.go` | a queued message, a `tasks` row with status and progress | enqueue; empty or copy a bucket file by file; report |
| task queue | asynq on Redis (library) | pending, active, retry and archived tasks | at-least-once delivery, retries, timeouts |
| accounts | `handlers/auth_handlers.go`, `auth/auth.go` | a user row (verification flag, access key, secret key hash), email tokens with expiry | sign up, send and use a verification link, log in, replace the keys |
| request signing | `auth/auth.go`, `middleware/auth.go` | none | look up the access key, verify an HMAC over method, path and expiry |
| presigned URLs | `utils/utils.go`, `middleware/presigned_url.go` | none (the URL carries everything) | create, validate |
| rate limiter | `middleware/rate_limit.go` | a counter with a TTL in Redis, for each client address | INCR, EXPIRE, TTL |
| wiring | `cmd/server/main.go`, `cmd/worker/main.go` | none | routes, start-up, shutdown |

**How they interact.** All components meet in the shared state: the tables, the
storage directory and Redis. There are no locks and no multi-statement
transactions. The server runs each request in a goroutine, the worker ten tasks
at once; the only call between processes is a task in the queue.

**What is hard about it.** Every handler is a sequence of independent
statements and file-system calls: it reads a row, decides, writes a file, writes
a row. Anything may happen between two of these steps: another request on the
same key, the deletion or re-creation of the bucket under the same name, an
error response, a crash. Several errors are ignored. Nothing is rolled back
and nothing is repaired at start-up.

**What makes each part correct.**

- *Store.* A row is served with the content of the upload that created it; at
  most one row of a name without versioning; one latest row of a name with
  versioning, and it is the newest; only empty buckets are deleted; nothing
  remains on disk without a row; a request takes effect at once or not at all.
- *Bucket tasks.* A task row that is enqueued ends; a copy holds each file at most
  once for each time it is taken up; progress goes back only in a repeated attempt;
  "completed" means that the work is done; a task updates its row and no other.
- *Accounts and signing.* A verified account stays verified; a token is used at
  most once and not after its expiry; replaced keys open nothing.
- *Rate limiter.* No more than the limit in a window, and a refused client is
  admitted again.

The hazards behind these, each at its line, are listed in `PROJECT.json`.

## Modules

| module | models | state and actions |
|---|---|---|
| `Store` | one SQL statement or file-system call each, on `buckets`, `files` and `./storage` | `buckets`, `files`: sets of rows. `disk`: path to content. `uuid`: the next fresh UUID |
| `ObjectStore` | the bucket and file handlers | `up`, `del`, `mk`, `drop`: the local variables of the requests in progress; one action for each step of each handler |
| `ObjectSpec` | what the handlers promise together | `store`: bucket name to versioning and, for each key, the set of its uploads with the time of each; `clock`; atomic create, delete, put, delete of one upload |
| `StoreView` | - | the refinement mapping from the tables to the uploads: a row's id is its time |
| `ObjectStoreRefinement` | - | `Refines`: the handlers implement `ObjectSpec` |
| `BucketTasks` | the two enqueueing handlers, asynq, the worker, the rows of table `tasks` | `tasks`, `queue`: the rows and the messages. `ask`, `run`: the local variables of requests and executions. `faults`: which faults the behaviour has |
| `JobSpec` | what a background task promises | `todo`: the files still to be dealt with. `state`: of the task |
| `System` | server and worker together | the variables of `ObjectStore` and `BucketTasks`, on one `Store`; `crossed`: a history variable |
| `Accounts` | accounts, links, keys, signed requests, presigned URLs | `users`, `links`, `buckets`: rows. `inbox`, `urls`: what users hold. `req`: the requests' local variables. `replaced`: a history variable |
| `RateLimit` | the limiter for one client address | `count`, `ttl`: the Redis key. `req`: requests between INCR and EXPIRE. `faulty`: may an EXPIRE be lost? `recent`: a history variable, the requests admitted within the last window |
| `MCObjectStore`, `MCBucketTasks`, `MCSystem`, `MCAccounts` | - | symmetry, initial stores and sets of faults for TLC |
| `ObjectStoreProofs`, `UnversionedProofs`, `SerialProofs`, `RefinementProofs`, `SystemProofs`, `BucketTasksProofs`, `AccountsProofs`, `RateLimitProofs` | - | theorems |

`Store` is extended by `ObjectStore` and `BucketTasks`. `System` extends the
handlers and takes the tasks as an instance (`Tasks`) over the same tables and
disk; a step of the system is a step of one of them.

### The handlers, step by step

A handler's local variables are what it READ, and stay as they are while the
tables change. Its field `at` is the step it takes next.

| handler | actions |
|---|---|
| `UploadFile`, `UploadFilePresignedURL`, `UploadFileMultipart` | `Upload` (bucket look-up) -> `DemoteLatest` (versioning on: UPDATE) or `CheckFree` (off: SELECT) -> `SaveFile` -> `InsertRow`; the multipart loop repeats the last three for its next file (`EndPart`) |
| `DeleteFile` | `Delete` (look-ups) -> `RemoveFile` (`os.Remove`) -> `DeleteRow` -> `FindNewest` -> `PromoteNewest` (the last two only after the latest row of a versioned bucket) |
| `CreateBucket` | `Create` (name look-up) -> `InsertBucketRow` |
| `DeleteBucket` | `Drop` (look-up) -> `CountFiles` -> `DeleteBucketRow` (cascades) |
| `DownloadFile`, `DownloadFilePresignedURL` | change nothing: the operators `Download`, `PresignedDownload` give what they may answer |

`UploadAborts`, `DeleteAborts`, `CreateAborts` and `DropAborts` end a handler
before any step: an error response or a crash of the server. A failed `SaveFile`
may leave part of a file (`Torn`). A failed file of a multipart upload is
skipped and the loop goes on. Errors the code does not look at (the demoting and
the promoting UPDATE; a SELECT taken for "no row"; a COUNT taken for 0) are
disjuncts enabled by `"ignored" \in Faults`.

### The tasks, step by step

| code | actions |
|---|---|
| `EnqueueEmptyBucketTask` | `Ask` -> `Enqueue` -> `Record` |
| `EnqueueCopyBucketTask` | `Ask` -> `FindDest` -> (`CreateDest`) -> `Enqueue` -> `Record` |
| `HandleEmptyBucketTask` | `Start` -> `FindSource` -> `ListFiles` -> for each row `RemoveFile` -> `DeleteRow` -> `Progress`, then `Finish` -> `Acknowledge` |
| `HandleCopyBucketTask` | `Start` -> `FindSource` -> `WorkerFindsDest` -> (`WorkerCreatesDest`) -> `ListFiles` -> for each row `ReadFile` -> `WriteFile` -> `InsertRow` -> `Progress`, then `Finish` -> `Acknowledge` |
| asynq | `Retry` after an error or a kill (`Stops`) or a timeout (`TimesOut`), `MaxRetry` times, then "archived" |
| `cmd/worker/main.go` | `ShutsDown`: a signal and `srv.Shutdown` end every execution, and asynq puts the active messages back (`Requeue`) without counting a retry |

The row of a task is created AFTER its message, so the worker may be anywhere
when `Record` happens. An execution that exceeds its timeout becomes `late`: asynq
has started its successor, but the handlers never look at their context, so it
goes on, and what it returns is ignored. A killed worker is noticed by the lease of
its message, which counts as a failure; a worker that is shut down hands its messages
back, and the task begins again with the retries it had left. `requeued` is a history
variable that counts this, `Again` is how often a task was taken up again either way.
The UPDATEs of the task rows select by
user and source bucket (a copy also by destination), so `Reported` may be several
rows or none. `GetTaskProgress` reads a row and changes nothing.

### Accounts and requests, step by step

| code | actions |
|---|---|
| `SignUp` | `SignUp` (one INSERT) |
| `CreateVerificationLink` | `InsertLink` -> `SendMail` |
| `VerifyEmail` | `Click` (SELECT) -> `MarkVerified` (UPDATE) -> `DeleteLink` |
| `CreateSecretKey` | `ReadAccount` (SELECT, bcrypt) -> `SaveKeys` (every column) |
| `AuthMiddleware` | `Validate` (`ValidateRequest`: first look-up, signature, expiry) -> `FindUser` (second look-up) -> one of `InsertLink`, `GiveUrl`, `MakeBucket`, `DropBucket` |
| `ValidatePresignedURL` and its handlers | `Present` (bucket by name) -> `CheckSignature` (its owner's secret) -> `Act` (bucket by name again) |

`Aborts` ends any request before any step: an error, a mail that cannot be sent, a
crash, an error of the last DELETE that the code ignores.

### Abstractions

- Contents are told apart by their size, which is what the row records too.
  A path is a triple of bucket name, key and version id; file names are assumed
  never to look like `<version>_<key>` of another key.
- `Delete` makes one step of the two SELECTs at the head of `DeleteFile`: a row's
  bucket exists as long as the row, and bucket rows are never updated, so no other
  request can tell. The same holds for the middleware's look-up and the
  handler's own in the presigned upload, which looks the bucket up again by name
  without its owner: `Upload` may choose any bucket and any owner.
- A UUID is the next value of a counter. A file row takes its id in the call that
  stamps `created_at`; two equal time stamps are not modelled, so the order of
  ids is the order of `ORDER BY created_at`.
- The three uploads differ in what they store as version of an unversioned file
  (an empty string, or a UUID nothing else uses): `CheckFree` allows both.
- A request that is refused before its first write changes nothing, and so is no
  action.
- The rows of a task are dealt with in any order: the SELECT has no ORDER BY.
- Any pending message may be taken up next. asynq's queue is first in, first out, but
  ten executions and retries let messages overtake each other; the counterexample of
  `mixed_tasks`, where an emptying runs before an older copy, needs one of these.
- `ShutsDown` ends all executions at once. Those that asynq waits for (it gives them some
  seconds) end before it, by steps of their own.
- A read and a write of a whole file by the copy are one step each; a write that is
  cut short is `"torn"`.
- An access key and its secret are drawn and saved together: one value stands for
  both. A signature or URL is the key that made it; the HMAC, and what it covers
  besides (method, path, object, version, expiry), are left out, as is the clock:
  something that has expired is refused, without a trace.
- `MakeBucket` and `DropBucket` of `Accounts` are one step each: only the owner of
  the name matters there. `ObjectStore` has their steps.

## Runs

`CHECK_DEADLOCK FALSE` stands in the configurations of the store: a server
without requests does nothing, and the bound on UUIDs ends every behaviour. The
slots of a kind, and the contents, are interchangeable, and the properties treat
them alike, so they form symmetry sets (no run with symmetry checks liveness).
`RateLimit.cfg` checks for deadlock, as time always passes.

| run | configuration | checks | states |
|---|---|---|---|
| `versioned` | 2 uploads, 1 delete, 1 create, 1 drop; all faults; one key, two contents; `MaxUuid` 4 | `TypeOK`, `VersionedInv`, `VersionedBlobsIntact` | 1.7 M |
| `serial` | `Serial`: one request at a time, of all four kinds; two keys, two contents; `MaxUuid` 6 | `GetReturnsNewest`, `AtMostOneLatest`, `PlainFilesHaveRows`, `Refines` | 39 k |
| `refinement` | 1 multipart upload, 2 deletes, 2 creates; aborts; `MaxUuid` 5 | `NoForeignContent`, `Refines` | 0.9 M |
| `tasks` | one task, emptying or copy; five initial stores; 2 executions at once, `MaxRetry` 2, `MaxRequeues` 1; without faults; with stops and timeouts; with stops, shutdowns and one of: torn files, a bucket deleted meanwhile | `TypeOK`, `CompletedIsDone`, `CopiesPerAttempt`, `ProgressForward`, `RowReported`, `ImplementsJob` | 0.61 M |
| `system` | 1 upload, 1 delete, 1 create, 1 emptying (1 execution, `MaxRetry` 1, `MaxRequeues` 1); two keys, two contents; without faults, with stops and shutdowns, with silent errors; `MaxUuid` 5 | `PlainBlobsUnlessCrossed`, `SomeLatestOrEmptying`, `VersionedBlobsIntact`, `NoForeignContent`, `Refines` | 3.2 M |
| `access` | 2 users, 3 requests at once, one bucket name; `MaxFresh` 5 | `TypeOK`, `RevokedOpensNothing`, `ActsForMaker` | 5.1 M |
| `rate_limit` | 3 concurrent requests, limit 2, window of 3 ticks, `MaxCount` 4 | `TypeOK`, `ExpireIsOwn`, `TwiceTheLimit`, `AdmittedUnlessLost` | 567 |
| `task_row_race` | one task, 1 execution, no faults | `EventuallyReported` violated | |
| `mixed_tasks` | two tasks, 1 execution, no faults | `OwnProgress` violated | |
| `emptied_other` | 1 upload, 1 create, 1 drop, 1 emptying; two users; no faults | `EmptiesOwnBucket` violated | |
| `verified_undone` | 1 user, 2 requests | `VerifiedStays` violated | |
| `two_latest` | 2 uploads of a key, no faults | `AtMostOneLatest` violated | |

What they show, and why the bounds are enough:

- **`versioned`** is the strongest statement about concurrency that the code
  meets: under every overlap of every handler and every fault, a row of a
  versioned bucket has its file, complete and its own. It needs the UUID in the
  path, the file written before the row, and that `DeleteFile` removes a path no
  version has. `MaxUuid` only stops new uploads and buckets, those begun go on,
  so three uploads and a bucket that is deleted and created again fit in; this
  is also what `ObjectStoreProofs` proves for every bound.
- **`serial`** is the code without concurrency and faults: its long sequences of
  uploads, deletes of latest and old versions, bucket deletions and
  re-creations. Three versions of a key, as `MaxUuid` 6 allows, are needed to
  tell the newest from any other that is left.
- **`refinement`** shows that a request's effect is one instant: the row inserted
  or deleted. An aborted upload, a lost INSERT, a repeated delete and a failed
  creation of a taken name are stutters. It holds with one uploader and no
  bucket deletion; both are needed when requests overlap (see the findings).
  `serial` checks the same of requests one at a time, bucket deletions among
  them.
- **`tasks`** starts from a bucket with two files, alone, beside an empty bucket of
  the same or of another user, or with a row whose file is gone, and from a bucket
  with two versions of a key. Two files tell a first from a last round, three
  attempts a retry from the last one, and two executions let one that outlived
  its timeout run beside its successor. One shutdown for each message lets a task be
  cut off anywhere, in its first attempt or its last, and begin again with no retry
  counted. `CompletedIsDone` asks of a bucket with versioning only for its rows: the
  emptying leaves the files of versions, and a copy writes none (`EmptyLeavesNothing` and
  `CopiesReadable`, refuted: see the findings). Of others it holds in all of the run but one case: a worker that
  stops between "completed" and the acknowledgement is tried
  again, and a repeated copy that is cut short leaves a torn file under a
  completed row until the next attempt - or for ever if that was the last
  (`Repeated`). `ImplementsJob` maps all attempts of a task to one abstract job.
  With timeouts AND torn files the property fails, as a late execution may be cut
  short after its successor has finished; `Modes` has no such set. Nor has it timeouts
  with shutdowns, for the number of states; the proofs cover the two together.
  `ProgressForward` lets progress go back when a task is taken up again, by a retry or
  after a shutdown, and then in its first round only, unless an UPDATE is lost or an
  older execution is late. `RowReported` is about rows that are there before anything
  failed, and is met by a task that asynq has given up, whose row stays "running". With "drop" a
  `DeleteBucket` takes the destination from under a task that is queued or
  running: the worker makes it again (`WorkerCreatesDest`), at once or after the
  attempt failed at its first row. It is one step here, so no row is lost between
  its count and its DELETE, which is what `ObjectStore` is for.
- **`system`** lets the emptying overlap everything else. That a client sees it as
  single deletes (`Refines`) holds even when errors are silent.
  `PlainBlobsUnlessCrossed` says why the file of a later upload is safe from an
  old list: its name is taken as long as the row of the list exists. A
  `DeleteFile` that removes the same row breaks this (`crossed`), as the worker,
  or the `DeleteFile`, then removes the file of the next upload of that name.
  With no worker active both properties say what `PlainBlobsIntact` and
  `SomeLatest` of `ObjectStore` do. `DeleteBucket` is left out: see the findings.
- **`access`**: two users can hold a name one after the other, and three requests
  overlap a key replacement with a verification and with a third. A presigned URL is
  checked for one bucket and acts on the one its name has later: `ActsForMaker` says that
  the first is its maker's, and that the second is the same or was created after it - by
  whom, nobody asks. `MaxFresh` 5
  draws two first key pairs and three more keys, links or buckets: enough for a
  bucket, its replacement by another user's, and new keys.
- **`rate_limit`**: `MaxCount` 4 is twice the limit: past `Limit + 1` the counter's
  value makes no difference to any request. Three slots let an EXPIRE be late
  while the others go on. `TwiceTheLimit` is what a fixed window gives: 20 a
  minute means up to 40 within some minute.

`"silent"` faults are in `system` and not in `tasks`: an emptying that only warns
reports files as gone that are not, so `CompletedIsDone` does not hold with them.

## Fairness

The handlers' properties are safety properties; their specification has none,
and neither have those of `System` and `Accounts`.

`BucketTasks` assumes weak fairness of `Serve(q)` (a request that has begun goes
on), of taking up messages (`\E w : Start(w)`: asynq polls the queue and has ten
goroutines) and of `Work(w)` (an execution goes on). Requests need not come, and
faults need not happen. A failure, a kill or a timeout costs an attempt, of which
there are finitely many, so no fairness has to exclude them. A shutdown costs none:
here `MaxRequeues` bounds them, which stands for the assumption that the worker is not
shut down for ever again before a task can end.

`RateLimit` assumes weak fairness of `Tick` (time passes) and of `Expire(r)` (a
goroutine that has sent INCR goes on; Go's scheduler is fair and the call has a
timeout). Requests (`Incr`) are not fair: nobody has to send any. `ExpireLost`
competes with `Expire` only in a behaviour that is `faulty`.

## Findings

Each is a run with `expect: violation`, whose counterexample TLC prints.

1. **`task_row_race`.** The worker may finish a task before the handler creates its
   row. Its UPDATEs find no row, and the row that comes then says running, 0, for
   ever. `RowReported` (in `tasks`) shows that this is the only way: a row that is
   there when the message is taken up is completed, or asynq gives up after the
   last retry - and then, too, the row stays "running": no code writes "failed".
2. **`mixed_tasks`.** Emptying a bucket moves the progress of every task row of the
   bucket, and completes a copy of it that has not begun.
3. **`emptied_other`.** The worker looks for the bucket by name only. If it was
   deleted and its name taken by another user since the request, it empties the
   other user's bucket.
4. **`verified_undone`.** `CreateSecretKey` saves the row as it read it, and with it
   the old `is_verified`.
5. **`two_latest`.** Two uploads of a key both demote the latest row and then both
   insert a latest one. `AtMostOneLatest` holds of requests one at a time (`serial`).

Others are no runs of `PROJECT.json`, as each is a property that the code refutes
wherever the case comes up. Each has a configuration of its own, with which TLC prints
the counterexample:

| configuration | property refuted | what the code does |
|---|---|---|
| `TwoUploads.cfg` (`MCObjectStore`) | `UniqueName` | two uploads of one name without versioning both find it free; two rows share the name and the file |
| `LostLatest.cfg` (`MCObjectStore`) | `SomeLatest` | an upload that fails after it has demoted the latest version leaves the key without one: a plain download answers 404 although versions exist |
| `LeftVersions.cfg` (`MCObjectStore`) | `VersionedFilesHaveRows` | deleting a version leaves its file on disk |
| `DroppedFiles.cfg` (`MCObjectStore`) | `DropOnlyEmpty` | a file stored between the COUNT and the DELETE of `DeleteBucket` loses its row to the cascade; its upload was answered 201 |
| `PresignedPlain.cfg` (`MCObjectStore`) | `PresignedServes` | the presigned download of an object of an unversioned bucket always answers 404: it looks for `<version>_<name>` |
| `EmptiedVersions.cfg` (`MCBucketTasks`) | `EmptyLeavesNothing` | emptying a bucket with versioning removes its rows and none of its files: the worker looks for `<name>`, warns that it is not there, goes on and reports "completed" |
| `UnreadableCopy.cfg` (`MCBucketTasks`) | `CopiesReadable` | a copy into a bucket with versioning creates rows without a version and files `<name>`, where `DownloadFile` looks for `_<name>` |
| `LostExpire.cfg` (`RateLimit`) | `EventuallyAdmitted` | a failed EXPIRE leaves a counter without TTL; the client is refused for ever, with a `retry_after` of no use to it |

Two more things to know:

- A versioned bucket cannot be copied: the worker reads the path without the
  version, fails, and is archived after the last retry (`tasks`, where no such copy
  is ever "completed").
- Two deletes of one row break `PlainBlobsIntact`: the second, which has read the row
  the first deletes, removes the file of an upload of the name in between.

## Proofs

The theorems hold for every set of names, keys, users, contents and slots, every
bound and every choice of faults, unless a hypothesis is named. Each rests on the
named assumptions of the modules (`TornAssumption`, `BoundsAssumption`, ...).

| theorem | states | hypotheses |
|---|---|---|
| `ObjectStoreProofs!TypeCorrect` | `TypeOK` | |
| `ObjectStoreProofs!VersionedInvariant`, `VersionsIntact` | `VersionedInv`, `VersionedBlobsIntact` | |
| `UnversionedProofs!OwnContentOnly` | `NoForeignContent` | `SoleUploader`, no ignored errors |
| `SerialProofs!OneLatest`, `NewestServed`, `NothingLeftBehind` | `AtMostOneLatest`, `GetReturnsNewest`, `PlainFilesHaveRows` | `OneByOne` |
| `RefinementProofs!RefinesWhileUploadsDoNotOverlap` | `Refines` | `SoleUploader`, no ignored errors, no `DeleteBucket` |
| `RefinementProofs!RefinesOneByOne` | `Refines` | `OneByOne` |
| `SystemProofs!EmptyingSparesVersions` | `VersionedBlobsIntact` of server and worker | `OnlyEmptyings` |
| `SystemProofs!EmptyingKeepsContent` | `NoForeignContent` of server and worker | and `SoleUploader`, no ignored errors |
| `SystemProofs!EmptyingRefines` | `Refines` of server and worker | and no `DeleteBucket` |
| `SystemProofs!EmptyingKeepsPlainBlobs` | `PlainBlobsUnlessCrossed` | `OnlyEmptyings`, `OneEach` |
| `SystemProofs!EmptyingLeavesALatest` | `SomeLatestOrEmptying` | `OnlyEmptyings`, `OneDeleter` |
| `BucketTasksProofs!TasksTypeCorrect` | `TypeOK` | |
| `BucketTasksProofs!NeverBack` | `ProgressForward` | `OneTask` |
| `BucketTasksProofs!CompletedMeansDone` | `CompletedIsDone` | `OneTask`, `Loud`, `Settled` stores |
| `BucketTasksProofs!OneCopyPerAttempt` | `CopiesPerAttempt` | `OneTask`, `Uncopied` stores |
| `BucketTasksProofs!AttemptsAreOneJob` | the safety part of `ImplementsJob` (`Job!Safety`) | `OneTask`, `Loud`, `Settled` and `Uncopied` stores |
| `AccountsProofs!TypeCorrect`, `RevocationIsFinal`, `UrlsActForMaker` | `TypeOK`, `RevokedOpensNothing`, `ActsForMaker` | |
| `RateLimitProofs!TypeCorrect`, `OwnWindow`, `TwoWindows` | `TypeOK`, `ExpireIsOwn`, `TwiceTheLimit` | |

`SoleUploader` says that there is one upload slot, `OneByOne` that requests come one
at a time and nothing fails (`Serial`, no faults), `OnlyEmptyings` that no copy is
asked for, `OneEach` that there are one upload slot, one delete slot and one execution,
no `DeleteBucket`, no abort and no ignored error, `OneDeleter` that there is one delete
slot, no abort and no ignored error (the uploads and executions are any number, and buckets
may be deleted), `OneTask` that one requester asks for one task, `Loud` that no error passes
for a warning and that torn files and timeouts do not come together, `Settled` that the
store to begin with was left by handlers that did not fail - every file without a version
is some row's, every file of a version is under the name of a bucket with versioning -
and that the buckets asked for as destinations are empty, `Uncopied` that these are empty and no bucket has two rows of
one name and version (which `UniqueName`, and the ids of versions, give). None is an assumption on the code: each names the
circumstances in which the code does what the property says. The configurations of
the runs are instances of them. Where TLC finds the property violated without one,
the runs or the findings say so. Of `Settled` one part is more than handlers without a
failure give: `DeleteBucket` leaves the files of deleted versions behind, so a bucket
without versioning may be created over them, and emptying it would not remove them (see
the findings); the theorem is about names that were not used so. An empty destination and a single requester only
keep the proof simpler.

### Versions

`VersionedBlobsIntact` is not inductive. `VersionedInv` adds what its preservation
rests on:

- `BlobFirst`: an upload about to insert its row has its blob in place. Without
  it `InsertRow` could add a row with no file.
- `OwnVersion`: no other upload, running or finished, has its version id. Without
  it `SaveFile`, whole or torn, could overwrite the blob of a row.
- `Drawn`: every id in use is below `uuid`, so a new one is fresh. `OwnVersion` and
  `OneRowPerId` would not survive a draw otherwise.
- `OneRowPerId`: the bucket an upload remembers is, while it exists, the bucket with
  that id. Without it a bucket deleted and created again with other settings could
  give the path another meaning.
- `NamedVersions`: a row of a versioned bucket has a version id, so `RemoveFile`,
  whose path has none, never removes its file.

Most steps only shrink the tables or advance a handler; `HarmlessStep` says what
they have in common and `HarmlessKeepsInv` treats them once. The others
(`DrawKeepsInv`, `SaveKeepsInv`, `InsertKeepsInv`, `TornKeepsInv`,
`NewBucketKeepsInv`) have a lemma each.

### Names without versioning

A row without versioning shares its path with every upload of the name, before it
and after it. `PlainInv` says why one uploader never writes under a row:

- `NameFree`: between `CheckFree` and the row, no row has the name (the SELECT found
  none, and only an upload adds rows). Two uploads, or a SELECT whose error is taken
  for "no row", break exactly this.
- `NewBucketEmpty`: nor has a bucket that took the bucket's name meanwhile any rows;
  the file would be written under them.
- `OwnContent`: what it wrote stays as it is until the row is there.
- `AllLatest`: `CheckFree` looks at latest rows only, and without versioning all are.

### One request at a time

`SerialInv` describes the store between requests (`Steady`: one latest row of each
name, and it is the newest; every file without version has its row, and every such
row its file) and, for the one request that is under way, which of these it has
suspended and what will restore it. `GetReturnsNewest` and `PlainFilesHaveRows`
speak of the quiet states, `AtMostOneLatest` of all.

### Refinement

`StoreView` reads the abstract store off the rows alone, so every step that changes
no row and no bucket is a stutter, and a demotion or promotion as well: it changes
no id, name or size. `InsertRow` is `Put` at the time `uuid`, `DeleteRow` is the
`Delete` of one upload or, when the row has gone, a stutter, `InsertBucketRow` is
`CreateBucket` or, when the name is taken, a stutter. That `Put` finds the object
absent without versioning is `UniqueName` and the invariant behind it. `DeleteBucketRow`
is `DeleteBucket` only if the bucket is still empty: COUNT and DELETE are two steps,
so it is proved of requests that come one at a time.

### Server and worker

To the handlers' tables a step of a task, if no copy is asked for, does one of four
things (`TaskEffect`): it draws an id or changes nothing (a shutdown among these: an
emptying writes no file that could be cut short), removes a file without
version, deletes one row, or deletes an empty bucket. `NoCopies` is the invariant
that keeps executions away from the other steps. All four are what some handler
might do, and the invariants above survive each; `SystemProofs` proves
`VersionedInv`, `PlainInv` and `Refines` again on that basis, whatever state the
task is in. With copies they would not hold: a copy into a bucket with versioning
inserts rows whose version has no file.

Two properties speak of what is new beside the worker, an emptying that holds a list of
rows while handlers go on. Both are stated of behaviours in which nothing has failed yet.

`PlainBlobsUnlessCrossed` rests on `CrossInv`. A row without versioning that has been
read is there until its reader has deleted it (`DeleteHeld`, `RunHeld`); while it is
there its name is taken, so no upload can write the file (`NameFree` of `PlainInv`); so
the file its reader removes is still its own. Two readers of the same row end that, which
is `crossed`, and so would a second delete or a second execution, of which `crossed`
says nothing: `OneEach`. `FileWritten` carries an upload from its file to its row. An
abort between the two removals of a delete leaves a row without file.

`SomeLatestOrEmptying` rests on `LatestInv`. Its heart is `NewestAttended`: the newest row
of a name is the latest, or an upload or a delete is about to make one latest, or the row
is on an emptying's list. Then so are all older ones (`OlderListed`: the list was all of
the bucket, and new rows have higher ids), which is why the emptying may take the
latest version away and promote none. A delete promotes only if the row it read was
latest; with one delete at a time no row becomes latest after that (`DeleteKnows`), and
two deletes, or an abort after the demotion, lose the latest for good (see the findings).
That a name with rows has a newest one (`SomeNewest`) is the library's `WFMin` on the ids
below `uuid`.

### Tasks

`TypeOK` of `BucketTasks` needs to know what an execution has read at each stage:
`TypeInv` says that it has its bucket once it is past "source", its destination past
"create", that the file it deals with is one of those left, and that these are finite
and not more than `total`, so that `Percent` divides by a positive number and ends
at 100. The stores it may begin with are those of `StockAssumption`: typed, with unique
ids and names, and no row without its bucket.

The others are about one task, whose executions may fail, be killed, be shut down and
outlive their timeout in any order. `OneJob` says that all rows, requests and executions
are of its message, `Solo` that without timeouts there is one execution at a time.
`NeverBack` rests on two invariants. `FirstAttempt`: until the task is taken up again there
is one execution at most, and the row is `Within` what that has done, which only grows
(`ShareGrows`). `Steady`: in any attempt, past the first round of the loop, the row shows no
more than the share of the rounds that are done, unless an UPDATE may be lost or an older
execution may be late. So a repeated attempt can take progress back once, in the first
round, when it reports a share of its own list.

`CompletedMeansDone` has to show that what an execution has dealt with stays so while
others, of the same task, are anywhere in it. `DoneInv` therefore speaks of each
execution by itself and of the store:

- `Known`: the buckets it has read are as it read them or gone, and no other has taken
  the source's name.
- `EmptyingSound`: the rows of the bucket are among those it has left, and at each
  stage the file, then the row, is gone. `TakesAway` is all that another emptying does
  to the store, so this survives (`EmptyingStays`).
- `CopyingSound`: each row of the source that it has not left is `Copied`: a row in a
  destination, and a file that is like the source's (`Twin`). Another copy only `Adds`,
  and rewrites a file by the same content (`TwinsKept`), so this survives too
  (`CopyingStays`) - but for a write that is cut short. Then nothing else runs (`Solo`),
  and a row that is already completed is one whose message is taken up again
  (`Repeated`), which needs `FirstAttempt` once more.
- `StoreSound`: the tables are as `StoreOK` has them, a destination has no rows but
  copies (`DestFilled`; so a bucket copied onto itself is empty), a source's files have
  the size in their rows (`SourceContent`), and when nothing is copied no file without
  version is without a row and no file of a version is under the name of a bucket without
  versioning (`FilesBacked`; `Housed` keeps a bucket that is created before the task
  from taking a name that has files).

A shutdown ends executions and may cut a file short; it is a failure of all executions at
once, and keeps each part as `Stops` does. `Finish` then makes `Through` of the row's job, every later step keeps it, and
`ThroughIsDone` is `JobDone`.

`CopiesPerAttempt` needs nothing of the files on disk, so it is proved of all faults,
silent errors and files cut short beside a late execution included. What is inductive is
a count (`Counted`, for each row of the source): its copies, the executions that may
still insert one (`Owing`) and the attempt that is yet to be taken up (`Awaited`) are
together no more than the times the task was or will be taken up (`Again` plus one). A
`Start` turns the last into one of the second, an `InsertRow` one of the second into one of
the first, a retry comes with one more try, and a shutdown, which ends all that may still
insert, with one more in `requeued`. That it is the row of its own list that an execution copies (`OwnDebt`) needs
`Distinct`: two rows of one name and version are in no bucket but a destination.
`AddsRows`, what any step of a copy does to the tables, keeps all this of the other
executions.

`AttemptsAreOneJob` is a step simulation: `JobSpec!Safety` has the abstract steps without
the promise that the task ends. `Due` are the rows whose ids are `todoBar`. An emptying
takes at most one out in a step, as a DELETE is by id (`EmptyingDeals`). A copy takes out
only the row its execution has before it (`CopyDeals`, by `OwnDebt`) and puts none back, as
the tables only grow (`RowsKept`, `NewRowsAreCopies`) and an empty bucket that is deleted
takes nothing with it (`DueStands`). That the end of an attempt is `Done`, `GiveUp` or a
stutter of an accepted task needs two things more. The first is `Prompt`: an execution
within its time is the only such one and its message is active, so neither a late one nor
a second one can end a task twice (`MessageChange`). The second is that nothing is due when
the attempt acknowledges (`NothingDue`), which is what `DoneInv` says at that stage.

### Accounts

`AccountsInv` has two parts. `TablesInv`: keys are drawn once, so no two accounts
share one and none that an account has is among the replaced. `Sound` is a property
of one request's local variables: what it has read was so when it read it, and the
key it was validated with is either still its user's or was replaced meanwhile, and
then the second look-up refuses it. A step of one request keeps `Sound` of the
others because keys only move to `replaced`.

### Rate limiter

`ExpireIsOwn` is strengthened by `OwnInv`: a key that is not there has no TTL, so the
INCR that creates it starts from none. `TwiceTheLimit` counts the set `recent`.
`WindowsInv` splits it by the counter's window: those admitted in the present one are
numbered by the values of the counter, so there are at most `Limit`; those of the one
before are numbered too; and nobody is left of an older one, as a counter that is
gone has lasted its window. `Split` says so of the time since the present counter
began; the numbers then make an injection of `recent` into twice `1..Limit`.

### Only model-checked

Every invariant and action property of the passing runs is stated by a theorem. What is
not is liveness, which is out of the prover's reach: `AdmittedUnlessLost`, `RowReported`,
and of `ImplementsJob` that an accepted task ends; the rest of it is `AttemptsAreOneJob`.

## Not modelled

- A copy that overlaps uploads and deletes. It reads and writes files and rows of
  names that others use, without any check, so no property of the store is left
  to hold; `BucketTasks` has it alone on the store.
- What asynq does inside Redis: scheduling, back-off, leases.
- Listing and inspection of buckets, files and tasks, and the addresses of the
  responses: they read, format and change nothing.
- Wiring, configuration, logging, Docker files, and the helper that signs requests
  on a command line: no state.
- Directories. `CreateBucketDir` makes `/storage/<name>`, which nothing else uses;
  uploads make theirs before they write, and none is ever removed.
- Concurrent writes of one path as a mixture of both contents: a write is one step
  (or is cut short). Versions are written by one request each; without versioning
  this hides only what the findings on overlapping uploads show to go wrong anyway.

## Plan

What is left is proofs: the theorems about one task for several tasks whose buckets
differ.
