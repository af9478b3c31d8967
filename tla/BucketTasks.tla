----------------------------- MODULE BucketTasks -----------------------------
(***************************************************************************)
(* Emptying and copying a bucket in the background: the two handlers that  *)
(* put a task in the queue (handlers/bucket_handlers.go), the worker that  *)
(* carries it out (worker/worker.go) and the rows of table tasks that a    *)
(* client polls.                                                           *)
(*                                                                         *)
(* The queue is asynq on Redis, a library.  It delivers a message at least *)
(* once: an execution that returns an error, or whose process is killed,   *)
(* is tried again, MaxRetry times, and then archived.  One that exceeds    *)
(* its timeout counts as failed too, but the handlers never look at their  *)
(* context, so it goes on beside its successor, and what it returns is     *)
(* ignored.  When the worker is shut down (cmd/worker/main.go) asynq puts  *)
(* the messages it has not finished back, and counts no retry for that.    *)
(* Its queue is first in, first out; here any pending message may be next. *)
(***************************************************************************)
EXTENDS Store, FiniteSets

CONSTANTS
  NoDest,      \* bucket_dest of a task that empties its source
  Targets,     \* the destinations that are asked for
  Requesters,  \* slots for EnqueueEmptyBucketTask, EnqueueCopyBucketTask
  Executors,   \* slots for executions in the worker (ten in cmd/worker/main.go)
  MaxRetry,    \* asynq.MaxRetry (5)
  MaxRequeues, \* bound: no shutdown while an active message has had as many
  MaxTasks,    \* bound: no task is asked for while there are as many
  Stock,       \* the stores that may be there before the first task
  FaultModes   \* sets of faults; a behaviour has those of one set.
               \* "stop": a request or an execution fails, or is killed;
               \* "shutdown": the worker is shut down, and started again;
               \* "torn": and may leave a file cut short;
               \* "timeout": an execution may exceed its timeout;
               \* "silent": what fails with a warning may fail;
               \* "drop": an empty bucket may be deleted meanwhile

ASSUME DestAssumption == NoDest \notin Names /\ Targets \subseteq Names \cup {NoDest}
ASSUME RetryAssumption == MaxRetry \in Nat /\ MaxRequeues \in Nat /\ MaxTasks \in Nat
ASSUME FaultAssumption ==
  FaultModes \subseteq SUBSET {"stop", "shutdown", "torn", "timeout", "silent", "drop"}

\* The tables as the handlers leave them: unique ids and names, no row without
\* its bucket
StoreOK(s) ==
  /\ s.buckets \subseteq BucketRows
  /\ s.files \subseteq FileRows /\ IsFiniteSet(s.files)
  /\ DOMAIN s.disk \subseteq Paths
  /\ s.disk \in [DOMAIN s.disk -> Sizes \cup {Torn}]
  /\ s.uuid \in Nat \ {0}
  /\ \A b, c \in s.buckets : b.id = c.id \/ b.name = c.name => b = c
  /\ \A f, g \in s.files : f.id = g.id => f = g
  /\ \A b \in s.buckets : b.id < s.uuid
  /\ \A f \in s.files : f.id < s.uuid /\ \E b \in s.buckets : f.bucket = b.id

ASSUME StockAssumption == \A s \in Stock : StoreOK(s)

VARIABLES
  tasks,   \* the rows of table tasks
  queue,   \* asynq's messages (the finished ones are kept as a history)
  ask,     \* the local state of the requests
  run,     \* the local state of the executions
  faults   \* the faults of this behaviour: never changes

taskVars == <<tasks, queue, ask, run, faults>>
vars == <<buckets, files, disk, uuid, tasks, queue, ask, run, faults>>

Idle == [at |-> "idle"]
NoRow == [id |-> 0]

\* The payload, with the task's id
Jobs == [id : Nat, user : Users, src : Names, dest : Names \cup {NoDest}]

\* tries is asynq's count of retries; requeued, of shutdowns, is a history
Messages == [job : Jobs, tries : 0..MaxRetry, requeued : 0..MaxRequeues,
             state : {"pending", "active", "done", "archived"}]

TaskRows == [job : Jobs, status : {"running", "completed"}, progress : 0..100]

Asks == [at : {"dest", "create", "enqueue", "record"}, bucket : BucketRows,
         dest : Names \cup {NoDest}, id : Nat]

Runs == [at : {"source", "dest", "create", "list", "file", "write", "row",
               "progress", "ack"},
         job : Jobs, late : BOOLEAN, bucket : BucketRows \cup {NoRow},
         dest : BucketRows \cup {NoRow}, left : SUBSET FileRows, total : Nat,
         file : FileRows \cup {NoRow}, content : Sizes \cup {Torn}]

TasksTypeOK ==
  /\ tasks \subseteq TaskRows
  /\ queue \subseteq Messages
  /\ ask \in [Requesters -> Asks \cup {Idle}]
  /\ run \in [Executors -> Runs \cup {Idle}]
  /\ faults \in FaultModes

\* Every table, file, message and local variable keeps its type
TypeOK == StoreTypeOK /\ TasksTypeOK

TasksInit ==
  /\ tasks = {}
  /\ queue = {}
  /\ ask = [q \in Requesters |-> Idle]
  /\ run = [w \in Executors |-> Idle]
  /\ faults \in FaultModes

Init ==
  /\ \E s \in Stock : /\ buckets = s.buckets /\ files = s.files
                      /\ disk = s.disk /\ uuid = s.uuid
  /\ TasksInit

FilesIn(bucket) == {f \in files : f.bucket = bucket.id}

\* The destination gets the settings of the source
DestRow(user, name, source) ==
  [id |-> uuid, name |-> name, owner |-> user, versioning |-> source.versioning]

-----------------------------------------------------------------------------
(* The requests *)

\* The source must be the caller's
Ask(q) ==
  /\ ask[q] = Idle
  /\ Cardinality(queue) < MaxTasks
  /\ \E user \in Users, src \in Names, dest \in Targets :
       \E bucket \in Owned(user, src) :
         ask' = [ask EXCEPT ![q] =
                   [at |-> IF dest = NoDest THEN "enqueue" ELSE "dest",
                    bucket |-> bucket, dest |-> dest, id |-> 0]]
  /\ UNCHANGED <<storeVars, tasks, queue, run, faults>>

FindDest(q) ==
  /\ ask[q].at = "dest"
  /\ ask' = [ask EXCEPT ![q].at =
               IF Owned(ask[q].bucket.owner, ask[q].dest) = {} THEN "create" ELSE "enqueue"]
  /\ UNCHANGED <<storeVars, tasks, queue, run, faults>>

\* 500 if the name is another user's, or was created in the meantime; then the
\* id it drew is nowhere and may be drawn again
CreateDest(q) ==
  /\ ask[q].at = "create"
  /\ InsertBucket(DestRow(ask[q].bucket.owner, ask[q].dest, ask[q].bucket))
  /\ IF \E b \in buckets : b.name = ask[q].dest
     THEN ask' = [ask EXCEPT ![q] = Idle] /\ UNCHANGED uuid
     ELSE ask' = [ask EXCEPT ![q].at = "enqueue"] /\ uuid' = uuid + 1
  /\ UNCHANGED <<files, disk, tasks, queue, run, faults>>

JobOf(q) ==
  [id |-> ask[q].id, user |-> ask[q].bucket.owner, src |-> ask[q].bucket.name,
   dest |-> ask[q].dest]

\* The worker may take the message at once; asynq draws its id
Enqueue(q) ==
  /\ ask[q].at = "enqueue"
  /\ queue' = queue \cup {[job |-> [JobOf(q) EXCEPT !.id = uuid], tries |-> 0,
                           requeued |-> 0, state |-> "pending"]}
  /\ ask' = [ask EXCEPT ![q].at = "record", ![q].id = uuid]
  /\ uuid' = uuid + 1
  /\ UNCHANGED <<buckets, files, disk, tasks, run, faults>>

\* The row of a task is created after the message
Record(q) ==
  /\ ask[q].at = "record"
  /\ tasks' = tasks \cup {[job |-> JobOf(q), status |-> "running", progress |-> 0]}
  /\ ask' = [ask EXCEPT ![q] = Idle]
  /\ UNCHANGED <<storeVars, queue, run, faults>>

\* A failed Enqueue is a 500, a failed Record is only logged
AskAborts(q) ==
  /\ "stop" \in faults
  /\ ask[q] # Idle
  /\ ask' = [ask EXCEPT ![q] = Idle]
  /\ UNCHANGED <<storeVars, tasks, queue, run, faults>>

-----------------------------------------------------------------------------
(* The worker *)

IsCopy(job) == job.dest # NoDest

SetState(job, state) ==
  queue' = {IF m.job.id = job.id THEN [m EXCEPT !.state = state] ELSE m : m \in queue}

\* asynq after a failure
Retry(job) ==
  queue' = {CASE m.job.id # job.id   -> m
              [] m.tries < MaxRetry  -> [m EXCEPT !.state = "pending", !.tries = @ + 1]
              [] OTHER               -> [m EXCEPT !.state = "archived"] : m \in queue}

\* asynq puts the messages it is working on back
Requeue ==
  queue' = {IF m.state = "active" THEN [m EXCEPT !.state = "pending", !.requeued = @ + 1]
                                  ELSE m : m \in queue}

\* An execution ends with an error
Fails(w) ==
  /\ run' = [run EXCEPT ![w] = Idle]
  /\ IF run[w].late THEN UNCHANGED queue ELSE Retry(run[w].job)

Start(w) ==
  /\ run[w] = Idle
  /\ \E m \in queue :
       /\ m.state = "pending"
       /\ SetState(m.job, "active")
       /\ run' = [run EXCEPT ![w] =
                    [at |-> "source", job |-> m.job, late |-> FALSE,
                     bucket |-> NoRow, dest |-> NoRow, left |-> {}, total |-> 0,
                     file |-> NoRow, content |-> Torn]]
  /\ UNCHANGED <<storeVars, tasks, ask, faults>>

\* The copy looks for a bucket of the user, the emptying for any of the name
Sources(job) ==
  IF IsCopy(job) THEN Owned(job.user, job.src) ELSE {b \in buckets : b.name = job.src}

FindSource(w) ==
  /\ run[w].at = "source"
  /\ \/ \E b \in Sources(run[w].job) :
          /\ run' = [run EXCEPT ![w].bucket = b,
                                ![w].at = IF IsCopy(run[w].job) THEN "dest" ELSE "list"]
          /\ UNCHANGED queue
     \/ Sources(run[w].job) = {} /\ Fails(w)
  /\ UNCHANGED <<storeVars, tasks, ask, faults>>

WorkerFindsDest(w) ==
  /\ run[w].at = "dest"
  /\ LET found == Owned(run[w].job.user, run[w].job.dest)
     IN  \/ \E b \in found :
              run' = [run EXCEPT ![w].dest = b, ![w].at = "list"]
         \/ found = {} /\ run' = [run EXCEPT ![w].at = "create"]
  /\ UNCHANGED <<storeVars, tasks, queue, ask, faults>>

WorkerCreatesDest(w) ==
  /\ run[w].at = "create"
  /\ LET row == DestRow(run[w].job.user, run[w].job.dest, run[w].bucket)
     IN  /\ InsertBucket(row)
         /\ IF \E b \in buckets : b.name = row.name
            THEN Fails(w) /\ UNCHANGED uuid
            ELSE /\ run' = [run EXCEPT ![w].dest = row, ![w].at = "list"]
                 /\ uuid' = uuid + 1
                 /\ UNCHANGED queue
  /\ UNCHANGED <<files, disk, tasks, ask, faults>>

\* Mutant: bucket_id = ? left out of the WHERE
ListAllFiles(w) ==
  /\ run[w].at = "list"
  /\ run' = [run EXCEPT ![w].at = "file", ![w].left = files,
                        ![w].total = Cardinality(files)]
  /\ UNCHANGED <<storeVars, tasks, queue, ask, faults>>

\* The rows are read once; the loops below go through them in any order
ListFiles(w) ==
  /\ run[w].at = "list"
  /\ run' = [run EXCEPT ![w].at = "file", ![w].left = FilesIn(run[w].bucket),
                        ![w].total = Cardinality(FilesIn(run[w].bucket))]
  /\ UNCHANGED <<storeVars, tasks, queue, ask, faults>>

Silent == "silent" \in faults

\* Mutant: the file of the version
RemoveVersion(w) ==
  /\ run[w].at = "file" /\ ~IsCopy(run[w].job)
  /\ \E f \in run[w].left :
       /\ run' = [run EXCEPT ![w].file = f, ![w].at = "row"]
       /\ RemoveBlob(BlobPath(run[w].bucket, f.name, f.version))
  /\ UNCHANGED <<buckets, files, uuid, tasks, queue, ask, faults>>

\* Emptying: the path has no version; a failure is only a warning
RemoveFile(w) ==
  /\ run[w].at = "file" /\ ~IsCopy(run[w].job)
  /\ \E f \in run[w].left :
       /\ run' = [run EXCEPT ![w].file = f, ![w].at = "row"]
       /\ \/ RemoveBlob(PlainPath(run[w].bucket, f.name))
          \/ Silent /\ UNCHANGED disk
  /\ UNCHANGED <<buckets, files, uuid, tasks, queue, ask, faults>>

\* Mutant: DELETE by name instead of id
DeleteRowsOfName(w) ==
  /\ run[w].at = "row" /\ ~IsCopy(run[w].job)
  /\ files' = files \ RowsOf(run[w].bucket.id, run[w].file.name)
  /\ run' = [run EXCEPT ![w].at = "progress"]
  /\ UNCHANGED <<buckets, disk, uuid, tasks, queue, ask, faults>>

DeleteRow(w) ==
  /\ run[w].at = "row" /\ ~IsCopy(run[w].job)
  /\ \/ DropFile(run[w].file.id)
     \/ Silent /\ UNCHANGED files
  /\ run' = [run EXCEPT ![w].at = "progress"]
  /\ UNCHANGED <<buckets, disk, uuid, tasks, queue, ask, faults>>

\* Mutant: a missing file is skipped, as the emptying does
ReadFileOrSkip(w) ==
  /\ run[w].at = "file" /\ IsCopy(run[w].job)
  /\ \E f \in run[w].left :
       LET path == PlainPath(run[w].bucket, f.name)
       IN  run' = IF path \in DOMAIN disk
                  THEN [run EXCEPT ![w].file = f, ![w].content = disk[path], ![w].at = "write"]
                  ELSE [run EXCEPT ![w].file = f, ![w].at = "progress"]
  /\ UNCHANGED <<storeVars, tasks, queue, ask, faults>>

\* Copying: the path has no version here either; a missing file is an error
ReadFile(w) ==
  /\ run[w].at = "file" /\ IsCopy(run[w].job)
  /\ \E f \in run[w].left :
       LET path == PlainPath(run[w].bucket, f.name)
       IN  \/ /\ path \in DOMAIN disk
              /\ run' = [run EXCEPT ![w].file = f, ![w].content = disk[path],
                                    ![w].at = "write"]
              /\ UNCHANGED queue
           \/ path \notin DOMAIN disk /\ Fails(w)
  /\ UNCHANGED <<storeVars, tasks, ask, faults>>

CopyPath(w) == PlainPath(run[w].dest, run[w].file.name)

WriteFile(w) ==
  /\ run[w].at = "write"
  /\ WriteBlob(CopyPath(w), run[w].content)
  /\ run' = [run EXCEPT ![w].at = "row", ![w].content = Torn]
  /\ UNCHANGED <<buckets, files, uuid, tasks, queue, ask, faults>>

\* A row with is_latest FALSE becomes TRUE: gorm leaves out a zero value that
\* has a default
InsertRow(w) ==
  /\ run[w].at = "row" /\ IsCopy(run[w].job)
  /\ InsertFile([run[w].file EXCEPT !.id = uuid, !.bucket = run[w].dest.id,
                                    !.latest = TRUE])
  /\ uuid' = uuid + 1
  /\ IF \E b \in buckets : b.id = run[w].dest.id
     THEN run' = [run EXCEPT ![w].at = "progress"] /\ UNCHANGED queue
     ELSE Fails(w)
  /\ UNCHANGED <<buckets, disk, tasks, ask, faults>>

\* WHERE bucket_src = ? AND user_id = ? - and, only of a copy, AND bucket_dest
Reported(job) ==
  {t \in tasks : /\ t.job.src = job.src /\ t.job.user = job.user
                 /\ IsCopy(job) => t.job.dest = job.dest}

Report(job, status, progress) ==
  tasks' = {IF t \in Reported(job)
            THEN [t EXCEPT !.progress = progress,
                           !.status = IF status = "keep" THEN @ ELSE status]
            ELSE t : t \in tasks}

\* Mutant: i+2
PercentNext(w) ==
  (100 * (run[w].total - Cardinality(run[w].left) + 2)) \div run[w].total

\* Mutant: the files left instead of those done
PercentLeft(w) == (100 * (Cardinality(run[w].left) - 1)) \div run[w].total

\* int(float64(i+1) / float64(total) * 100), without the rounding of float64
Percent(w) ==
  (100 * (run[w].total - Cardinality(run[w].left) + 1)) \div run[w].total

\* The end of a round of the loop; the error of the UPDATE is not looked at
Progress(w) ==
  /\ run[w].at = "progress"
  /\ \/ Report(run[w].job, "keep", Percent(w))
     \/ Silent /\ UNCHANGED tasks
  /\ run' = [run EXCEPT ![w].at = "file", ![w].left = @ \ {run[w].file},
                        ![w].file = NoRow]
  /\ UNCHANGED <<storeVars, queue, ask, faults>>

\* Mutant: "completed" forgotten
FinishUnmarked(w) ==
  /\ run[w].at = "file" /\ run[w].left = {}
  /\ Report(run[w].job, "keep", 100)
  /\ run' = [run EXCEPT ![w].at = "ack"]
  /\ UNCHANGED <<storeVars, queue, ask, faults>>

Finish(w) ==
  /\ run[w].at = "file" /\ run[w].left = {}
  /\ \/ Report(run[w].job, "completed", 100)
     \/ Silent /\ UNCHANGED tasks
  /\ run' = [run EXCEPT ![w].at = "ack"]
  /\ UNCHANGED <<storeVars, queue, ask, faults>>

\* The handler returns nil and asynq takes the message for done
Acknowledge(w) ==
  /\ run[w].at = "ack"
  /\ IF run[w].late THEN UNCHANGED queue ELSE SetState(run[w].job, "done")
  /\ run' = [run EXCEPT ![w] = Idle]
  /\ UNCHANGED <<storeVars, tasks, ask, faults>>

\* A database error, a disk error or a kill, of which asynq learns when the lease
\* of the message expires
Stops(w) ==
  /\ "stop" \in faults
  /\ run[w] # Idle
  /\ Fails(w)
  /\ \/ UNCHANGED disk
     \/ "torn" \in faults /\ run[w].at = "write" /\ WriteBlob(CopyPath(w), Torn)
  /\ UNCHANGED <<buckets, files, uuid, tasks, ask, faults>>

\* SIGINT or SIGTERM and srv.Shutdown: the executions that do not finish in its
\* grace period end with the process, wherever they are
ShutsDown ==
  /\ "shutdown" \in faults
  /\ \A m \in queue : m.state = "active" => m.requeued < MaxRequeues
  /\ Requeue
  /\ run' = [w \in Executors |-> Idle]
  /\ \E cut \in SUBSET {w \in Executors : "torn" \in faults /\ run[w].at = "write"} :
       disk' = [p \in DOMAIN disk \cup {CopyPath(w) : w \in cut} |->
                  IF \E w \in cut : p = CopyPath(w) THEN Torn ELSE disk[p]]
  /\ UNCHANGED <<buckets, files, uuid, tasks, ask, faults>>

TimesOut(w) ==
  /\ "timeout" \in faults
  /\ run[w] # Idle /\ ~run[w].late
  /\ Retry(run[w].job)
  /\ run' = [run EXCEPT ![w].late = TRUE]
  /\ UNCHANGED <<storeVars, tasks, ask, faults>>

\* DeleteBucket by the owner, taken whole: ObjectStore has its count of the rows
\* and its DELETE as two steps, between which rows of a copy would be lost.
\* Bound: none before the message is queued
DeleteEmptyBucket ==
  /\ "drop" \in faults /\ queue # {}
  /\ \E b \in buckets : FilesIn(b) = {} /\ DropBucket(b.id)
  /\ UNCHANGED <<disk, uuid, tasks, queue, ask, run, faults>>

-----------------------------------------------------------------------------
Serve(q) == FindDest(q) \/ CreateDest(q) \/ Enqueue(q) \/ Record(q)

Work(w) ==
  \/ FindSource(w) \/ WorkerFindsDest(w) \/ WorkerCreatesDest(w) \/ ListFiles(w)
  \/ RemoveFile(w) \/ DeleteRow(w) \/ ReadFile(w) \/ WriteFile(w) \/ InsertRow(w)
  \/ Progress(w) \/ Finish(w) \/ Acknowledge(w)

Next ==
  \/ \E q \in Requesters : Ask(q) \/ Serve(q) \/ AskAborts(q)
  \/ \E w \in Executors : Start(w) \/ Work(w) \/ Stops(w) \/ TimesOut(w)
  \/ ShutsDown
  \/ DeleteEmptyBucket

\* Requests that have begun go on, the worker takes messages and goes on
Fairness ==
  /\ \A q \in Requesters : WF_vars(Serve(q))
  /\ WF_vars(\E w \in Executors : Start(w))
  /\ \A w \in Executors : WF_vars(Work(w))

Spec == Init /\ [][Next]_vars /\ Fairness

-----------------------------------------------------------------------------
(* Properties *)

\* The rows of a bucket of the job that a copy of row f may be
CopiesOf(f, bucket) ==
  {g \in FilesIn(bucket) : g.name = f.name /\ g.version = f.version /\ g.size = f.size}

\* A copy is where DownloadFile looks for it: with versioning at <version>_<key>,
\* even if the row has no version, and nothing writes a file _<key>
Stored(f, bucket) ==
  LET path == BlobPath(bucket, f.name, f.version)
  IN  /\ bucket.versioning => f.version # NoVersion
      /\ path \in DOMAIN disk /\ disk[path] = f.size

\* Of a bucket with versioning, neither asks more than the code does: an emptying
\* leaves the files of the versions, and a copy writes none of them (see
\* EmptyLeavesNothing and CopiesReadable)
EmptyDone(job) ==
  \A b \in Owned(job.user, job.src) :
    /\ FilesIn(b) = {}
    /\ b.versioning \/ \A path \in DOMAIN disk : path[1] # b.name

CopyDone(job) ==
  \A b \in Owned(job.user, job.src) : \A f \in FilesIn(b) :
    \E d \in Owned(job.user, job.dest) :
      CopiesOf(f, d) # {} /\ (d.versioning \/ Stored(f, d))

JobDone(job) == IF IsCopy(job) THEN CopyDone(job) ELSE EmptyDone(job)

\* How often asynq has given the task to a worker again
Again(m) == m.tries + m.requeued

\* The worker stopped before asynq heard of the end, and a file it is copying
\* once more may be cut short
Repeated(job) ==
  "torn" \in faults /\ \E m \in queue : m.job = job /\ Again(m) > 0 /\ m.state # "done"

\* A client that polls and reads "completed" finds the work done: the emptied
\* bucket has no rows and, without versioning, there is no file under its name;
\* a copied one has for every row of its source a row and, without versioning, a
\* whole file where a download looks for it.  That is so however many attempts
\* failed half-way, were cut off by a shutdown or went on after their timeout
CompletedIsDone ==
  \A t \in tasks : t.status = "completed" => JobDone(t.job) \/ Repeated(t.job)

\* "Empty bucket task completed successfully" (worker/worker.go): no file is left
\* under the name of an emptied bucket
EmptyLeavesNothing ==
  \A t \in tasks : t.status = "completed" /\ ~IsCopy(t.job) =>
    \A b \in Owned(t.job.user, t.job.src), path \in DOMAIN disk : path[1] # b.name

\* "Copy bucket task completed successfully" (worker/worker.go): a download of
\* what was copied finds it
CopiesReadable ==
  \A t \in tasks : t.status = "completed" /\ IsCopy(t.job) =>
    \A d \in Owned(t.job.user, t.job.dest) : \A f \in FilesIn(d) : Stored(f, d)

\* A copy that fails half-way, or is cut off by a shutdown, is repeated from the
\* start and inserts the rows of its first part again.  No more than that happens:
\* a source row has at most one copy for each time the task was taken up
CopiesPerAttempt ==
  \A m \in queue :
    \A b \in Owned(m.job.user, m.job.src), d \in Owned(m.job.user, m.job.dest) :
      \A f \in FilesIn(b) : Cardinality(CopiesOf(f, d)) <= Again(m) + 1

\* The worker is at the end of the first round of a loop
FirstRound(job) ==
  \E w \in Executors :
    /\ run[w] # Idle /\ run[w].job = job /\ run[w].at = "progress"
    /\ Cardinality(run[w].left) = run[w].total

\* Progress goes back only when a task that was taken up before is taken up
\* again, and then once: in the first round, which reports the share of a list
\* that may be another one than that of the attempt before.  Only where UPDATEs
\* fail, or an attempt goes on beside its successor, can it do so later
ProgressForward ==
  [][\A t \in tasks, new \in tasks' :
       new.job.id = t.job.id /\ new.progress < t.progress =>
         \E m \in queue :
           /\ m.job = t.job /\ Again(m) > 0
           /\ faults \cap {"silent", "timeout"} = {} => FirstRound(m.job)]_vars

\* "Track task progress" (README.md): the row of a copy changes only while the
\* worker executes that copy
OwnProgress ==
  [][\A t \in tasks \ tasks' : IsCopy(t.job) =>
       \E w \in Executors : run[w] # Idle /\ run[w].job = t.job]_vars

Archived(job) == \E m \in queue : m.job = job /\ m.state = "archived"

\* The rows of all tasks say so, unless asynq has given the task up
AllReported == \A t \in tasks : t.status = "completed" \/ Archived(t.job)

\* A client that polls a task whose row is there while its message waits and no
\* attempt has failed yet will read "completed", or the task has failed for good - with
\* whatever attempts stop, are cut off or outlive their timeout in between
RowReported ==
  (tasks # {} /\ \A m \in queue : m.state = "pending" /\ m.tries = 0) ~> AllReported

\* "Track task progress" (README.md): the same of every row
EventuallyReported == tasks # {} ~> AllReported

\* With one task: the files its job is still to deal with ...
todoBar ==
  {f.id : f \in {f \in files : \E m \in queue :
     /\ \E b \in Owned(m.job.user, m.job.src) : f.bucket = b.id
     /\ IsCopy(m.job) =>
          \A d \in Owned(m.job.user, m.job.dest) : CopiesOf(f, d) = {}}}

\* ... and how asynq sees it
stateBar ==
  IF queue = {} THEN "none"
  ELSE LET m == CHOOSE m \in queue : TRUE
       IN  CASE m.state = "done"     -> "done"
             [] m.state = "archived" -> "failed"
             [] OTHER                -> "accepted"

Job == INSTANCE JobSpec WITH Items <- Nat, todo <- todoBar, state <- stateBar

\* The attempts at one task, failing, repeated or running beside each other,
\* together are one job: no file is dealt with by halves or needed again
\* (although it may be repeated), asynq takes the task for done only when
\* nothing is left, and it ends
ImplementsJob == Job!Spec
=============================================================================
