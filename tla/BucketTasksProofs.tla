-------------------------- MODULE BucketTasksProofs ---------------------------
(***************************************************************************)
(* Theorems about BucketTasks, for any number of tasks, requests and       *)
(* executions, any faults, and any store to begin with that the handlers   *)
(* might have left (StockAssumption).                                      *)
(***************************************************************************)
EXTENDS BucketTasks, TLAPS, FiniteSetTheorems

-----------------------------------------------------------------------------
(* Types: what an execution has at each of its stages *)

Staged(r) ==
  /\ r.at \in {"dest", "create", "write"} => IsCopy(r.job)
  /\ r.at # "source" => r.bucket \in BucketRows
  /\ IsCopy(r.job) /\ r.at \notin {"source", "dest", "create"} => r.dest \in BucketRows
  /\ r.at \in {"write", "row", "progress"} => r.file \in r.left
  /\ IsFiniteSet(r.left) /\ Cardinality(r.left) <= r.total

StagedRuns == {r \in Runs : Staged(r)}

StagedAsks == {a \in Asks : a.at \in {"dest", "create"} => a.dest \in Names}

TypeInv ==
  /\ TypeOK
  /\ IsFiniteSet(files)
  /\ ask \in [Requesters -> StagedAsks \cup {Idle}]
  /\ run \in [Executors -> StagedRuns \cup {Idle}]

\* An execution that is not idle
LEMMA StagedRun ==
  ASSUME TypeInv, NEW w \in Executors, run[w].at # "idle"
  PROVE  run[w] \in Runs /\ Staged(run[w]) /\ run[w] # Idle
  BY DEF TypeInv, StagedRuns, Idle

\* Percentages are between 0 and 100
LEMMA PercentType ==
  ASSUME NEW left \in Nat, NEW total \in Nat, 1 <= left, left <= total
  PROVE  (100 * (total - left + 1)) \div total \in 0..100
<1>1. total > 0 /\ 100 * (total - left + 1) \in Nat /\ 100 * (total - left + 1) <= 100 * total
  OBVIOUS
<1>2. ASSUME NEW n \in Nat, n <= 100 * total
      PROVE  n \div total \in 0..100
  BY <1>1, <1>2
<1>3. QED
  BY <1>1, <1>2

\* What asynq does to its messages
LEMMA MessagesType ==
  ASSUME queue \subseteq Messages, NEW job,
         \/ \E state \in {"active", "done"} : SetState(job, state)
         \/ Retry(job)
         \/ UNCHANGED queue
  PROVE  queue' \subseteq Messages
<1>1. CASE \E state \in {"active", "done"} : SetState(job, state)
  <2>1. PICK state \in {"active", "done"} : SetState(job, state)
    BY <1>1
  <2>2. QED
    BY <2>1 DEF SetState, Messages
<1>2. CASE Retry(job)
  <2>1. ASSUME NEW m \in queue
        PROVE  /\ m.tries < MaxRetry =>
                    [m EXCEPT !.state = "pending", !.tries = @ + 1] \in Messages
               /\ [m EXCEPT !.state = "archived"] \in Messages
    <3>1. m \in Messages
      OBVIOUS
    <3>2. m.tries < MaxRetry => m.tries + 1 \in 0..MaxRetry
      BY <3>1, RetryAssumption DEF Messages
    <3>3. QED
      BY <3>1, <3>2 DEF Messages
  <2>2. QED
    BY <1>2, <2>1 DEF Retry
<1>3. QED
  BY <1>1, <1>2

\* What the worker does to the rows of the tasks
LEMMA ReportType ==
  ASSUME tasks \subseteq TaskRows, NEW job, NEW status \in {"keep", "completed"},
         NEW progress \in 0..100, Report(job, status, progress)
  PROVE  tasks' \subseteq TaskRows
<1>1. ASSUME NEW t \in tasks
      PROVE  [t EXCEPT !.progress = progress,
                       !.status = IF status = "keep" THEN @ ELSE status] \in TaskRows
  BY DEF TaskRows
<1>2. QED
  BY <1>1 DEF Report

\* Steps that leave the tables alone, or the bucket rows, or ...
LEMMA ExecutionType ==
  ASSUME TypeInv, NEW w \in Executors, NEW r \in StagedRuns \cup {Idle},
         run' = [run EXCEPT ![w] = r], queue' \subseteq Messages,
         tasks' \subseteq TaskRows, UNCHANGED <<ask, faults>>, StoreTypeOK',
         IsFiniteSet(files')
  PROVE  TypeInv'
<1>1. run' \in [Executors -> StagedRuns \cup {Idle}]
  BY DEF TypeInv
<1>2. run' \in [Executors -> Runs \cup {Idle}]
  BY <1>1 DEF StagedRuns
<1>3. QED
  BY <1>1, <1>2 DEF TypeInv, TypeOK, TasksTypeOK

\* The rows of a bucket are finitely many, and the statements keep them so
LEMMA FilesFinite ==
  ASSUME TypeInv
  PROVE  /\ \A b : /\ FilesIn(b) \in SUBSET FileRows /\ IsFiniteSet(FilesIn(b))
                   /\ Cardinality(FilesIn(b)) \in Nat
         /\ \A rows \in SUBSET files : IsFiniteSet(rows)
         /\ \A row : IsFiniteSet(files \cup {row})
<1>1. \A rows \in SUBSET files : IsFiniteSet(rows)
  BY FS_Subset DEF TypeInv
<1>2. ASSUME NEW b
      PROVE  FilesIn(b) \in SUBSET files
  BY DEF FilesIn
<1>3. \A b : Cardinality(FilesIn(b)) \in Nat
  BY <1>1, <1>2, FS_CardinalityType
<1>4. \A row : IsFiniteSet(files \cup {row})
  BY FS_AddElement DEF TypeInv
<1>5. QED
  BY <1>1, <1>2, <1>3, <1>4 DEF TypeInv, TypeOK, StoreTypeOK

\* Statements and file-system calls keep the types of the store
LEMMA StoreTypes ==
  ASSUME StoreTypeOK
  PROVE  /\ \A row \in BucketRows : InsertBucket(row) => buckets' \subseteq BucketRows
         /\ \A id : DropBucket(id) => buckets' \subseteq buckets /\ files' \subseteq files
         /\ \A row \in FileRows : InsertFile(row) => files' \subseteq FileRows
         /\ \A id : DropFile(id) => files' \subseteq files
  BY DEF StoreTypeOK, InsertBucket, DropBucket, InsertFile, DropFile

LEMMA BlobTypes ==
  ASSUME StoreTypeOK, NEW path, NEW content \in Sizes \cup {Torn},
         \/ WriteBlob(path, content) /\ path \in Paths
         \/ RemoveBlob(path)
  PROVE  /\ DOMAIN disk' \subseteq Paths
         /\ disk' \in [DOMAIN disk' -> Sizes \cup {Torn}]
<1>1. CASE WriteBlob(path, content) /\ path \in Paths
  <2>1. DOMAIN disk' = DOMAIN disk \cup {path}
    BY <1>1 DEF WriteBlob
  <2>2. disk' = [p \in DOMAIN disk' |-> IF p = path THEN content ELSE disk[p]]
    BY <1>1, <2>1 DEF WriteBlob
  <2>3. QED
    BY <1>1, <2>1, <2>2 DEF StoreTypeOK
<1>2. CASE RemoveBlob(path)
  <2>1. DOMAIN disk' = DOMAIN disk \ {path}
    BY <1>2 DEF RemoveBlob
  <2>2. disk' = [p \in DOMAIN disk' |-> disk[p]]
    BY <1>2, <2>1 DEF RemoveBlob
  <2>3. QED
    BY <2>1, <2>2 DEF StoreTypeOK
<1>3. QED
  BY <1>1, <1>2

-----------------------------------------------------------------------------
\* The steps of the requests keep the types, ...
LEMMA AskStepType ==
  ASSUME TypeInv, NEW q \in Requesters, Ask(q) \/ Serve(q) \/ AskAborts(q)
  PROVE  TypeInv'
<1> USE DEF TypeInv, TypeOK, TasksTypeOK, StoreTypeOK, storeVars, StagedAsks
<1>1. CASE Ask(q)
  <2>1. PICK user \in Users, src \in Names, dest \in Targets :
          \E bucket \in Owned(user, src) :
            ask' = [ask EXCEPT ![q] =
                      [at |-> IF dest = NoDest THEN "enqueue" ELSE "dest",
                       bucket |-> bucket, dest |-> dest, id |-> 0]]
    BY <1>1 DEF Ask
  <2> PICK bucket \in Owned(user, src) :
            ask' = [ask EXCEPT ![q] =
                      [at |-> IF dest = NoDest THEN "enqueue" ELSE "dest",
                       bucket |-> bucket, dest |-> dest, id |-> 0]]
    BY <2>1
  <2>2. [at |-> IF dest = NoDest THEN "enqueue" ELSE "dest",
         bucket |-> bucket, dest |-> dest, id |-> 0] \in StagedAsks
    BY DestAssumption DEF Asks, Owned
  <2>3. ask' \in [Requesters -> StagedAsks \cup {Idle}]
    BY <2>2
  <2>4. QED
    BY <1>1, <2>3 DEF Ask
<1>2. ASSUME ask[q] # Idle
      PROVE  ask[q] \in StagedAsks
  BY <1>2
<1>3. CASE FindDest(q)
  <2>1. ask[q] \in StagedAsks
    BY <1>2, <1>3 DEF FindDest, Idle
  <2>2. \A at \in {"create", "enqueue"} : [ask[q] EXCEPT !.at = at] \in StagedAsks
    BY <1>3, <2>1 DEF FindDest, Asks
  <2>3. ask' \in [Requesters -> StagedAsks \cup {Idle}]
    BY <1>3, <2>2 DEF FindDest
  <2>4. QED
    BY <1>3, <2>3 DEF FindDest
<1>4. CASE CreateDest(q)
  <2>1. ask[q] \in StagedAsks
    BY <1>2, <1>4 DEF CreateDest, Idle
  <2>2. [ask[q] EXCEPT !.at = "enqueue"] \in StagedAsks
    BY <2>1 DEF Asks
  <2>3. ask' \in [Requesters -> StagedAsks \cup {Idle}] /\ uuid' \in Nat \ {0}
    BY <1>4, <2>2 DEF CreateDest
  <2>4. buckets' \subseteq BucketRows
    <3>1. DestRow(ask[q].bucket.owner, ask[q].dest, ask[q].bucket) \in BucketRows
      BY <1>4, <2>1 DEF CreateDest, DestRow, Asks, BucketRows
    <3>2. QED
      BY <1>4, <3>1, StoreTypes DEF CreateDest
  <2>5. QED
    BY <1>4, <2>3, <2>4 DEF CreateDest
<1>5. CASE Enqueue(q)
  <2>1. ask[q] \in StagedAsks
    BY <1>2, <1>5 DEF Enqueue, Idle
  <2>2. [JobOf(q) EXCEPT !.id = uuid] \in Jobs
    BY <2>1 DEF JobOf, Asks, Jobs, BucketRows
  <2>3. queue' \subseteq Messages
    BY <1>5, <2>2, RetryAssumption DEF Enqueue, Messages
  <2>4. [ask[q] EXCEPT !.at = "record", !.id = uuid] \in StagedAsks
    BY <2>1 DEF Asks
  <2>5. ask' \in [Requesters -> StagedAsks \cup {Idle}]
    BY <1>5, <2>4 DEF Enqueue
  <2>6. QED
    BY <1>5, <2>3, <2>5 DEF Enqueue
<1>6. CASE Record(q)
  <2>1. ask[q] \in StagedAsks
    BY <1>2, <1>6 DEF Record, Idle
  <2>2. JobOf(q) \in Jobs
    BY <2>1 DEF JobOf, Asks, Jobs, BucketRows
  <2>3. tasks' \subseteq TaskRows
    BY <1>6, <2>2 DEF Record, TaskRows
  <2>4. QED
    BY <1>6, <2>3 DEF Record
<1>7. CASE AskAborts(q)
  BY <1>7 DEF AskAborts
<1>8. QED
  BY <1>1, <1>3, <1>4, <1>5, <1>6, <1>7 DEF Serve

\* ... those of the executions as well
LEMMA RunStepType ==
  ASSUME TypeInv, NEW w \in Executors,
         Start(w) \/ Work(w) \/ Stops(w) \/ TimesOut(w)
  PROVE  TypeInv'
<1> USE DEF storeVars
<1>0. /\ StoreTypeOK /\ queue \subseteq Messages /\ tasks \subseteq TaskRows
      /\ IsFiniteSet(files)
  BY DEF TypeInv, TypeOK, TasksTypeOK
<1>1. CASE Start(w)
  <2>1. PICK m \in queue :
          /\ SetState(m.job, "active")
          /\ run' = [run EXCEPT ![w] =
                       [at |-> "source", job |-> m.job, late |-> FALSE,
                        bucket |-> NoRow, dest |-> NoRow, left |-> {}, total |-> 0,
                        file |-> NoRow, content |-> Torn]]
    BY <1>1, Zenon DEF Start
  <2> DEFINE r == [at |-> "source", job |-> m.job, late |-> FALSE,
                   bucket |-> NoRow, dest |-> NoRow, left |-> {}, total |-> 0,
                   file |-> NoRow, content |-> Torn]
  <2>2. m.job \in Jobs
    BY <1>0 DEF Messages
  <2>3. r \in Runs
    BY <2>2 DEF Runs
  <2>4. Staged(r)
    BY FS_EmptySet DEF Staged
  <2>5. queue' \subseteq Messages
    BY <1>0, <2>1, MessagesType
  <2>6. UNCHANGED <<storeVars, tasks, ask, faults>>
    BY <1>1 DEF Start
  <2> HIDE DEF r
  <2>7. QED
    BY <1>0, <2>1, <2>3, <2>4, <2>5, <2>6, ExecutionType DEF StagedRuns, r, StoreTypeOK
<1>2. ASSUME Fails(w), UNCHANGED <<tasks, ask, faults>>, StoreTypeOK', IsFiniteSet(files')
      PROVE  TypeInv'
  <2>1. queue' \subseteq Messages
    BY <1>0, <1>2, MessagesType DEF Fails
  <2>2. QED
    BY <1>0, <1>2, <2>1, ExecutionType DEF Fails
<1>3. ASSUME NEW r \in Runs, Staged(r), run' = [run EXCEPT ![w] = r],
             queue' \subseteq Messages, tasks' \subseteq TaskRows, UNCHANGED <<ask, faults>>,
             StoreTypeOK', IsFiniteSet(files')
      PROVE  TypeInv'
  BY <1>3, ExecutionType DEF StagedRuns
<1>4. UNCHANGED storeVars => StoreTypeOK' /\ IsFiniteSet(files')
  BY <1>0 DEF StoreTypeOK
<1>5. CASE FindSource(w)
  <2>1. run[w] \in Runs /\ Staged(run[w])
    BY <1>5, StagedRun DEF FindSource
  <2>2. CASE \E b \in Sources(run[w].job) :
               /\ run' = [run EXCEPT ![w].bucket = b,
                                     ![w].at = IF IsCopy(run[w].job) THEN "dest" ELSE "list"]
               /\ UNCHANGED queue
    <3>1. PICK b \in Sources(run[w].job) :
               run' = [run EXCEPT ![w].bucket = b,
                                  ![w].at = IF IsCopy(run[w].job) THEN "dest" ELSE "list"]
      BY <2>2
    <3> DEFINE at == IF IsCopy(run[w].job) THEN "dest" ELSE "list"
               r == [run[w] EXCEPT !.bucket = b, !.at = at]
    <3>2. b \in BucketRows
      BY <1>0 DEF Sources, Owned, StoreTypeOK
    <3>3. r \in Runs /\ r.at = at /\ r.job = run[w].job /\ r.bucket = b
          /\ r.left = run[w].left /\ r.total = run[w].total
      BY <2>1, <3>2 DEF Runs
    <3>4. Staged(r)
      BY ONLY <2>1, <3>2, <3>3 DEF Staged
    <3>5. QED
      BY <1>0, <1>3, <1>4, <1>5, <2>2, <3>1, <3>3, <3>4 DEF FindSource
  <2>3. CASE Fails(w)
    BY <1>2, <1>4, <1>5, <2>3 DEF FindSource
  <2>4. QED
    BY <1>5, <2>2, <2>3 DEF FindSource
<1>6. CASE WorkerFindsDest(w)
  <2>1. run[w] \in Runs /\ Staged(run[w]) /\ run[w].at = "dest"
    BY <1>6, StagedRun DEF WorkerFindsDest
  <2>2. CASE \E b \in Owned(run[w].job.user, run[w].job.dest) :
               run' = [run EXCEPT ![w].dest = b, ![w].at = "list"]
    <3>1. PICK b \in Owned(run[w].job.user, run[w].job.dest) :
               run' = [run EXCEPT ![w].dest = b, ![w].at = "list"]
      BY <2>2
    <3> DEFINE r == [run[w] EXCEPT !.dest = b, !.at = "list"]
    <3>2. b \in BucketRows
      BY <1>0 DEF Owned, StoreTypeOK
    <3>3. /\ r \in Runs /\ r.at = "list" /\ r.job = run[w].job /\ r.dest = b
          /\ r.bucket = run[w].bucket /\ r.left = run[w].left /\ r.total = run[w].total
      BY <2>1, <3>2 DEF Runs
    <3>4. Staged(r)
      BY ONLY <2>1, <3>2, <3>3 DEF Staged
    <3>5. QED
      BY <1>0, <1>3, <1>4, <1>6, <3>1, <3>3, <3>4 DEF WorkerFindsDest
  <2>3. CASE run' = [run EXCEPT ![w].at = "create"]
    <3> DEFINE r == [run[w] EXCEPT !.at = "create"]
    <3>1. /\ r \in Runs /\ r.at = "create" /\ r.job = run[w].job
          /\ r.bucket = run[w].bucket /\ r.left = run[w].left /\ r.total = run[w].total
      BY <2>1 DEF Runs
    <3>2. Staged(r)
      BY ONLY <2>1, <3>1 DEF Staged
    <3>3. QED
      BY <1>0, <1>3, <1>4, <1>6, <2>3, <3>1, <3>2 DEF WorkerFindsDest
  <2>4. QED
    BY <1>6, <2>2, <2>3 DEF WorkerFindsDest
<1>7. CASE WorkerCreatesDest(w)
  <2>1. run[w] \in Runs /\ Staged(run[w]) /\ run[w].at = "create"
    BY <1>7, StagedRun DEF WorkerCreatesDest
  <2> DEFINE row == DestRow(run[w].job.user, run[w].job.dest, run[w].bucket)
             r == [run[w] EXCEPT !.dest = row, !.at = "list"]
  <2>2. row \in BucketRows
    BY <1>0, <2>1 DEF DestRow, Staged, IsCopy, Runs, Jobs, BucketRows, StoreTypeOK
  <2>3. InsertBucket(row) /\ UNCHANGED <<files, disk, tasks, ask, faults>>
    BY <1>7 DEF WorkerCreatesDest
  <2>4. buckets' \subseteq BucketRows
    BY <1>0, <2>2, <2>3, StoreTypes
  <2>5. CASE Fails(w) /\ UNCHANGED uuid
    BY <1>0, <1>2, <2>3, <2>4, <2>5 DEF StoreTypeOK
  <2>6. CASE run' = [run EXCEPT ![w].dest = row, ![w].at = "list"] /\ uuid' = uuid + 1
             /\ UNCHANGED queue
    <3>1. /\ r \in Runs /\ r.at = "list" /\ r.job = run[w].job /\ r.dest = row
          /\ r.bucket = run[w].bucket /\ r.left = run[w].left /\ r.total = run[w].total
      BY <2>1, <2>2 DEF Runs
    <3>2. Staged(r)
      BY ONLY <2>1, <2>2, <3>1 DEF Staged
    <3>3. StoreTypeOK' /\ IsFiniteSet(files')
      BY <1>0, <2>3, <2>4, <2>6 DEF StoreTypeOK
    <3>4. QED
      BY <1>0, <1>3, <2>3, <2>6, <3>1, <3>2, <3>3
  <2>7. QED
    BY <1>7, <2>5, <2>6 DEF WorkerCreatesDest
<1>8. CASE ListFiles(w)
  <2>1. run[w] \in Runs /\ Staged(run[w]) /\ run[w].at = "list"
    BY <1>8, StagedRun DEF ListFiles
  <2> DEFINE listed == FilesIn(run[w].bucket)
             r == [run[w] EXCEPT !.at = "file", !.left = listed,
                                 !.total = Cardinality(listed)]
  <2>2. /\ listed \in SUBSET FileRows /\ IsFiniteSet(listed)
        /\ Cardinality(listed) \in Nat /\ Cardinality(listed) <= Cardinality(listed)
    BY FilesFinite
  <2>3. run' = [run EXCEPT ![w] = r] /\ UNCHANGED <<storeVars, tasks, queue, ask, faults>>
    BY <1>8 DEF ListFiles
  <2> HIDE DEF listed
  <2>4. /\ r \in Runs /\ r.at = "file" /\ r.job = run[w].job /\ r.dest = run[w].dest
        /\ r.bucket = run[w].bucket /\ r.left = listed /\ r.total = Cardinality(listed)
    BY <2>1, <2>2 DEF Runs
  <2>5. Staged(r)
    BY ONLY <2>1, <2>2, <2>4 DEF Staged
  <2> HIDE DEF r
  <2>6. QED
    BY <1>0, <1>3, <1>4, <2>3, <2>4, <2>5
<1>9. CASE RemoveFile(w)
  <2>1. run[w] \in Runs /\ Staged(run[w]) /\ run[w].at = "file"
    BY <1>9, StagedRun DEF RemoveFile
  <2>2. PICK f \in run[w].left :
          /\ run' = [run EXCEPT ![w].file = f, ![w].at = "row"]
          /\ \/ RemoveBlob(PlainPath(run[w].bucket, f.name))
             \/ UNCHANGED disk
    BY <1>9 DEF RemoveFile
  <2> DEFINE r == [run[w] EXCEPT !.file = f, !.at = "row"]
  <2>3. /\ r \in Runs /\ r.at = "row" /\ r.job = run[w].job /\ r.dest = run[w].dest
        /\ r.bucket = run[w].bucket /\ r.left = run[w].left /\ r.total = run[w].total
        /\ r.file = f
    BY <2>1 DEF Runs
  <2>4. Staged(r)
    BY ONLY <2>1, <2>2, <2>3 DEF Staged
  <2>5. DOMAIN disk' \subseteq Paths /\ disk' \in [DOMAIN disk' -> Sizes \cup {Torn}]
    <3>1. CASE UNCHANGED disk
      BY <1>0, <3>1 DEF StoreTypeOK
    <3>2. CASE RemoveBlob(PlainPath(run[w].bucket, f.name))
      BY <1>0, <3>2, BlobTypes
    <3>3. QED
      BY <2>2, <3>1, <3>2
  <2>6. StoreTypeOK' /\ IsFiniteSet(files')
    BY <1>0, <1>9, <2>5 DEF RemoveFile, StoreTypeOK
  <2>7. QED
    BY <1>0, <1>3, <1>9, <2>2, <2>3, <2>4, <2>6 DEF RemoveFile
<1>10. CASE DeleteRow(w)
  <2>1. run[w] \in Runs /\ Staged(run[w]) /\ run[w].at = "row"
    BY <1>10, StagedRun DEF DeleteRow
  <2> DEFINE r == [run[w] EXCEPT !.at = "progress"]
  <2>2. /\ r \in Runs /\ r.at = "progress" /\ r.job = run[w].job /\ r.dest = run[w].dest
        /\ r.bucket = run[w].bucket /\ r.left = run[w].left /\ r.total = run[w].total
        /\ r.file = run[w].file
    BY <2>1 DEF Runs
  <2>3. Staged(r)
    BY ONLY <2>1, <2>2 DEF Staged
  <2>4. files' \in SUBSET files
    BY <1>10 DEF DeleteRow, DropFile
  <2>5. StoreTypeOK' /\ IsFiniteSet(files')
    BY <1>0, <1>10, <2>4, FilesFinite DEF DeleteRow, StoreTypeOK
  <2>6. QED
    BY <1>0, <1>3, <1>10, <2>2, <2>3, <2>5 DEF DeleteRow
<1>11. CASE ReadFile(w)
  <2>1. run[w] \in Runs /\ Staged(run[w]) /\ run[w].at = "file" /\ IsCopy(run[w].job)
    BY <1>11, StagedRun DEF ReadFile
  <2>2. CASE Fails(w)
    BY <1>2, <1>4, <1>11, <2>2 DEF ReadFile
  <2>3. CASE \E f \in run[w].left, path \in DOMAIN disk :
               /\ run' = [run EXCEPT ![w].file = f, ![w].content = disk[path],
                                     ![w].at = "write"]
               /\ UNCHANGED queue
    <3>1. PICK f \in run[w].left, path \in DOMAIN disk :
            run' = [run EXCEPT ![w].file = f, ![w].content = disk[path], ![w].at = "write"]
      BY <2>3
    <3> DEFINE r == [run[w] EXCEPT !.file = f, !.content = disk[path], !.at = "write"]
    <3>2. disk[path] \in Sizes \cup {Torn}
      BY <1>0 DEF StoreTypeOK
    <3>3. /\ r \in Runs /\ r.at = "write" /\ r.job = run[w].job /\ r.dest = run[w].dest
          /\ r.bucket = run[w].bucket /\ r.left = run[w].left /\ r.total = run[w].total
          /\ r.file = f
      BY <2>1, <3>2 DEF Runs
    <3>4. Staged(r)
      BY ONLY <2>1, <3>1, <3>3 DEF Staged
    <3>5. QED
      BY <1>0, <1>3, <1>4, <1>11, <2>3, <3>1, <3>3, <3>4 DEF ReadFile
  <2>4. QED
    BY <1>11, <2>2, <2>3 DEF ReadFile
<1>12. ASSUME run[w] \in Runs, Staged(run[w]), run[w].at \in {"write", "row"},
              IsCopy(run[w].job)
       PROVE  /\ run[w].file \in FileRows /\ run[w].dest \in BucketRows
              /\ CopyPath(w) \in Paths
  BY <1>12 DEF Staged, Runs, CopyPath, PlainPath, Paths, BucketRows, FileRows, NoVersion
<1>13. CASE WriteFile(w)
  <2>1. run[w] \in Runs /\ Staged(run[w]) /\ run[w].at = "write" /\ IsCopy(run[w].job)
    BY <1>13, StagedRun DEF WriteFile, Staged
  <2> DEFINE r == [run[w] EXCEPT !.at = "row", !.content = Torn]
  <2>2. /\ r \in Runs /\ r.at = "row" /\ r.job = run[w].job /\ r.dest = run[w].dest
        /\ r.bucket = run[w].bucket /\ r.left = run[w].left /\ r.total = run[w].total
        /\ r.file = run[w].file
    BY <2>1 DEF Runs
  <2>3. Staged(r)
    BY ONLY <2>1, <2>2 DEF Staged
  <2>4. run[w].content \in Sizes \cup {Torn} /\ CopyPath(w) \in Paths
    BY <1>12, <2>1 DEF Runs
  <2>5. DOMAIN disk' \subseteq Paths /\ disk' \in [DOMAIN disk' -> Sizes \cup {Torn}]
    BY <1>0, <1>13, <2>4, BlobTypes DEF WriteFile
  <2>6. StoreTypeOK' /\ IsFiniteSet(files')
    BY <1>0, <1>13, <2>5 DEF WriteFile, StoreTypeOK
  <2>7. QED
    BY <1>0, <1>3, <1>13, <2>2, <2>3, <2>6 DEF WriteFile
<1>14. CASE InsertRow(w)
  <2>1. run[w] \in Runs /\ Staged(run[w]) /\ run[w].at = "row" /\ IsCopy(run[w].job)
    BY <1>14, StagedRun DEF InsertRow
  <2> DEFINE r == [run[w] EXCEPT !.at = "progress"]
             row == [run[w].file EXCEPT !.id = uuid, !.bucket = run[w].dest.id,
                                        !.latest = TRUE]
  <2>2. /\ r \in Runs /\ r.at = "progress" /\ r.job = run[w].job /\ r.dest = run[w].dest
        /\ r.bucket = run[w].bucket /\ r.left = run[w].left /\ r.total = run[w].total
        /\ r.file = run[w].file
    BY <2>1 DEF Runs
  <2>3. Staged(r)
    BY ONLY <2>1, <2>2 DEF Staged
  <2>4. row \in FileRows
    <3>1. run[w].file \in FileRows /\ run[w].dest.id \in Nat /\ uuid \in Nat
      BY <1>0, <1>12, <2>1 DEF BucketRows, StoreTypeOK
    <3>2. QED
      BY ONLY <3>1 DEF FileRows
  <2>5. InsertFile(row) /\ uuid' = uuid + 1 /\ UNCHANGED <<buckets, disk, tasks, ask, faults>>
    BY <1>14 DEF InsertRow
  <2> HIDE DEF row
  <2>6. files' \subseteq FileRows /\ IsFiniteSet(files')
    BY <1>0, <2>4, <2>5, StoreTypes, FilesFinite DEF InsertFile
  <2>7. StoreTypeOK'
    BY <1>0, <2>5, <2>6 DEF StoreTypeOK
  <2>8. CASE Fails(w)
    BY <1>2, <2>5, <2>6, <2>7, <2>8
  <2>9. CASE run' = [run EXCEPT ![w].at = "progress"] /\ UNCHANGED queue
    BY <1>0, <1>3, <2>2, <2>3, <2>5, <2>6, <2>7, <2>9
  <2>10. QED
    BY <1>14, <2>8, <2>9 DEF InsertRow
<1>15. CASE Progress(w)
  <2>1. run[w] \in Runs /\ Staged(run[w]) /\ run[w].at = "progress"
    BY <1>15, StagedRun DEF Progress
  <2> DEFINE r == [run[w] EXCEPT !.at = "file", !.left = @ \ {run[w].file}, !.file = NoRow]
  <2>2. /\ r \in Runs /\ r.at = "file" /\ r.job = run[w].job /\ r.dest = run[w].dest
        /\ r.bucket = run[w].bucket /\ r.left = run[w].left \ {run[w].file}
        /\ r.total = run[w].total
    BY <2>1 DEF Runs
  <2>3. /\ IsFiniteSet(run[w].left) /\ run[w].file \in run[w].left
        /\ Cardinality(run[w].left) \in Nat /\ run[w].total \in Nat
        /\ Cardinality(run[w].left) <= run[w].total
    BY <2>1, FS_CardinalityType DEF Staged, Runs
  <2>4. /\ IsFiniteSet(run[w].left \ {run[w].file})
        /\ Cardinality(run[w].left \ {run[w].file}) = Cardinality(run[w].left) - 1
    BY <2>3, FS_RemoveElement
  <2>5. Cardinality(run[w].left \ {run[w].file}) <= run[w].total
    BY ONLY <2>3, <2>4
  <2>6. Staged(r)
    BY ONLY <2>1, <2>2, <2>4, <2>5 DEF Staged
  <2>7. Percent(w) \in 0..100
    <3>1. 1 <= Cardinality(run[w].left)
      BY <2>3, FS_EmptySet
    <3>2. QED
      BY <2>3, <3>1, PercentType DEF Percent
  <2>8. tasks' \subseteq TaskRows
    BY <1>0, <1>15, <2>7, ReportType DEF Progress
  <2>9. run' = [run EXCEPT ![w] = r] /\ UNCHANGED <<storeVars, queue, ask, faults>>
    BY <1>15 DEF Progress
  <2> HIDE DEF r
  <2>10. QED
    BY <1>0, <1>3, <1>4, <2>2, <2>6, <2>8, <2>9
<1>16. CASE Finish(w)
  <2>1. run[w] \in Runs /\ Staged(run[w]) /\ run[w].at = "file"
    BY <1>16, StagedRun DEF Finish
  <2> DEFINE r == [run[w] EXCEPT !.at = "ack"]
  <2>2. /\ r \in Runs /\ r.at = "ack" /\ r.job = run[w].job /\ r.dest = run[w].dest
        /\ r.bucket = run[w].bucket /\ r.left = run[w].left /\ r.total = run[w].total
    BY <2>1 DEF Runs
  <2>3. Staged(r)
    BY ONLY <2>1, <2>2 DEF Staged
  <2>4. tasks' \subseteq TaskRows
    BY <1>0, <1>16, ReportType DEF Finish
  <2>5. QED
    BY <1>0, <1>3, <1>4, <1>16, <2>2, <2>3, <2>4 DEF Finish
<1>17. CASE Acknowledge(w)
  <2>1. queue' \subseteq Messages
    BY <1>0, <1>17, MessagesType DEF Acknowledge
  <2>2. QED
    BY <1>0, <1>4, <1>17, <2>1, ExecutionType DEF Acknowledge
<1>18. CASE Stops(w)
  <2>1. Fails(w) /\ UNCHANGED <<buckets, files, uuid, tasks, ask, faults>>
    BY <1>18 DEF Stops
  <2>2. DOMAIN disk' \subseteq Paths /\ disk' \in [DOMAIN disk' -> Sizes \cup {Torn}]
    <3>1. CASE UNCHANGED disk
      BY <1>0, <3>1 DEF StoreTypeOK
    <3>2. CASE run[w].at = "write" /\ WriteBlob(CopyPath(w), Torn)
      <4>1. CopyPath(w) \in Paths
        BY <1>12, <3>2, StagedRun DEF Staged
      <4>2. QED
        BY <1>0, <3>2, <4>1, BlobTypes
    <3>3. QED
      BY <1>18, <3>1, <3>2 DEF Stops
  <2>3. QED
    BY <1>0, <1>2, <2>1, <2>2 DEF StoreTypeOK
<1>19. CASE TimesOut(w)
  <2>1. run[w] \in Runs /\ Staged(run[w])
    BY <1>19, StagedRun DEF TimesOut, TypeInv, StagedRuns
  <2> DEFINE r == [run[w] EXCEPT !.late = TRUE]
  <2>2. /\ r \in Runs /\ r.at = run[w].at /\ r.job = run[w].job /\ r.dest = run[w].dest
        /\ r.bucket = run[w].bucket /\ r.left = run[w].left /\ r.total = run[w].total
        /\ r.file = run[w].file
    BY <2>1 DEF Runs
  <2>3. Staged(r)
    BY ONLY <2>1, <2>2 DEF Staged
  <2>4. queue' \subseteq Messages
    BY <1>0, <1>19, MessagesType DEF TimesOut
  <2>5. QED
    BY <1>0, <1>3, <1>4, <1>19, <2>2, <2>3, <2>4 DEF TimesOut
<1>20. QED
  BY <1>1, <1>5, <1>6, <1>7, <1>8, <1>9, <1>10, <1>11, <1>13, <1>14, <1>15, <1>16, <1>17,
     <1>18, <1>19 DEF Work

\* A shutdown puts messages back, ends the executions and may cut files short
LEMMA ShutDownType ==
  ASSUME TypeInv, ShutsDown
  PROVE  TypeInv'
<1>1. queue' \subseteq Messages
  <2>1. ASSUME NEW m \in queue, m.state = "active"
        PROVE  [m EXCEPT !.state = "pending", !.requeued = @ + 1] \in Messages
    <3>1. m \in Messages /\ m.requeued < MaxRequeues
      BY <2>1 DEF TypeInv, TypeOK, TasksTypeOK, ShutsDown
    <3>2. m.requeued + 1 \in 0..MaxRequeues
      BY <3>1, RetryAssumption DEF Messages
    <3>3. QED
      BY <3>1, <3>2 DEF Messages
  <2>2. queue \subseteq Messages
    BY DEF TypeInv, TypeOK, TasksTypeOK
  <2>3. QED
    BY <2>1, <2>2 DEF ShutsDown, Requeue
<1>2. PICK cut \in SUBSET {w \in Executors : "torn" \in faults /\ run[w].at = "write"} :
        disk' = [p \in DOMAIN disk \cup {CopyPath(w) : w \in cut} |->
                   IF \E w \in cut : p = CopyPath(w) THEN Torn ELSE disk[p]]
  BY DEF ShutsDown
<1>3. ASSUME NEW w \in cut
      PROVE  CopyPath(w) \in Paths
  <2>1. run[w] \in Runs /\ Staged(run[w]) /\ run[w].at = "write"
    BY StagedRun
  <2>2. run[w].dest \in BucketRows /\ run[w].file \in FileRows
    BY <2>1 DEF Staged, Runs
  <2>3. QED
    BY <2>2 DEF CopyPath, PlainPath, Paths, BucketRows, FileRows, NoVersion
<1>4. DOMAIN disk' \subseteq Paths /\ disk' \in [DOMAIN disk' -> Sizes \cup {Torn}]
  BY <1>2, <1>3 DEF TypeInv, TypeOK, StoreTypeOK
<1>5. QED
  BY <1>1, <1>4 DEF ShutsDown, TypeInv, TypeOK, TasksTypeOK, StoreTypeOK

\* In every reachable state the tables, the files, the messages and the local
\* variables of requests and executions have their types; an execution that
\* has got somewhere has read what it needs there
LEMMA TypeInvariant == Spec => []TypeInv
<1>1. Init => TypeInv
  <2> SUFFICES ASSUME Init PROVE TypeInv
    OBVIOUS
  <2>1. StoreTypeOK /\ IsFiniteSet(files)
    BY StockAssumption DEF Init, StoreOK, StoreTypeOK
  <2>2. QED
    BY <2>1 DEF Init, TasksInit, TypeInv, TypeOK, TasksTypeOK
<1>2. TypeInv /\ [Next]_vars => TypeInv'
  <2> SUFFICES ASSUME TypeInv, [Next]_vars PROVE TypeInv'
    OBVIOUS
  <2>1. CASE \E q \in Requesters : Ask(q) \/ Serve(q) \/ AskAborts(q)
    BY <2>1, AskStepType
  <2>2. CASE \E w \in Executors : Start(w) \/ Work(w) \/ Stops(w) \/ TimesOut(w)
    BY <2>2, RunStepType
  <2>3. CASE DeleteEmptyBucket
    <3>1. buckets' \subseteq buckets /\ files' \in SUBSET files
      BY <2>3 DEF DeleteEmptyBucket, DropBucket
    <3>2. IsFiniteSet(files')
      BY <3>1, FilesFinite
    <3>3. QED
      BY <2>3, <3>1, <3>2 DEF DeleteEmptyBucket, TypeInv, TypeOK, TasksTypeOK, StoreTypeOK
  <2>4. CASE UNCHANGED vars
    BY <2>4 DEF vars, TypeInv, TypeOK, TasksTypeOK, StoreTypeOK
  <2>5. CASE ShutsDown
    BY <2>5, ShutDownType
  <2>6. QED
    BY <2>1, <2>2, <2>3, <2>4, <2>5 DEF Next
<1>3. QED
  BY <1>1, <1>2, PTL DEF Spec

\* Rows, messages and local variables keep their types, in every interleaving of
\* requests and executions that fail, stop, time out and are repeated; so a task
\* row never shows a progress above 100
THEOREM TasksTypeCorrect == Spec => []TypeOK
<1>1. TypeInv => TypeOK
  BY DEF TypeInv
<1>2. QED
  BY <1>1, TypeInvariant, PTL

-----------------------------------------------------------------------------
(* One task: a single request after the other, until one has its message in   *)
(* the queue                                                                  *)

OneTask == MaxTasks = 1 /\ \A q, r \in Requesters : q = r

\* Every row, request and execution is about the one message
OneJob ==
  /\ \A m, n \in queue : m = n
  /\ \A s, t \in tasks : s = t
  /\ \A t \in tasks : \E m \in queue : m.job = t.job
  /\ \A w \in Executors : run[w] # Idle => \E m \in queue : m.job = run[w].job
  /\ \A q \in Requesters : ask[q] # Idle =>
       /\ tasks = {}
       /\ ask[q].at \in {"dest", "create", "enqueue"} => queue = {}
       /\ ask[q].at = "record" => \E m \in queue : m.job = JobOf(q)

\* What the steps of an execution do to the message
LEMMA MessageStep ==
  ASSUME TypeInv, OneJob, NEW w \in Executors,
         Start(w) \/ Work(w) \/ Stops(w) \/ TimesOut(w)
  PROVE  \E m \in queue, n \in queue' :
           /\ queue = {m} /\ queue' = {n}
           /\ n.job = m.job /\ n.requeued = m.requeued
           /\ \/ n = m
              \/ n.tries > m.tries
              \/ n.tries = m.tries /\ n.state # "pending"
           /\ run[w] # Idle => run[w].job = m.job
           /\ run[w] = Idle => m.state = "pending" /\ n = [m EXCEPT !.state = "active"]
           /\ run'[w] # Idle => run'[w].job = m.job
           /\ \A v \in Executors \ {w} : run'[v] = run[v]
<1>0. /\ run \in [Executors -> Runs \cup {Idle}] /\ queue \subseteq Messages
      /\ run[w] # Idle => run[w] \in Runs
  BY DEF TypeInv, TypeOK, TasksTypeOK
<1>1. ASSUME NEW m \in queue
      PROVE  /\ queue = {m}
             /\ \A state : SetState(m.job, state) => queue' = {[m EXCEPT !.state = state]}
             /\ Retry(m.job) /\ m.tries < MaxRetry =>
                  queue' = {[m EXCEPT !.state = "pending", !.tries = @ + 1]}
             /\ Retry(m.job) /\ ~(m.tries < MaxRetry) =>
                  queue' = {[m EXCEPT !.state = "archived"]}
             /\ m.tries \in Nat
             /\ \A state : /\ [m EXCEPT !.state = state].state = state
                           /\ [m EXCEPT !.state = state].job = m.job
                           /\ [m EXCEPT !.state = state].tries = m.tries
                           /\ [m EXCEPT !.state = state].requeued = m.requeued
             /\ [m EXCEPT !.state = "pending", !.tries = @ + 1].job = m.job
             /\ [m EXCEPT !.state = "pending", !.tries = @ + 1].requeued = m.requeued
             /\ [m EXCEPT !.state = "pending", !.tries = @ + 1].tries = m.tries + 1
  <2>1. queue = {m}
    BY DEF OneJob
  <2>2. m \in Messages
    BY <1>0
  <2>3. QED
    BY <2>1, <2>2 DEF SetState, Retry, Messages
<1>2. ASSUME run[w] # Idle
      PROVE  \E m \in queue : run[w].job = m.job
  BY <1>2 DEF OneJob
<1>3. CASE Start(w)
  <2>1. PICK m \in queue :
          /\ m.state = "pending" /\ SetState(m.job, "active")
          /\ run' = [run EXCEPT ![w] =
                       [at |-> "source", job |-> m.job, late |-> FALSE,
                        bucket |-> NoRow, dest |-> NoRow, left |-> {}, total |-> 0,
                        file |-> NoRow, content |-> Torn]]
    BY <1>3, Zenon DEF Start
  <2>2. /\ run'[w].job = m.job
        /\ \A v \in Executors \ {w} : run'[v] = run[v]
    BY <1>0, <2>1
  <2>3. run[w] = Idle
    BY <1>3 DEF Start
  <2> DEFINE n == [m EXCEPT !.state = "active"]
  <2>4. /\ n.job = m.job /\ n.requeued = m.requeued
        /\ n.tries = m.tries /\ n.state = "active"
    BY <1>1
  <2>5. queue = {m} /\ queue' = {n} /\ n \in queue'
    BY <1>1, <2>1
  <2>6. n.state # "pending"
    BY <2>4
  <2> HIDE DEF n
  <2>7. QED
    BY <2>1, <2>2, <2>3, <2>4, <2>5, <2>6 DEF n
<1>4. CASE run[w] # Idle
  <2>1. PICK m \in queue : run[w].job = m.job
    BY <1>2, <1>4
  <2>2. /\ UNCHANGED queue \/ SetState(run[w].job, "done") \/ Retry(run[w].job)
        /\ run' = [run EXCEPT ![w] = run'[w]]
        /\ run'[w] # Idle => run'[w].job = run[w].job
    <3>0. run[w] \in Runs
      BY <1>0, <1>4
    <3>1. CASE Fails(w)
      BY <1>0, <3>1 DEF Fails
    <3>2. CASE FindSource(w)
      BY <1>0, <3>0, <3>1, <3>2 DEF FindSource, Runs
    <3>3. CASE WorkerFindsDest(w)
      BY <1>0, <3>0, <3>3 DEF WorkerFindsDest, Runs
    <3>4. CASE WorkerCreatesDest(w)
      BY <1>0, <3>0, <3>1, <3>4 DEF WorkerCreatesDest, Runs
    <3>5. CASE ListFiles(w)
      BY <1>0, <3>0, <3>5 DEF ListFiles, Runs
    <3>6. CASE RemoveFile(w)
      BY <1>0, <3>0, <3>6 DEF RemoveFile, Runs
    <3>7. CASE DeleteRow(w)
      BY <1>0, <3>0, <3>7 DEF DeleteRow, Runs
    <3>8. CASE ReadFile(w)
      BY <1>0, <3>0, <3>1, <3>8 DEF ReadFile, Runs
    <3>9. CASE WriteFile(w)
      BY <1>0, <3>0, <3>9 DEF WriteFile, Runs
    <3>10. CASE InsertRow(w)
      BY <1>0, <3>0, <3>1, <3>10 DEF InsertRow, Runs
    <3>11. CASE Progress(w)
      BY <1>0, <3>0, <3>11 DEF Progress, Runs
    <3>12. CASE Finish(w)
      BY <1>0, <3>0, <3>12 DEF Finish, Runs
    <3>13. CASE Acknowledge(w)
      BY <1>0, <3>0, <3>13 DEF Acknowledge, Runs
    <3>14. CASE Stops(w)
      BY <1>0, <3>0, <3>1, <3>14 DEF Stops, Runs
    <3>15. CASE TimesOut(w)
      BY <1>0, <3>0, <3>15 DEF TimesOut, Runs
    <3>16. QED
      BY <1>4, <3>2, <3>3, <3>4, <3>5, <3>6, <3>7, <3>8, <3>9, <3>10,
         <3>11, <3>12, <3>13, <3>14, <3>15
         DEF Work, Start
  <2>3. \E n \in queue' :
          /\ queue' = {n} /\ n.job = m.job /\ n.requeued = m.requeued
          /\ \/ n = m
             \/ n.tries > m.tries
             \/ n.tries = m.tries /\ n.state # "pending"
    <3>1. CASE UNCHANGED queue
      BY <1>1, <3>1
    <3>2. CASE SetState(m.job, "done")
      <4>1. [m EXCEPT !.state = "done"] \in queue'
        BY <1>1, <3>2
      <4>2. QED
        BY <1>1, <3>2, <4>1
    <3>3. CASE Retry(m.job) /\ m.tries < MaxRetry
      <4>1. [m EXCEPT !.state = "pending", !.tries = @ + 1] \in queue'
        BY <1>1, <3>3
      <4>2. m.tries + 1 > m.tries
        <5>1. m.tries \in Nat
          BY <1>1
        <5>2. QED
          BY ONLY <5>1
      <4>3. QED
        BY <1>1, <3>3, <4>1, <4>2
    <3>4. CASE Retry(m.job) /\ ~(m.tries < MaxRetry)
      <4>1. [m EXCEPT !.state = "archived"] \in queue'
        BY <1>1, <3>4
      <4>2. QED
        BY <1>1, <3>4, <4>1
    <3>5. QED
      BY <2>1, <2>2, <3>1, <3>2, <3>3, <3>4
  <2>4. \A v \in Executors \ {w} : run'[v] = run[v]
    BY <1>0, <2>2
  <2>5. queue = {m}
    BY <1>1
  <2>6. QED
    BY <1>4, <2>1, <2>2, <2>3, <2>4, <2>5
<1>5. CASE run[w] = Idle /\ ~Start(w)
  BY <1>5 DEF Work, Stops, TimesOut, Idle, FindSource, WorkerFindsDest, WorkerCreatesDest,
           ListFiles, RemoveFile, DeleteRow, ReadFile, WriteFile, InsertRow, Progress,
           Finish, Acknowledge
<1>6. QED
  BY <1>3, <1>4, <1>5

\* ... what a shutdown does to it
LEMMA ShutDownStep ==
  ASSUME TypeInv, OneJob, ShutsDown
  PROVE  /\ UNCHANGED <<buckets, files, uuid, tasks, ask, faults>>
         /\ \A w \in Executors : run'[w] = Idle
         /\ queue = {} => queue' = {}
         /\ \A m \in queue : \E n \in queue' :
              /\ queue = {m} /\ queue' = {n}
              /\ n.job = m.job /\ n.tries = m.tries
              /\ m.tries \in Nat /\ m.requeued \in Nat
              /\ \/ n = m /\ m.state # "active"
                 \/ /\ m.state = "active" /\ n.state = "pending"
                    /\ n.requeued = m.requeued + 1
<1>1. ASSUME NEW m \in queue
      PROVE  \E n \in queue' :
               /\ queue = {m} /\ queue' = {n}
               /\ n.job = m.job /\ n.tries = m.tries
               /\ m.tries \in Nat /\ m.requeued \in Nat
               /\ \/ n = m /\ m.state # "active"
                  \/ /\ m.state = "active" /\ n.state = "pending"
                     /\ n.requeued = m.requeued + 1
  <2>1. queue = {m} /\ m \in Messages
    BY DEF OneJob, TypeInv, TypeOK, TasksTypeOK
  <2>2. PICK n : n = IF m.state = "active"
                     THEN [m EXCEPT !.state = "pending", !.requeued = @ + 1] ELSE m
    OBVIOUS
  <2>3. queue' = {n}
    BY <2>1, <2>2 DEF ShutsDown, Requeue
  <2>4. /\ n.job = m.job /\ n.tries = m.tries
        /\ m.tries \in Nat /\ m.requeued \in Nat
        /\ \/ n = m /\ m.state # "active"
           \/ /\ m.state = "active" /\ n.state = "pending"
              /\ n.requeued = m.requeued + 1
    BY <2>1, <2>2 DEF Messages
  <2>5. QED
    BY <2>1, <2>3, <2>4
<1>2. QED
  BY <1>1 DEF ShutsDown, Requeue

\* ... and what an execution does to the row of the task
LEMMA RowStep ==
  ASSUME TypeInv, OneJob, NEW w \in Executors,
         Start(w) \/ Work(w) \/ Stops(w) \/ TimesOut(w)
  PROVE  /\ \A s, t \in tasks' : s = t
         /\ \A n \in tasks' : \E t \in tasks :
              /\ n.job = t.job
              /\ \/ n = t
                 \/ Progress(w) /\ n.progress = Percent(w) /\ n.status = t.status
                 \/ Finish(w) /\ n.progress = 100 /\ n.status = "completed"
         /\ ask' = ask /\ faults' = faults
<1>1. ASSUME NEW status \in {"keep", "completed"}, NEW progress,
             Report(run[w].job, status, progress)
      PROVE  /\ \A s, t \in tasks' : s = t
             /\ \A n \in tasks' : \E t \in tasks :
                  /\ n.job = t.job
                  /\ \/ n = t
                     \/ /\ n.progress = progress
                        /\ n.status = IF status = "keep" THEN t.status ELSE status
  <2>1. \A t \in tasks : t \in TaskRows
    BY DEF TypeInv, TypeOK, TasksTypeOK
  <2>2. \A s, t \in tasks : s = t
    BY DEF OneJob
  <2> DEFINE New(t) == IF t \in Reported(run[w].job)
                       THEN [t EXCEPT !.progress = progress,
                                      !.status = IF status = "keep" THEN @ ELSE status]
                       ELSE t
  <2>3. tasks' = {New(t) : t \in tasks}
    BY <1>1 DEF Report
  <2>4. \A t \in tasks :
          LET u == [t EXCEPT !.progress = progress,
                             !.status = IF status = "keep" THEN @ ELSE status]
          IN  /\ u.job = t.job /\ u.progress = progress
              /\ u.status = IF status = "keep" THEN t.status ELSE status
    BY <2>1 DEF TaskRows
  <2>5. \A n \in tasks' : \E t \in tasks :
          /\ n.job = t.job
          /\ \/ n = t
             \/ /\ n.progress = progress
                /\ n.status = IF status = "keep" THEN t.status ELSE status
    BY ONLY <2>3, <2>4
  <2> HIDE DEF New
  <2>6. \A s, t \in tasks' : s = t
    BY ONLY <2>2, <2>3
  <2>7. QED
    BY <2>5, <2>6
<1>2. UNCHANGED tasks =>
        /\ \A s, t \in tasks' : s = t
        /\ \A n \in tasks' : \E t \in tasks : n.job = t.job /\ n = t
  BY DEF OneJob
<1>3. CASE Progress(w)
  BY <1>1, <1>2, <1>3 DEF Progress
<1>4. CASE Finish(w)
  BY <1>1, <1>2, <1>4 DEF Finish
<1>5. CASE ~Progress(w) /\ ~Finish(w)
  <2>1. UNCHANGED <<tasks, ask, faults>>
    BY <1>5 DEF Work, Stops, TimesOut, Start, FindSource, WorkerFindsDest,
         WorkerCreatesDest, ListFiles, RemoveFile, DeleteRow, ReadFile, WriteFile,
         InsertRow, Acknowledge
  <2>2. QED
    BY <1>2, <2>1
<1>6. QED
  BY <1>3, <1>4, <1>5

\* With one task every step keeps it the only one
LEMMA OneJobKept ==
  ASSUME OneTask, TypeInv, OneJob, [Next]_vars
  PROVE  OneJob'
<1>0. /\ ask \in [Requesters -> Asks \cup {Idle}]
      /\ \A q \in Requesters : ask[q] # Idle => ask[q] \in Asks
  BY DEF TypeInv, TypeOK, TasksTypeOK
<1>1. ASSUME NEW w \in Executors, Start(w) \/ Work(w) \/ Stops(w) \/ TimesOut(w)
      PROVE  OneJob'
  <2>1. PICK m \in queue, n \in queue' :
           /\ queue = {m} /\ queue' = {n}
           /\ n.job = m.job
           /\ run'[w] # Idle => run'[w].job = m.job
           /\ \A v \in Executors \ {w} : run'[v] = run[v]
    BY <1>1, MessageStep
  <2>2. /\ \A s, t \in tasks' : s = t
        /\ \A u \in tasks' : \E t \in tasks : u.job = t.job
        /\ ask' = ask
    BY <1>1, RowStep
  <2>3. \A q \in Requesters : JobOf(q)' = JobOf(q)
    BY <2>2 DEF JobOf
  <2>4. QED
    BY <2>1, <2>2, <2>3 DEF OneJob
<1>2. ASSUME NEW q \in Requesters, Ask(q) \/ Serve(q) \/ AskAborts(q)
      PROVE  OneJob'
  <2>1. \A r \in Requesters : r = q
    BY DEF OneTask
  <2>2. CASE Ask(q)
    <3>1. queue = {}
      <4>1. PICK m : queue \subseteq {m}
        <5>1. CASE queue = {}
          BY <5>1
        <5>2. CASE queue # {}
          BY <5>2 DEF OneJob
        <5>3. QED
          BY <5>1, <5>2
      <4>2. IsFiniteSet(queue)
        BY <4>1, FS_Singleton, FS_Subset
      <4>3. Cardinality(queue) < 1 /\ Cardinality(queue) \in Nat
        BY <2>2, <4>2, FS_CardinalityType DEF Ask, OneTask
      <4>4. Cardinality(queue) = 0
        BY <4>3
      <4>5. QED
        BY <4>2, <4>4, FS_EmptySet
    <3>2. tasks = {} /\ \A w \in Executors : run[w] = Idle
      BY <3>1 DEF OneJob
    <3>3. ask'[q].at \in {"enqueue", "dest"}
      BY <1>0, <2>2 DEF Ask
    <3>4. UNCHANGED <<queue, tasks, run>>
      BY <2>2 DEF Ask
    <3>5. QED
      BY <2>1, <3>1, <3>2, <3>3, <3>4 DEF OneJob
  <2>3. CASE FindDest(q) \/ CreateDest(q)
    <3>1. /\ ask[q].at \in {"dest", "create"} /\ ask[q] # Idle
          /\ UNCHANGED <<queue, tasks, run>>
      BY <2>3 DEF FindDest, CreateDest, Idle
    <3>2. ask'[q] = Idle \/ ask'[q].at \in {"create", "enqueue"}
      BY <1>0, <2>3, <3>1 DEF FindDest, CreateDest, Asks
    <3>3. QED
      BY <2>1, <3>1, <3>2 DEF OneJob
  <2>4. CASE Enqueue(q)
    <3>1. ask[q].at = "enqueue" /\ ask[q] # Idle
      BY <2>4 DEF Enqueue, Idle
    <3>2. queue = {} /\ tasks = {} /\ \A w \in Executors : run[w] = Idle
      BY <3>1 DEF OneJob
    <3>3. /\ ask'[q].at = "record" /\ JobOf(q)' = [JobOf(q) EXCEPT !.id = uuid]
      BY <1>0, <2>4, <3>1 DEF Enqueue, Asks, JobOf
    <3>4. queue' = {[job |-> [JobOf(q) EXCEPT !.id = uuid], tries |-> 0,
                     requeued |-> 0, state |-> "pending"]}
      BY <2>4, <3>2 DEF Enqueue
    <3>5. \E m \in queue' : m.job = JobOf(q)'
      BY <3>3, <3>4
    <3>6. UNCHANGED <<tasks, run>>
      BY <2>4 DEF Enqueue
    <3>7. \A m, n \in queue' : m = n
      BY <3>4
    <3>8. QED
      BY <2>1, <3>2, <3>3, <3>5, <3>6, <3>7 DEF OneJob
  <2>5. CASE Record(q)
    <3>1. ask[q].at = "record" /\ ask[q] # Idle
      BY <2>5 DEF Record, Idle
    <3>2. tasks = {} /\ \E m \in queue : m.job = JobOf(q)
      BY <3>1 DEF OneJob
    <3>3. ask'[q] = Idle /\ UNCHANGED <<queue, run>>
      BY <1>0, <2>5 DEF Record
    <3>4. tasks' = {[job |-> JobOf(q), status |-> "running", progress |-> 0]}
      BY <2>5, <3>2 DEF Record
    <3>5. QED
      BY <2>1, <3>2, <3>3, <3>4 DEF OneJob
  <2>6. CASE AskAborts(q)
    <3>1. ask'[q] = Idle /\ UNCHANGED <<queue, run, tasks>>
      BY <1>0, <2>6 DEF AskAborts
    <3>2. QED
      BY <2>1, <3>1 DEF OneJob
  <2>7. QED
    BY <1>2, <2>2, <2>3, <2>4, <2>5, <2>6 DEF Serve
<1>3. CASE UNCHANGED <<ask, queue, run, tasks>>
  BY <1>3 DEF OneJob, JobOf
<1>4. CASE ShutsDown
  <2>1. /\ UNCHANGED <<tasks, ask>> /\ \A w \in Executors : run'[w] = Idle
        /\ queue = {} => queue' = {}
        /\ \A m \in queue : \E n \in queue' : queue = {m} /\ queue' = {n} /\ n.job = m.job
    BY <1>4, ShutDownStep
  <2>2. \A q \in Requesters : JobOf(q)' = JobOf(q)
    BY <2>1 DEF JobOf
  <2>3. CASE queue = {}
    BY <2>1, <2>3 DEF OneJob
  <2>4. CASE queue # {}
    <3>1. PICK m \in queue, n \in queue' : queue = {m} /\ queue' = {n} /\ n.job = m.job
      BY <2>1, <2>4
    <3>2. QED
      BY <2>1, <2>2, <3>1 DEF OneJob
  <2>5. QED
    BY <2>3, <2>4
<1>5. QED
  BY <1>1, <1>2, <1>3, <1>4 DEF Next, vars, DeleteEmptyBucket

-----------------------------------------------------------------------------
(* Which executions there are at a time                                       *)

\* Nothing runs beside an execution that has time
Solo ==
  "timeout" \notin faults =>
    /\ \A v, w \in Executors : run[v] # Idle /\ run[w] # Idle => v = w
    /\ \A w \in Executors : run[w] # Idle =>
         /\ ~run[w].late
         /\ \A m \in queue : m.state # "pending"

\* An execution within its time is the only such one, and its message is active
Prompt ==
  \A w \in Executors : run[w] # Idle /\ ~run[w].late =>
    /\ \A m \in queue : m.state = "active"
    /\ \A v \in Executors : run[v] # Idle /\ ~run[v].late => v = w

LEMMA IdleStarts ==
  ASSUME NEW w, run[w] = Idle, Work(w) \/ Stops(w) \/ TimesOut(w)
  PROVE  FALSE
  BY DEF Work, Stops, TimesOut, Idle, FindSource, WorkerFindsDest, WorkerCreatesDest,
         ListFiles, RemoveFile, DeleteRow, ReadFile, WriteFile, InsertRow, Progress,
         Finish, Acknowledge

\* Only the acknowledgement makes a message "done", and an execution that goes
\* on leaves it alone
LEMMA GoesOn ==
  ASSUME TypeInv, OneJob, NEW w \in Executors, NEW m \in queue, NEW n \in queue',
         Start(w) \/ Work(w) \/ Stops(w) \/ TimesOut(w)
  PROVE  /\ n.state = "done" => n = m \/ Acknowledge(w)
         /\ run[w] # Idle /\ run'[w] # Idle /\ ~TimesOut(w) =>
              n = m /\ run'[w].late = run[w].late
         /\ Start(w) => ~run'[w].late
<1>0. /\ run \in [Executors -> Runs \cup {Idle}]
      /\ run[w] # Idle => run[w] \in Runs
      /\ \A k \in queue : k = m /\ k \in Messages
  BY DEF TypeInv, TypeOK, TasksTypeOK, OneJob
<1>1. UNCHANGED queue => n = m
  BY <1>0
<1>2. ASSUME NEW job, SetState(job, "active") \/ Retry(job)
      PROVE  n.state = "done" => n = m
  <2>1. \A state : [m EXCEPT !.state = state].state = state
    BY <1>0 DEF Messages
  <2>2. [m EXCEPT !.state = "pending", !.tries = @ + 1].state = "pending"
    BY <1>0 DEF Messages
  <2>3. CASE SetState(job, "active")
    <3> DEFINE New(k) == IF k.job.id = job.id THEN [k EXCEPT !.state = "active"] ELSE k
    <3>1. queue' = {New(k) : k \in queue}
      BY <2>3 DEF SetState
    <3>2. New(m) = m \/ New(m).state = "active"
      BY <2>1
    <3> HIDE DEF New
    <3>3. n = New(m)
      BY <1>0, <3>1
    <3>4. QED
      BY <3>2, <3>3
  <2>4. CASE Retry(job)
    <3> DEFINE New(k) == CASE k.job.id # job.id -> k
                           [] k.tries < MaxRetry -> [k EXCEPT !.state = "pending", !.tries = @ + 1]
                           [] OTHER -> [k EXCEPT !.state = "archived"]
    <3>1. queue' = {New(k) : k \in queue}
      BY <2>4 DEF Retry
    <3>2. New(m) = m \/ New(m).state \in {"pending", "archived"}
      BY <2>1, <2>2
    <3> HIDE DEF New
    <3>3. n = New(m)
      BY <1>0, <3>1
    <3>4. QED
      BY <3>2, <3>3
  <2>5. QED
    BY <1>2, <2>3, <2>4
<1>3. ASSUME Fails(w)
      PROVE  run'[w] = Idle /\ (n.state = "done" => n = m)
  BY <1>0, <1>1, <1>2, <1>3 DEF Fails
<1>4. CASE Start(w)
  <2>1. PICK k \in queue :
          /\ SetState(k.job, "active")
          /\ run' = [run EXCEPT ![w] =
                       [at |-> "source", job |-> k.job, late |-> FALSE,
                        bucket |-> NoRow, dest |-> NoRow, left |-> {}, total |-> 0,
                        file |-> NoRow, content |-> Torn]]
    BY <1>4, Zenon DEF Start
  <2>2. run[w] = Idle
    BY <1>4 DEF Start
  <2>3. ~run'[w].late
    BY <1>0, <2>1
  <2>4. n.state = "done" => n = m
    BY <1>2, <2>1
  <2>5. QED
    BY <2>2, <2>3, <2>4
<1>5. CASE Work(w) \/ Stops(w) \/ TimesOut(w)
  <2>0. run[w] # Idle /\ ~Start(w)
    <3>1. ASSUME run[w] = Idle PROVE FALSE
      <4>1. run[w].at = "idle"
        BY <3>1 DEF Idle
      <4>2. ~Work(w)
        BY <4>1 DEF Work, FindSource, WorkerFindsDest, WorkerCreatesDest, ListFiles,
           RemoveFile, DeleteRow, ReadFile, WriteFile, InsertRow, Progress, Finish,
           Acknowledge
      <4>3. QED
        BY <1>5, <3>1, <4>2 DEF Stops, TimesOut
    <3>2. QED
      BY <3>1 DEF Start
  <2>1. CASE FindSource(w)
    BY <1>0, <1>1, <1>3, <2>0, <2>1 DEF FindSource, Runs
  <2>2. CASE WorkerFindsDest(w)
    <3>1. UNCHANGED queue
      BY <2>2 DEF WorkerFindsDest
    <3>2. \/ \E b : run' = [run EXCEPT ![w].dest = b, ![w].at = "list"]
          \/ run' = [run EXCEPT ![w].at = "create"]
      BY <2>2 DEF WorkerFindsDest
    <3>3. run'[w].late = run[w].late
      BY <1>0, <2>0, <3>2 DEF Runs
    <3>4. QED
      BY <1>1, <2>0, <3>1, <3>3
  <2>3. CASE WorkerCreatesDest(w)
    BY <1>0, <1>1, <1>3, <2>0, <2>3 DEF WorkerCreatesDest, Runs
  <2>4. CASE ListFiles(w)
    BY <1>0, <1>1, <2>0, <2>4 DEF ListFiles, Runs
  <2>5. CASE RemoveFile(w)
    BY <1>0, <1>1, <2>0, <2>5 DEF RemoveFile, Runs
  <2>6. CASE DeleteRow(w)
    BY <1>0, <1>1, <2>0, <2>6 DEF DeleteRow, Runs
  <2>7. CASE ReadFile(w)
    BY <1>0, <1>1, <1>3, <2>0, <2>7 DEF ReadFile, Runs
  <2>8. CASE WriteFile(w)
    BY <1>0, <1>1, <2>0, <2>8 DEF WriteFile, Runs
  <2>9. CASE InsertRow(w)
    BY <1>0, <1>1, <1>3, <2>0, <2>9 DEF InsertRow, Runs
  <2>10. CASE Progress(w)
    BY <1>0, <1>1, <2>0, <2>10 DEF Progress, Runs
  <2>11. CASE Finish(w)
    BY <1>0, <1>1, <2>0, <2>11 DEF Finish, Runs
  <2>12. CASE Acknowledge(w)
    BY <1>0, <2>0, <2>12 DEF Acknowledge
  <2>13. CASE Stops(w)
    BY <1>3, <2>0, <2>13 DEF Stops
  <2>14. CASE TimesOut(w)
    BY <1>2, <2>0, <2>14 DEF TimesOut
  <2>15. QED
    BY <1>5, <2>0, <2>1, <2>2, <2>3, <2>4, <2>5, <2>6, <2>7, <2>8, <2>9, <2>10, <2>11,
       <2>12, <2>13, <2>14 DEF Work
<1>6. QED
  BY <1>4, <1>5

\* Only an execution within its time changes the message, and then it ends or its
\* time does and no row is changed
LEMMA MessageChange ==
  ASSUME TypeInv, OneJob, NEW w \in Executors, NEW m \in queue, run[w] # Idle,
         Work(w) \/ Stops(w) \/ TimesOut(w)
  PROVE  \/ /\ queue' = queue
            /\ run'[w] = Idle \/ run'[w].late = run[w].late
         \/ /\ ~run[w].late /\ UNCHANGED <<buckets, files>>
            /\ run'[w] = Idle \/ run'[w].late
            /\ \E n : /\ queue' = {n} /\ n.job = m.job
                      /\ \/ n.state \in {"pending", "archived"}
                         \/ run[w].at = "ack" /\ n.state = "done"
<1>0. /\ run \in [Executors -> Runs \cup {Idle}] /\ run[w] \in Runs
      /\ run[w].job = m.job /\ queue = {m} /\ m \in Messages
  BY DEF TypeInv, TypeOK, TasksTypeOK, OneJob
<1>m. /\ \A state : /\ [m EXCEPT !.state = state].state = state
                    /\ [m EXCEPT !.state = state].job = m.job
      /\ [m EXCEPT !.state = "pending", !.tries = @ + 1].state = "pending"
      /\ [m EXCEPT !.state = "pending", !.tries = @ + 1].job = m.job
  BY <1>0 DEF Messages
<1>1. ASSUME Retry(m.job)
      PROVE  \E n : queue' = {n} /\ n.job = m.job /\ n.state \in {"pending", "archived"}
  <2>1. CASE m.tries < MaxRetry
    <3>1. queue' = {[m EXCEPT !.state = "pending", !.tries = @ + 1]}
      BY <1>0, <1>1, <2>1 DEF Retry
    <3>2. QED
      BY <1>m, <3>1
  <2>2. CASE ~(m.tries < MaxRetry)
    <3>1. queue' = {[m EXCEPT !.state = "archived"]}
      BY <1>0, <1>1, <2>2 DEF Retry
    <3>2. QED
      BY <1>m, <3>1
  <2>3. QED
    BY <2>1, <2>2
<1>2. ASSUME Fails(w), UNCHANGED <<buckets, files>>
      PROVE  \/ queue' = queue /\ run'[w] = Idle
             \/ /\ ~run[w].late /\ UNCHANGED <<buckets, files>> /\ run'[w] = Idle
                /\ \E n : /\ queue' = {n} /\ n.job = m.job
                          /\ n.state \in {"pending", "archived"}
  <2>1. run'[w] = Idle
    BY <1>0, <1>2 DEF Fails
  <2>2. run[w].late \in BOOLEAN
    BY <1>0 DEF Runs
  <2>3. CASE run[w].late
    BY <1>2, <2>1, <2>3 DEF Fails
  <2>4. CASE ~run[w].late
    <3>1. Retry(m.job)
      BY <1>0, <1>2, <2>4 DEF Fails
    <3>2. QED
      BY <1>1, <1>2, <2>1, <2>4, <3>1
  <2>5. QED
    BY <2>3, <2>4
<1>3. CASE FindSource(w)
  <2>1. UNCHANGED <<buckets, files>>
    BY <1>3 DEF FindSource, storeVars
  <2>2. CASE Fails(w)
    BY <1>2, <2>1, <2>2
  <2>3. CASE ~Fails(w)
    <3>1. /\ queue' = queue
          /\ \E b, at : run' = [run EXCEPT ![w].bucket = b, ![w].at = at]
      BY <1>3, <2>3 DEF FindSource
    <3>2. QED
      BY <1>0, <3>1 DEF Runs
  <2>4. QED
    BY <2>2, <2>3
<1>4. CASE WorkerFindsDest(w)
  <2>1. /\ queue' = queue
        /\ \/ \E b : run' = [run EXCEPT ![w].dest = b, ![w].at = "list"]
           \/ run' = [run EXCEPT ![w].at = "create"]
    BY <1>4 DEF WorkerFindsDest
  <2>2. QED
    BY <1>0, <2>1 DEF Runs
<1>5. CASE WorkerCreatesDest(w)
  <2>1. PICK row : row = DestRow(run[w].job.user, run[w].job.dest, run[w].bucket)
    OBVIOUS
  <2>2. CASE \E b \in buckets : b.name = row.name
    <3>1. Fails(w) /\ UNCHANGED <<buckets, files>>
      BY <1>5, <2>1, <2>2 DEF WorkerCreatesDest, InsertBucket
    <3>2. QED
      BY <1>2, <3>1
  <2>3. CASE ~\E b \in buckets : b.name = row.name
    <3>1. queue' = queue /\ run' = [run EXCEPT ![w].dest = row, ![w].at = "list"]
      BY <1>5, <2>1, <2>3 DEF WorkerCreatesDest
    <3>2. QED
      BY <1>0, <3>1 DEF Runs
  <2>4. QED
    BY <2>2, <2>3
<1>6. CASE ListFiles(w)
  BY <1>0, <1>6 DEF ListFiles, Runs
<1>7. CASE RemoveFile(w)
  BY <1>0, <1>7 DEF RemoveFile, Runs
<1>8. CASE DeleteRow(w)
  BY <1>0, <1>8 DEF DeleteRow, Runs
<1>9. CASE ReadFile(w)
  <2>1. UNCHANGED <<buckets, files>>
    BY <1>9 DEF ReadFile, storeVars
  <2>2. CASE Fails(w)
    BY <1>2, <2>1, <2>2
  <2>3. CASE ~Fails(w)
    <3>1. /\ queue' = queue
          /\ \E f, c : run' = [run EXCEPT ![w].file = f, ![w].content = c, ![w].at = "write"]
      BY <1>9, <2>3 DEF ReadFile
    <3>2. QED
      BY <1>0, <3>1 DEF Runs
  <2>4. QED
    BY <2>2, <2>3
<1>10. CASE WriteFile(w)
  BY <1>0, <1>10 DEF WriteFile, Runs
<1>11. CASE InsertRow(w)
  <2>1. PICK row : row = [run[w].file EXCEPT !.id = uuid, !.bucket = run[w].dest.id,
                                             !.latest = TRUE]
    OBVIOUS
  <2>2. CASE \E b \in buckets : b.id = run[w].dest.id
    <3>1. queue' = queue /\ run' = [run EXCEPT ![w].at = "progress"]
      BY <1>11, <2>2 DEF InsertRow
    <3>2. QED
      BY <1>0, <3>1 DEF Runs
  <2>3. CASE ~\E b \in buckets : b.id = run[w].dest.id
    <3>1. Fails(w) /\ UNCHANGED buckets /\ InsertFile(row)
      BY <1>11, <2>1, <2>3 DEF InsertRow
    <3>2. row.bucket = run[w].dest.id
      <4>1. run[w].file \in FileRows
        BY <1>0, <1>11, StagedRun DEF InsertRow, Staged, Runs
      <4>2. QED
        BY <2>1, <4>1 DEF FileRows
    <3>3. UNCHANGED files
      BY <2>3, <3>1, <3>2 DEF InsertFile
    <3>4. QED
      BY <1>2, <3>1, <3>3
  <2>4. QED
    BY <2>2, <2>3
<1>12. CASE Progress(w)
  BY <1>0, <1>12 DEF Progress, Runs
<1>13. CASE Finish(w)
  BY <1>0, <1>13 DEF Finish, Runs
<1>14. CASE Acknowledge(w)
  <2>1. run'[w] = Idle /\ run[w].at = "ack" /\ UNCHANGED <<buckets, files>>
    BY <1>0, <1>14 DEF Acknowledge, storeVars
  <2>2. CASE run[w].late
    BY <1>14, <2>1, <2>2 DEF Acknowledge
  <2>3. CASE ~run[w].late
    <3>1. SetState(m.job, "done")
      BY <1>0, <1>14, <2>3 DEF Acknowledge
    <3>2. PICK n : n = [m EXCEPT !.state = "done"]
      OBVIOUS
    <3>3. queue' = {n} /\ n.job = m.job /\ n.state = "done"
      BY <1>0, <1>m, <3>1, <3>2 DEF SetState
    <3>4. QED
      BY <2>1, <2>3, <3>3
  <2>4. QED
    BY <2>2, <2>3
<1>15. CASE Stops(w)
  <2>1. UNCHANGED <<buckets, files>> /\ Fails(w)
    BY <1>15 DEF Stops
  <2>2. QED
    BY <1>2, <2>1
<1>16. CASE TimesOut(w)
  <2>1. /\ ~run[w].late /\ Retry(m.job) /\ run'[w].late
        /\ UNCHANGED <<buckets, files>>
    BY <1>0, <1>16 DEF TimesOut, storeVars, Runs
  <2>2. QED
    BY <1>1, <2>1
<1>17. QED
  BY <1>3, <1>4, <1>5, <1>6, <1>7, <1>8, <1>9, <1>10, <1>11, <1>12, <1>13, <1>14,
     <1>15, <1>16 DEF Work

LEMMA PromptKept ==
  ASSUME TypeInv, OneJob, Prompt, [Next]_vars
  PROVE  Prompt'
<1>1. ASSUME NEW w \in Executors, Start(w)
      PROVE  Prompt'
  <2>1. PICK m \in queue, n \in queue' :
           /\ queue = {m} /\ queue' = {n}
           /\ run[w] = Idle => m.state = "pending" /\ n = [m EXCEPT !.state = "active"]
           /\ \A v \in Executors \ {w} : run'[v] = run[v]
    BY <1>1, MessageStep
  <2>2. run[w] = Idle /\ m \in Messages
    BY <1>1 DEF Start, TypeInv, TypeOK, TasksTypeOK
  <2>3. m.state = "pending" /\ n.state = "active"
    BY <2>1, <2>2 DEF Messages
  <2>4. \A v \in Executors : run[v] # Idle => run[v].late
    BY <2>1, <2>3 DEF Prompt
  <2>5. \A v \in Executors \ {w} : run'[v] # Idle => run'[v].late
    BY <2>1, <2>4
  <2>6. QED
    BY <2>1, <2>3, <2>5 DEF Prompt
<1>2. ASSUME NEW w \in Executors, run[w] # Idle, Work(w) \/ Stops(w) \/ TimesOut(w)
      PROVE  Prompt'
  <2>1. PICK m \in queue : /\ queue = {m}
                           /\ \A v \in Executors \ {w} : run'[v] = run[v]
    BY <1>2, MessageStep
  <2>2. CASE queue' = queue /\ (run'[w] = Idle \/ run'[w].late = run[w].late)
    BY <1>2, <2>1, <2>2 DEF Prompt
  <2>3. CASE ~run[w].late /\ (run'[w] = Idle \/ run'[w].late)
    <3>1. \A v \in Executors \ {w} : run[v] # Idle => run[v].late
      BY <1>2, <2>3 DEF Prompt
    <3>2. \A v \in Executors : run'[v] # Idle => run'[v].late
      BY <2>1, <2>3, <3>1
    <3>3. QED
      BY <3>2 DEF Prompt
  <2>4. QED
    BY <1>2, <2>1, <2>2, <2>3, MessageChange
<1>3. ASSUME NEW q \in Requesters, Enqueue(q)
      PROVE  Prompt'
  <2>1. queue = {} /\ run' = run
    BY <1>3 DEF Enqueue, OneJob, Idle
  <2>2. \A w \in Executors : run[w] = Idle
    BY <2>1 DEF OneJob
  <2>3. QED
    BY <2>1, <2>2 DEF Prompt
<1>4. CASE UNCHANGED <<queue, run>>
  BY <1>4 DEF Prompt
<1>5. CASE ShutsDown
  BY <1>5, ShutDownStep DEF Prompt
<1>6. QED
  BY <1>1, <1>2, <1>3, <1>4, <1>5, IdleStarts
     DEF Next, Serve, vars, Ask, FindDest, CreateDest, Record, AskAborts, DeleteEmptyBucket

LEMMA SoloKept ==
  ASSUME TypeInv, OneJob, Solo, [Next]_vars
  PROVE  Solo'
<1>0. UNCHANGED faults
  BY DEF Next, Serve, vars, Ask, FindDest, CreateDest, Enqueue, Record, AskAborts,
         DeleteEmptyBucket, ShutsDown, Start, Work, Stops, TimesOut, FindSource,
         WorkerFindsDest, WorkerCreatesDest, ListFiles, RemoveFile, DeleteRow, ReadFile,
         WriteFile, InsertRow, Progress, Finish, Acknowledge
<1>1. ASSUME NEW w \in Executors, Start(w) \/ Work(w) \/ Stops(w) \/ TimesOut(w)
      PROVE  Solo'
  <2>1. PICK m \in queue, n \in queue' :
           /\ queue = {m} /\ queue' = {n}
           /\ run[w] = Idle => m.state = "pending" /\ n = [m EXCEPT !.state = "active"]
           /\ \A v \in Executors \ {w} : run'[v] = run[v]
    BY <1>1, MessageStep
  <2> SUFFICES ASSUME "timeout" \notin faults
               PROVE  /\ \A v, x \in Executors : run'[v] # Idle /\ run'[x] # Idle => v = x
                      /\ \A v \in Executors : run'[v] # Idle =>
                           ~run'[v].late /\ n.state # "pending"
    BY <1>0, <2>1 DEF Solo
  <2>2. ~TimesOut(w) /\ m \in Messages
    BY DEF TimesOut, TypeInv, TypeOK, TasksTypeOK
  <2>3. \A v \in Executors \ {w} : run[v] = Idle
    BY <1>1, <2>1, IdleStarts DEF Solo
  <2>4. run'[w] # Idle => ~run'[w].late /\ n.state # "pending"
    <3>1. CASE run[w] = Idle
      <4>1. Start(w)
        BY <1>1, <3>1, IdleStarts
      <4>2. n.state = "active"
        BY <2>1, <2>2, <3>1 DEF Messages
      <4>3. QED
        BY <1>1, <4>1, <4>2, GoesOn
    <3>2. CASE run[w] # Idle
      BY <1>1, <2>1, <2>2, <3>2, GoesOn DEF Solo
    <3>3. QED
      BY <3>1, <3>2
  <2>5. QED
    BY <2>1, <2>3, <2>4
<1>2. ASSUME NEW q \in Requesters, Enqueue(q)
      PROVE  Solo'
  <2>1. queue = {} /\ run' = run
    BY <1>2 DEF Enqueue, OneJob, Idle
  <2>2. \A w \in Executors : run[w] = Idle
    BY <2>1 DEF OneJob
  <2>3. QED
    BY <2>1, <2>2 DEF Solo
<1>3. CASE UNCHANGED <<queue, run>>
  BY <1>0, <1>3 DEF Solo
<1>4. CASE ShutsDown
  BY <1>4, ShutDownStep DEF Solo
<1>5. QED
  BY <1>1, <1>2, <1>3, <1>4
     DEF Next, Serve, vars, Ask, FindDest, CreateDest, Record, AskAborts, DeleteEmptyBucket

-----------------------------------------------------------------------------
(* Progress *)

\* What a row shows after the rounds that are done
Share(left, total) == (100 * (total - Cardinality(left))) \div total

\* The progress of a row is not ahead of the execution
Within(progress, r) ==
  /\ r.at \in {"source", "dest", "create", "list"} => progress = 0
  /\ r.at \in {"file", "write", "row", "progress"} =>
       progress = 0 \/ (r.total > 0 /\ progress <= Share(r.left, r.total))

\* Until the task is taken up again there is one execution, and the row shows
\* what it has reported
FirstAttempt ==
  \A m \in queue : Again(m) = 0 =>
    /\ \A v, w \in Executors : run[v] # Idle /\ run[w] # Idle => v = w
    /\ m.state = "pending" =>
         /\ \A w \in Executors : run[w] = Idle
         /\ \A t \in tasks : t.progress = 0 /\ t.status = "running"
    /\ \A w \in Executors, t \in tasks : run[w] # Idle =>
         /\ Within(t.progress, run[w])
         /\ t.status = "completed" => run[w].at = "ack"

\* An execution is in a round of the loop after the first
Rounds(r) ==
  /\ r # Idle /\ r.at \in {"file", "write", "row", "progress"}
  /\ Cardinality(r.left) < r.total

\* Then the row shows no more than the rounds that are done, whichever attempt it
\* is, if every UPDATE takes effect and nothing goes on after its timeout
Steady ==
  faults \cap {"silent", "timeout"} = {} =>
    \A w \in Executors, t \in tasks :
      Rounds(run[w]) => t.progress <= Share(run[w].left, run[w].total)

\* A round adds to the share
LEMMA ShareGrows ==
  ASSUME NEW r \in Runs, Staged(r), r.at = "progress"
  PROVE  /\ r.total \in Nat /\ r.total > 0
         /\ Share(r.left, r.total) <= Share(r.left \ {r.file}, r.total)
         /\ Share(r.left \ {r.file}, r.total) =
              (100 * (r.total - Cardinality(r.left) + 1)) \div r.total
         /\ Share(r.left \ {r.file}, r.total) \in Nat
         /\ Share(r.left, r.total) \in Nat
<1>1. /\ IsFiniteSet(r.left) /\ r.file \in r.left /\ Cardinality(r.left) \in Nat
      /\ r.total \in Nat /\ Cardinality(r.left) <= r.total
  BY FS_CardinalityType DEF Staged, Runs
<1>2. /\ Cardinality(r.left \ {r.file}) = Cardinality(r.left) - 1
      /\ Cardinality(r.left) # 0
  BY <1>1, FS_RemoveElement, FS_EmptySet
<1>3. ASSUME NEW left \in Nat, NEW total \in Nat, left <= total, left # 0
      PROVE  /\ total > 0
             /\ total - (left - 1) = total - left + 1
             /\ (100 * (total - left)) \div total <= (100 * (total - left + 1)) \div total
             /\ (100 * (total - left + 1)) \div total \in Nat
             /\ (100 * (total - left)) \div total \in Nat
  <2>1. /\ total > 0 /\ total - left \in Nat
        /\ total - (left - 1) = total - left + 1
    BY <1>3
  <2>2. ASSUME NEW a \in Nat, NEW b \in Nat, a <= b
        PROVE  a \div total <= b \div total /\ b \div total \in Nat
    BY <2>1, <2>2
  <2>3. QED
    BY <2>1, <2>2
<1>4. /\ r.total > 0
      /\ r.total - (Cardinality(r.left) - 1) = r.total - Cardinality(r.left) + 1
      /\ (100 * (r.total - Cardinality(r.left))) \div r.total
           <= (100 * (r.total - Cardinality(r.left) + 1)) \div r.total
      /\ (100 * (r.total - Cardinality(r.left) + 1)) \div r.total \in Nat
      /\ (100 * (r.total - Cardinality(r.left))) \div r.total \in Nat
  BY <1>1, <1>2, <1>3
<1>5. QED
  BY <1>1, <1>2, <1>4 DEF Share

\* The steps that do not report
LEMMA WithinKept ==
  ASSUME TypeInv, NEW w \in Executors, Work(w) \/ Stops(w) \/ TimesOut(w),
         ~Progress(w), ~Finish(w), run[w] # Idle, run'[w] # Idle, NEW progress,
         Within(progress, run[w])
  PROVE  /\ Within(progress, run'[w])
         /\ run'[w].at = "ack" <=> run[w].at = "ack"
<1>1. run \in [Executors -> Runs \cup {Idle}] /\ run[w] \in Runs
  BY DEF TypeInv, TypeOK, TasksTypeOK
<1>2. CASE FindSource(w)
  BY <1>1, <1>2 DEF FindSource, Fails, Runs, Within
<1>3. CASE WorkerFindsDest(w)
  BY <1>1, <1>3 DEF WorkerFindsDest, Runs, Within
<1>4. CASE WorkerCreatesDest(w)
  BY <1>1, <1>4 DEF WorkerCreatesDest, Fails, Runs, Within
<1>5. CASE ListFiles(w)
  <2>1. run[w].at = "list" /\ run'[w].at = "file"
    BY <1>1, <1>5 DEF ListFiles, Runs
  <2>2. QED
    BY <2>1 DEF Within
<1>6. CASE RemoveFile(w) \/ DeleteRow(w)
  <2>1. /\ run[w].at \in {"file", "row"} /\ run'[w].at \in {"row", "progress"}
        /\ run'[w].left = run[w].left /\ run'[w].total = run[w].total
    <3>1. CASE RemoveFile(w)
      <4>1. PICK f \in run[w].left : run' = [run EXCEPT ![w].file = f, ![w].at = "row"]
        BY <3>1 DEF RemoveFile
      <4>2. QED
        BY <1>1, <3>1, <4>1 DEF RemoveFile, Runs
    <3>2. CASE DeleteRow(w)
      BY <1>1, <3>2 DEF DeleteRow, Runs
    <3>3. QED
      BY <1>6, <3>1, <3>2
  <2>2. QED
    BY <2>1 DEF Within
<1>7. CASE ReadFile(w)
  BY <1>1, <1>7 DEF ReadFile, Fails, Runs, Within
<1>8. CASE WriteFile(w)
  BY <1>1, <1>8 DEF WriteFile, Runs, Within
<1>9. CASE InsertRow(w)
  BY <1>1, <1>9 DEF InsertRow, Fails, Runs, Within
<1>10. CASE Acknowledge(w) \/ Stops(w)
  BY <1>1, <1>10 DEF Acknowledge, Stops, Fails
<1>11. CASE TimesOut(w)
  BY <1>1, <1>11 DEF TimesOut, Runs, Within
<1>12. QED
  BY <1>2, <1>3, <1>4, <1>5, <1>6, <1>7, <1>8, <1>9, <1>10, <1>11 DEF Work

\* An execution's step keeps FirstAttempt
LEMMA RunKeepsFirstAttempt ==
  ASSUME TypeInv, OneJob, FirstAttempt, NEW w \in Executors,
         Start(w) \/ Work(w) \/ Stops(w) \/ TimesOut(w)
  PROVE  FirstAttempt'
<1>1. PICK m \in queue, n \in queue' :
         /\ queue = {m} /\ queue' = {n} /\ n.requeued = m.requeued
         /\ \/ n = m
            \/ n.tries > m.tries
            \/ n.tries = m.tries /\ n.state # "pending"
         /\ run[w] = Idle => m.state = "pending" /\ n = [m EXCEPT !.state = "active"]
         /\ \A v \in Executors \ {w} : run'[v] = run[v]
  BY MessageStep
<1>2. /\ m \in Messages /\ m.tries \in Nat /\ m.requeued \in Nat
      /\ n.tries >= m.tries
  <2>1. m \in Messages
    BY DEF TypeInv, TypeOK, TasksTypeOK
  <2>2. m.tries \in Nat /\ m.requeued \in Nat
    BY <2>1 DEF Messages
  <2>3. n.tries \in Nat
    BY RunStepType DEF TypeInv, TypeOK, TasksTypeOK, Messages
  <2>4. QED
    BY <1>1, <2>1, <2>2, <2>3
<1> SUFFICES ASSUME Again(n) = 0
             PROVE  /\ \A v, u \in Executors : run'[v] # Idle /\ run'[u] # Idle => v = u
                    /\ n.state # "pending"
                    /\ \A v \in Executors, t \in tasks' : run'[v] # Idle =>
                         /\ Within(t.progress, run'[v])
                         /\ t.status = "completed" => run'[v].at = "ack"
  BY <1>1 DEF FirstAttempt, Within, Share
<1>3. m.tries = 0 /\ n.tries = 0 /\ Again(m) = 0
  <2>1. n.tries \in Nat
    BY RunStepType DEF TypeInv, TypeOK, TasksTypeOK, Messages
  <2>2. QED
    BY <1>1, <1>2, <2>1 DEF Again
<1>4. \A v \in Executors \ {w} : run'[v] = Idle
  BY <1>1, <1>3, IdleStarts DEF FirstAttempt
<1>5. n.state # "pending"
  <2>1. CASE run[w] = Idle
    BY <1>1, <1>2, <2>1 DEF Messages
  <2>2. CASE run[w] # Idle
    BY <1>1, <1>3, <2>2 DEF FirstAttempt
  <2>3. QED
    BY <2>1, <2>2
<1>6. ASSUME run'[w] # Idle, NEW t \in tasks'
      PROVE  /\ Within(t.progress, run'[w])
             /\ t.status = "completed" => run'[w].at = "ack"
  <2>0. run \in [Executors -> Runs \cup {Idle}] /\ \A s \in tasks : s \in TaskRows
    BY DEF TypeInv, TypeOK, TasksTypeOK
  <2>1. PICK s \in tasks :
          \/ t = s
          \/ Progress(w) /\ t.progress = Percent(w) /\ t.status = s.status
          \/ Finish(w) /\ t.progress = 100 /\ t.status = "completed"
    BY RowStep
  <2>2. CASE Start(w)
    <3>1. m.state = "pending" /\ run'[w].at = "source"
      BY <1>1, <2>0, <2>2 DEF Start
    <3>2. s.progress = 0 /\ s.status = "running"
      BY <1>3, <3>1 DEF FirstAttempt
    <3>3. ~Progress(w) /\ ~Finish(w)
      BY <2>2 DEF Start, Progress, Finish, Idle
    <3>4. QED
      BY <2>1, <3>1, <3>2, <3>3 DEF Within
  <2>3. CASE run[w] # Idle /\ ~Progress(w) /\ ~Finish(w) /\ ~Start(w)
    <3>1. Within(s.progress, run[w]) /\ (s.status = "completed" => run[w].at = "ack")
      BY <1>3, <2>3 DEF FirstAttempt
    <3>2. Within(s.progress, run'[w]) /\ (run'[w].at = "ack" <=> run[w].at = "ack")
      BY <1>6, <2>3, <3>1, WithinKept
    <3>3. QED
      BY <2>1, <2>3, <3>1, <3>2
  <2>4. CASE Progress(w)
    <3>1. run[w] # Idle /\ run[w] \in Runs /\ Staged(run[w]) /\ run[w].at = "progress"
      BY <2>4, StagedRun DEF Progress
    <3>2. Within(s.progress, run[w]) /\ s.status # "completed" /\ s.progress \in Nat
      BY <1>3, <2>0, <3>1 DEF FirstAttempt, TaskRows
    <3>3. /\ run'[w].at = "file" /\ run'[w].left = run[w].left \ {run[w].file}
          /\ run'[w].total = run[w].total
      BY <2>0, <2>4, <3>1 DEF Progress, Runs
    <3>4. Percent(w) = Share(run'[w].left, run'[w].total)
      BY <3>1, <3>3, ShareGrows DEF Percent
    <3>5. s.progress = 0 \/ s.progress <= Share(run'[w].left, run'[w].total)
      <4>1. s.progress = 0 \/ s.progress <= Share(run[w].left, run[w].total)
        BY <3>1, <3>2 DEF Within
      <4>2. /\ Share(run[w].left, run[w].total) <= Share(run'[w].left, run'[w].total)
            /\ Share(run'[w].left, run'[w].total) \in Nat
        BY <3>1, <3>3, ShareGrows
      <4>3. Share(run[w].left, run[w].total) \in Nat
        BY <3>1, ShareGrows
      <4>4. QED
        BY ONLY <3>2, <4>1, <4>2, <4>3
    <3>6. run'[w].total > 0
      BY <3>1, <3>3, ShareGrows
    <3>7. ~Finish(w)
      BY <3>1 DEF Finish
    <3>8. t.progress = s.progress \/ t.progress = Percent(w)
      BY <2>1, <3>7
    <3>9. Percent(w) <= Share(run'[w].left, run'[w].total)
      <4>1. Share(run'[w].left, run'[w].total) \in Nat
        BY <3>1, <3>3, ShareGrows
      <4>2. QED
        BY ONLY <3>4, <4>1
    <3>10. t.status = s.status
      BY <2>1, <3>7
    <3>11. QED
      BY <3>2, <3>3, <3>5, <3>6, <3>8, <3>9, <3>10 DEF Within
  <2>5. CASE Finish(w)
    <3>1. run'[w].at = "ack"
      <4>1. run[w] \in Runs
        BY <2>5, StagedRun DEF Finish
      <4>2. QED
        BY <2>0, <2>5, <4>1 DEF Finish, Runs
    <3>2. QED
      BY <3>1 DEF Within
  <2>6. run[w] = Idle => Start(w)
    BY DEF Work, Stops, TimesOut, Idle, FindSource, WorkerFindsDest, WorkerCreatesDest,
           ListFiles, RemoveFile, DeleteRow, ReadFile, WriteFile, InsertRow, Progress,
           Finish, Acknowledge
  <2>7. QED
    BY <2>2, <2>3, <2>4, <2>5, <2>6
<1>7. QED
  BY <1>4, <1>5, <1>6

\* A step that does not end a round
LEMMA RoundKept ==
  ASSUME TypeInv, NEW w \in Executors, Work(w) \/ Stops(w) \/ TimesOut(w),
         ~Progress(w), run[w] # Idle, Rounds(run'[w])
  PROVE  /\ Rounds(run[w]) /\ ~Finish(w)
         /\ run'[w].left = run[w].left /\ run'[w].total = run[w].total
<1>1. run \in [Executors -> Runs \cup {Idle}] /\ run[w] \in Runs
  BY DEF TypeInv, TypeOK, TasksTypeOK
<1>2. CASE FindSource(w)
  <2>1. run'[w] = Idle \/ run'[w].at \in {"dest", "list"}
    BY <1>1, <1>2 DEF FindSource, Fails, Runs
  <2>2. QED
    BY <2>1 DEF Rounds
<1>3. CASE WorkerFindsDest(w)
  <2>1. run'[w].at \in {"create", "list"}
    BY <1>1, <1>3 DEF WorkerFindsDest, Runs
  <2>2. QED
    BY <2>1 DEF Rounds
<1>4. CASE WorkerCreatesDest(w)
  <2>1. run'[w] = Idle \/ run'[w].at = "list"
    BY <1>1, <1>4 DEF WorkerCreatesDest, Fails, Runs
  <2>2. QED
    BY <2>1 DEF Rounds
<1>5. CASE ListFiles(w)
  <2>1. Cardinality(FilesIn(run[w].bucket)) \in Nat
    BY FilesFinite
  <2>2. /\ run'[w].left = FilesIn(run[w].bucket)
        /\ run'[w].total = Cardinality(FilesIn(run[w].bucket))
    BY <1>1, <1>5 DEF ListFiles, Runs
  <2>3. QED
    BY <2>1, <2>2 DEF Rounds
<1>6. CASE RemoveFile(w)
  <2>1. PICK f \in run[w].left : run' = [run EXCEPT ![w].file = f, ![w].at = "row"]
    BY <1>6 DEF RemoveFile
  <2>2. QED
    BY <1>1, <1>6, <2>1 DEF RemoveFile, Finish, Runs, Rounds
<1>7. CASE DeleteRow(w)
  BY <1>1, <1>7 DEF DeleteRow, Finish, Runs, Rounds
<1>8. CASE ReadFile(w)
  BY <1>1, <1>8 DEF ReadFile, Fails, Finish, Runs, Rounds
<1>9. CASE WriteFile(w)
  BY <1>1, <1>9 DEF WriteFile, Finish, Runs, Rounds
<1>10. CASE InsertRow(w)
  BY <1>1, <1>10 DEF InsertRow, Fails, Finish, Runs, Rounds
<1>11. CASE Finish(w)
  BY <1>1, <1>11 DEF Finish, Runs, Rounds
<1>12. CASE Acknowledge(w) \/ Stops(w)
  BY <1>1, <1>12 DEF Acknowledge, Stops, Fails, Rounds
<1>13. CASE TimesOut(w)
  <2>1. run'[w] = [run[w] EXCEPT !.late = TRUE]
    BY <1>1, <1>13 DEF TimesOut
  <2>2. run'[w].at = run[w].at /\ run'[w].left = run[w].left /\ run'[w].total = run[w].total
    BY <1>1, <2>1 DEF Runs
  <2>3. run'[w].at # "ack"
    BY DEF Rounds
  <2>4. ~Finish(w)
    BY <1>1, <2>2, <2>3 DEF Finish, Runs
  <2>5. QED
    BY <2>2, <2>4 DEF Rounds
<1>14. QED
  BY <1>2, <1>3, <1>4, <1>5, <1>6, <1>7, <1>8, <1>9, <1>10, <1>11, <1>12, <1>13 DEF Work

\* A round that ends reports the share, if the UPDATE takes effect
LEMMA RoundReports ==
  ASSUME TypeInv, OneJob, NEW w \in Executors, Progress(w), ~Silent, NEW t \in tasks'
  PROVE  /\ t.progress = Share(run'[w].left, run'[w].total)
         /\ Share(run'[w].left, run'[w].total) \in Nat
<1>1. /\ run \in [Executors -> Runs \cup {Idle}]
      /\ run[w] \in Runs /\ Staged(run[w]) /\ run[w].at = "progress" /\ run[w] # Idle
  BY StagedRun DEF Progress, TypeInv, TypeOK, TasksTypeOK
<1>2. /\ run'[w].left = run[w].left \ {run[w].file} /\ run'[w].total = run[w].total
  BY <1>1 DEF Progress, Runs
<1>3. /\ Percent(w) = Share(run'[w].left, run'[w].total)
      /\ Share(run'[w].left, run'[w].total) \in Nat
  BY <1>1, <1>2, ShareGrows DEF Percent
<1>4. PICK s \in tasks : t = IF s \in Reported(run[w].job)
                             THEN [s EXCEPT !.progress = Percent(w), !.status = s.status]
                             ELSE s
  BY DEF Progress, Report
<1>5. s.job = run[w].job /\ s \in TaskRows
  BY <1>1 DEF OneJob, TypeInv, TypeOK, TasksTypeOK
<1>6. s \in Reported(run[w].job)
  BY <1>5 DEF Reported
<1>7. QED
  BY <1>3, <1>4, <1>5, <1>6 DEF TaskRows

LEMMA SteadyKept ==
  ASSUME TypeInv, OneJob, Solo, Steady, [Next]_vars
  PROVE  Steady'
<1>0. UNCHANGED faults /\ run \in [Executors -> Runs \cup {Idle}]
  BY DEF Next, Serve, vars, Ask, FindDest, CreateDest, Enqueue, Record, AskAborts,
         DeleteEmptyBucket, ShutsDown, Start, Work, Stops, TimesOut, FindSource,
         WorkerFindsDest, WorkerCreatesDest, ListFiles, RemoveFile, DeleteRow, ReadFile,
         WriteFile, InsertRow, Progress, Finish, Acknowledge, TypeInv, TypeOK, TasksTypeOK
<1> SUFFICES ASSUME faults \cap {"silent", "timeout"} = {},
                    NEW v \in Executors, NEW t \in tasks', Rounds(run'[v])
             PROVE  t.progress <= Share(run'[v].left, run'[v].total)
  BY <1>0 DEF Steady, Share, Rounds
<1>1. ASSUME NEW w \in Executors, Start(w) \/ Work(w) \/ Stops(w) \/ TimesOut(w)
      PROVE  t.progress <= Share(run'[v].left, run'[v].total)
  <2>1. PICK m \in queue :
           /\ queue = {m}
           /\ run[w] = Idle => m.state = "pending"
           /\ \A x \in Executors \ {w} : run'[x] = run[x]
    BY <1>1, MessageStep
  <2>2. v = w
    <3>1. SUFFICES ASSUME v # w PROVE FALSE
      OBVIOUS
    <3>2. run[v] # Idle
      BY <2>1, <3>1 DEF Rounds
    <3>3. QED
      BY <2>1, <3>1, <3>2 DEF Solo
  <2>3. run[w] # Idle
    <3>1. SUFFICES ASSUME Start(w) PROVE FALSE
      BY <1>1, IdleStarts
    <3>2. run'[w].at = "source"
      BY <1>0, <3>1 DEF Start
    <3>3. QED
      BY <2>2, <3>2 DEF Rounds
  <2>4. CASE Progress(w)
    <3>1. t.progress = Share(run'[w].left, run'[w].total)
          /\ Share(run'[w].left, run'[w].total) \in Nat
      BY <2>4, RoundReports DEF Silent
    <3>2. QED
      BY <2>2, <3>1
  <2>5. CASE ~Progress(w)
    <3>1. /\ Rounds(run[w]) /\ ~Finish(w)
          /\ run'[w].left = run[w].left /\ run'[w].total = run[w].total
      BY <1>1, <2>2, <2>3, <2>5, RoundKept DEF Start
    <3>2. t \in tasks
      BY <1>1, <2>5, <3>1, RowStep
    <3>3. QED
      BY <2>2, <3>1, <3>2 DEF Steady
  <2>6. QED
    BY <2>4, <2>5
<1>2. ASSUME NEW q \in Requesters, Record(q)
      PROVE  t.progress <= Share(run'[v].left, run'[v].total)
  <2>1. tasks = {} /\ UNCHANGED run
    BY <1>2 DEF OneJob, Record, Idle
  <2>2. t.progress = 0
    BY <1>2, <2>1 DEF Record
  <2>3. PICK r : r = run[v]
    OBVIOUS
  <2>4. r \in Runs /\ Staged(r) /\ r.total \in Nat /\ Cardinality(r.left) \in Nat
        /\ Cardinality(r.left) < r.total
    BY <2>1, <2>3, FS_CardinalityType DEF TypeInv, StagedRuns, Rounds, Staged, Runs
  <2>5. Share(r.left, r.total) \in Nat
    <3>1. ASSUME NEW left \in Nat, NEW total \in Nat, left < total
          PROVE  (100 * (total - left)) \div total \in Nat
      <4>1. total > 0 /\ 100 * (total - left) \in Nat
        BY <3>1
      <4>2. ASSUME NEW a \in Nat PROVE a \div total \in Nat
        BY <4>1
      <4>3. QED
        BY <4>1, <4>2
    <3>2. QED
      BY <2>4, <3>1 DEF Share
  <2>6. QED
    BY <2>1, <2>2, <2>3, <2>5
<1>3. ASSUME NEW q \in Requesters, Enqueue(q)
      PROVE  FALSE
  <2>1. queue = {} /\ run' = run
    BY <1>3 DEF Enqueue, OneJob, Idle
  <2>2. QED
    BY <2>1 DEF OneJob, Rounds
<1>4. CASE UNCHANGED <<run, tasks>>
  BY <1>4 DEF Steady
<1>5. CASE ShutsDown
  BY <1>5, ShutDownStep DEF Rounds
<1>6. QED
  BY <1>1, <1>2, <1>3, <1>4, <1>5
     DEF Next, Serve, vars, Ask, FindDest, CreateDest, AskAborts, DeleteEmptyBucket

\* What holds of one task, whatever fails
TaskInv == TypeInv /\ OneJob /\ Solo /\ Prompt /\ FirstAttempt /\ Steady

LEMMA TaskInvariant ==
  ASSUME OneTask
  PROVE  Spec => []TaskInv
<1>1. Init => OneJob /\ Solo /\ Prompt /\ FirstAttempt /\ Steady
  BY DEF Init, TasksInit, OneJob, Solo, Prompt, FirstAttempt, Steady, Rounds
<1>2. TypeInv /\ OneJob /\ FirstAttempt /\ [Next]_vars => FirstAttempt'
  <2> SUFFICES ASSUME TypeInv, OneJob, FirstAttempt, [Next]_vars PROVE FirstAttempt'
    OBVIOUS
  <2>1. CASE \E w \in Executors : Start(w) \/ Work(w) \/ Stops(w) \/ TimesOut(w)
    BY <2>1, RunKeepsFirstAttempt
  <2>2. CASE \E q \in Requesters : Enqueue(q)
    <3>1. PICK q \in Requesters : Enqueue(q)
      BY <2>2
    <3>2. /\ queue = {} /\ tasks = {} /\ \A w \in Executors : run[w] = Idle
          /\ UNCHANGED <<run, tasks>>
      BY <3>1 DEF OneJob, Enqueue, Idle
    <3>3. QED
      BY <3>2 DEF FirstAttempt
  <2>3. CASE \E q \in Requesters : Record(q)
    <3>1. PICK q \in Requesters : Record(q)
      BY <2>3
    <3>2. tasks = {} /\ UNCHANGED <<run, queue>>
      BY <3>1 DEF OneJob, Record, Idle
    <3>3. \A t \in tasks' : t.progress = 0 /\ t.status = "running"
      BY <3>1, <3>2 DEF Record
    <3>4. QED
      BY <3>2, <3>3 DEF FirstAttempt, Within, Again
  <2>4. CASE UNCHANGED <<queue, run, tasks>>
    BY <2>4 DEF FirstAttempt, Within, Share, Again
  <2>5. CASE ShutsDown
    <3>1. /\ UNCHANGED tasks /\ \A w \in Executors : run'[w] = Idle
          /\ queue = {} => queue' = {}
      BY <2>5, ShutDownStep
    <3>2. ASSUME NEW n \in queue', Again(n) = 0, n.state = "pending", NEW t \in tasks
          PROVE  t.progress = 0 /\ t.status = "running"
      <4>1. PICK m \in queue : /\ queue' = {n}
                               /\ m.tries \in Nat /\ m.requeued \in Nat /\ n.tries = m.tries
                               /\ n = m \/ n.requeued = m.requeued + 1
        BY <2>5, <3>1, ShutDownStep
      <4>2. n = m
        BY <3>2, <4>1 DEF Again
      <4>3. QED
        BY <3>2, <4>2 DEF FirstAttempt
    <3>3. QED
      BY <3>1, <3>2 DEF FirstAttempt, Again
  <2>6. QED
    BY <2>1, <2>2, <2>3, <2>4, <2>5
       DEF Next, Serve, vars, Ask, AskAborts, FindDest, CreateDest, DeleteEmptyBucket
<1>3. TypeInv /\ OneJob /\ [Next]_vars => OneJob'
  BY OneJobKept
<1>4. TypeInv /\ OneJob /\ Solo /\ [Next]_vars => Solo'
  BY SoloKept
<1>5. TypeInv /\ OneJob /\ Prompt /\ [Next]_vars => Prompt'
  BY PromptKept
<1>6. TypeInv /\ OneJob /\ Solo /\ Steady /\ [Next]_vars => Steady'
  BY SteadyKept
<1>7. Spec => []OneJob
  BY <1>1, <1>3, TypeInvariant, PTL DEF Spec
<1>8. Spec => [](Solo /\ Prompt)
  BY <1>1, <1>4, <1>5, <1>7, TypeInvariant, PTL DEF Spec
<1>9. Spec => [](FirstAttempt /\ Steady)
  BY <1>1, <1>2, <1>6, <1>7, <1>8, TypeInvariant, PTL DEF Spec
<1>10. QED
  BY <1>7, <1>8, <1>9, TypeInvariant, PTL DEF TaskInv

\* With one task in the queue the progress of its row goes back only when the task
\* has been taken up again, after a failure or a shutdown; and then, if no UPDATE
\* is lost and nothing outlives its timeout, only at the end of a first round
THEOREM NeverBack ==
  ASSUME OneTask
  PROVE  Spec => ProgressForward
<1>1. TaskInv /\ [Next]_vars =>
        [\A t \in tasks, new \in tasks' :
           new.job.id = t.job.id /\ new.progress < t.progress =>
             \E m \in queue :
               /\ m.job = t.job /\ Again(m) > 0
               /\ faults \cap {"silent", "timeout"} = {} => FirstRound(m.job)]_vars
  <2> SUFFICES ASSUME TaskInv, [Next]_vars, NEW t \in tasks, NEW new \in tasks',
                      new.progress < t.progress
               PROVE  \E m \in queue :
                        /\ m.job = t.job /\ Again(m) > 0
                        /\ faults \cap {"silent", "timeout"} = {} => FirstRound(m.job)
    OBVIOUS
  <2> USE DEF TaskInv
  <2>0. /\ new.progress < t.progress
        /\ \A s \in tasks : s \in TaskRows /\ s = t
        /\ t.progress \in 0..100
        /\ \A q \in Requesters : ask[q] = Idle
    BY DEF TypeInv, TypeOK, TasksTypeOK, OneJob, TaskRows
  <2>1. UNCHANGED tasks => FALSE
    <3>1. UNCHANGED tasks => new = t
      BY <2>0
    <3>2. QED
      BY <2>0, <3>1
  <2>2. PICK m \in queue : m.job = t.job /\ m.tries \in Nat /\ m.requeued \in Nat
    BY DEF OneJob, TypeInv, TypeOK, TasksTypeOK, Messages
  <2>3. ASSUME NEW w \in Executors, Start(w) \/ Work(w) \/ Stops(w) \/ TimesOut(w)
        PROVE  /\ Again(m) > 0
               /\ faults \cap {"silent", "timeout"} = {} => FirstRound(m.job)
    <3>1. PICK s \in tasks :
            \/ new = s
            \/ Progress(w) /\ new.progress = Percent(w) /\ new.status = s.status
            \/ Finish(w) /\ new.progress = 100 /\ new.status = "completed"
      BY <2>3, RowStep
    <3>2. Progress(w) /\ new.progress = Percent(w)
      BY <2>0, <3>1
    <3>3. /\ run[w] \in Runs /\ Staged(run[w]) /\ run[w].at = "progress" /\ run[w] # Idle
          /\ run[w].job = m.job
      BY <3>2, StagedRun DEF Progress, OneJob
    <3>4. /\ Share(run[w].left, run[w].total) <= Percent(w)
          /\ Percent(w) \in Nat /\ Share(run[w].left, run[w].total) \in Nat
      BY <3>3, ShareGrows DEF Percent
    <3>5. ~(t.progress = 0) /\ ~(t.progress <= Share(run[w].left, run[w].total))
      BY ONLY <2>0, <3>2, <3>4
    <3>6. Again(m) # 0
      BY <3>3, <3>5 DEF FirstAttempt, Within
    <3>7. Again(m) > 0
      BY <2>2, <3>6 DEF Again
    <3>8. ASSUME faults \cap {"silent", "timeout"} = {}
          PROVE  FirstRound(m.job)
      <4>1. ~(Cardinality(run[w].left) < run[w].total)
        BY <3>3, <3>5, <3>8 DEF Steady, Rounds
      <4>2. /\ Cardinality(run[w].left) \in Nat /\ run[w].total \in Nat
            /\ Cardinality(run[w].left) <= run[w].total
        BY <3>3, FS_CardinalityType DEF Staged, Runs
      <4>3. Cardinality(run[w].left) = run[w].total
        BY ONLY <4>1, <4>2
      <4>4. QED
        BY <3>3, <4>3 DEF FirstRound
    <3>9. QED
      BY <3>7, <3>8
  <2>4. ASSUME NEW q \in Requesters, Ask(q) \/ Serve(q) \/ AskAborts(q)
        PROVE  tasks' = tasks
    BY <2>0, <2>4 DEF Serve, Ask, AskAborts, FindDest, CreateDest, Enqueue, Record, Idle
  <2>5. DeleteEmptyBucket \/ ShutsDown \/ UNCHANGED vars => tasks' = tasks
    BY DEF DeleteEmptyBucket, ShutsDown, vars
  <2>6. QED
    BY <2>1, <2>2, <2>3, <2>4, <2>5 DEF Next
<1>2. QED
  BY <1>1, TaskInvariant, PTL DEF Spec, ProgressForward

-----------------------------------------------------------------------------
(* Completed is done *)

\* No error passes for a warning, and a file is not cut short under a second
\* execution
Loud ==
  \A mode \in FaultModes :
    "silent" \notin mode /\ ~ {"torn", "timeout"} \subseteq mode

\* A store that the handlers left with no request failing: a file without a version
\* is what some row says, one of a version is under the name of a bucket with
\* versioning (or was: DeleteBucket leaves the files of versions that were
\* deleted; here the name has not been given up); and a bucket that is asked for
\* as a destination is empty
Settled(s) ==
  /\ \A b \in s.buckets, f \in s.files : f.bucket = b.id =>
       /\ b.name \notin Targets
       /\ PlainPath(b, f.name) \in DOMAIN s.disk => s.disk[PlainPath(b, f.name)] = f.size
  /\ \A path \in DOMAIN s.disk : path[3] = NoVersion =>
       \E b \in s.buckets, f \in s.files :
         b.name = path[1] /\ f.bucket = b.id /\ f.name = path[2]
  /\ \A path \in DOMAIN s.disk : path[3] # NoVersion =>
       \E b \in s.buckets : b.name = path[1] /\ b.versioning

\* The tables stay as StoreOK has them
TablesOK ==
  /\ \A b, c \in buckets : b.id = c.id \/ b.name = c.name => b = c
  /\ \A f, g \in files : f.id = g.id => f = g
  /\ \A b \in buckets : b.id < uuid
  /\ \A f \in files : f.id < uuid /\ \E b \in buckets : f.bucket = b.id

Wanted ==
  /\ \A q \in Requesters : ask[q] # Idle => ask[q].dest \in Targets
  /\ \A m \in queue : m.job.dest \in Targets

\* A destination has no rows but copies
DestFilled ==
  \A b \in buckets, f \in files : f.bucket = b.id /\ b.name \in Targets =>
    \E m \in queue : m.job.dest = b.name /\ m.job.src # m.job.dest

\* Contents are right but for those of copies
SourceContent ==
  \A b \in buckets, f \in files :
    /\ f.bucket = b.id /\ PlainPath(b, f.name) \in DOMAIN disk
    /\ \A m \in queue : m.job.dest # b.name
    => disk[PlainPath(b, f.name)] = f.size

\* When nothing is copied a file without a version has its row, and one of a
\* version is not in a bucket without versioning ...
FilesBacked ==
  (\A m \in queue : ~IsCopy(m.job)) =>
    \A path \in DOMAIN disk :
      /\ path[3] = NoVersion =>
           \E b \in buckets, f \in files :
             b.name = path[1] /\ f.bucket = b.id /\ f.name = path[2]
      /\ path[3] # NoVersion =>
           \A b \in buckets : b.name = path[1] => b.versioning

\* ... nor can it get there with a new bucket, before there is a task
Housed == queue = {} => \A path \in DOMAIN disk : \E b \in buckets : b.name = path[1]

StoreSound ==
  TablesOK /\ Wanted /\ DestFilled /\ SourceContent /\ FilesBacked /\ Housed

\* The file of a name has been copied ...
Twin(job, key) ==
  /\ <<job.src, key, NoVersion>> \in DOMAIN disk
  /\ <<job.dest, key, NoVersion>> \in DOMAIN disk
  /\ disk[<<job.dest, key, NoVersion>>] = disk[<<job.src, key, NoVersion>>]

\* ... and the row
Copied(job, f) ==
  /\ Twin(job, f.name)
  /\ \E d \in Owned(job.user, job.dest) : CopiesOf(f, d) # {}

\* The buckets an execution has read are still as it read them, or gone; and if
\* the source's name is someone's, it is the source's
Known(r) ==
  /\ r.at \in {"source", "dest", "create", "list"} => r.left = {}
  /\ r.at # "source" =>
       /\ r.bucket.id < uuid /\ r.bucket.name = r.job.src
       /\ \A b \in buckets : b.id = r.bucket.id => b = r.bucket
       /\ r.job.src # r.job.dest => \A b \in buckets : b.name = r.job.src => b = r.bucket
  /\ IsCopy(r.job) /\ r.at \notin {"source", "dest", "create"} =>
       /\ r.dest.id < uuid /\ r.dest.name = r.job.dest /\ r.dest.owner = r.job.user
       /\ \A b \in buckets : b.id = r.dest.id => b = r.dest

\* How far an emptying has got, whatever others have done
EmptyingSound(r) ==
  /\ \A f \in r.left : f.bucket = r.bucket.id /\ \A g \in files : g.id = f.id => g = f
  /\ r.at \in {"file", "row", "progress"} => FilesIn(r.bucket) \subseteq r.left
  /\ r.at = "row" => PlainPath(r.bucket, r.file.name) \notin DOMAIN disk
  /\ r.at = "progress" => r.file \notin files
  /\ r.at = "ack" => FilesIn(r.bucket) = {}

\* ... and a copy
CopyingSound(r) ==
  /\ r.left \subseteq FilesIn(r.bucket)
  /\ r.job.src = r.job.dest => r.left = {}
  /\ r.job.src # r.job.dest =>
       /\ r.at \in {"file", "write", "row", "progress"} =>
            \A f \in FilesIn(r.bucket) \ r.left : Copied(r.job, f)
       /\ r.at = "write" =>
            /\ <<r.job.src, r.file.name, NoVersion>> \in DOMAIN disk
            /\ disk[<<r.job.src, r.file.name, NoVersion>>] = r.content
       /\ r.at = "row" => Twin(r.job, r.file.name)
       /\ r.at = "progress" => Copied(r.job, r.file)
       /\ r.at = "ack" => \A f \in FilesIn(r.bucket) : Copied(r.job, f)

Sound(r) ==
  r # Idle =>
    /\ Known(r)
    /\ IsCopy(r.job) => CopyingSound(r)
    /\ ~IsCopy(r.job) => EmptyingSound(r)

\* What a task has done when its row says so
Through(job) ==
  \A b \in Owned(job.user, job.src), f \in files :
    f.bucket = b.id => IsCopy(job) /\ job.src # job.dest /\ Copied(job, f)

Reports ==
  \A t \in tasks : t.status = "completed" => Through(t.job) \/ Repeated(t.job)

DoneInv ==
  StoreSound /\ (\A w \in Executors : Sound(run[w])) /\ Reports

-----------------------------------------------------------------------------
(* The steps of a task on the store *)

\* An emptying only takes away ...
TakesAway ==
  /\ buckets' \subseteq buckets /\ files' \subseteq files /\ uuid' = uuid
  /\ \A b \in buckets \ buckets', f \in files' : f.bucket # b.id
  /\ \A path \in DOMAIN disk' : path \in DOMAIN disk /\ disk'[path] = disk[path]

\* ... and a copy only adds rows, but for an empty bucket, and files
AddsRows(job) ==
  /\ uuid' \in Nat /\ uuid <= uuid'
  /\ \A b \in buckets \ buckets', f \in files : f.bucket # b.id
  /\ \A b \in buckets' \ buckets :
       /\ b.id = uuid /\ b.id < uuid' /\ b.name = job.dest
       /\ \A c \in buckets' : c.name = b.name \/ c.id = b.id => c = b
  /\ files \subseteq files'
  /\ \A f \in files' \ files :
       /\ f.id = uuid /\ f.id < uuid' /\ job.src # job.dest
       /\ \A g \in files' : g.id = f.id => g = f
       /\ \E b \in buckets : b \in buckets' /\ b.id = f.bucket /\ b.name = job.dest

Adds(job) ==
  /\ AddsRows(job)
  /\ \A path \in DOMAIN disk \cup DOMAIN disk' : path[1] # job.dest =>
       /\ path \in DOMAIN disk /\ path \in DOMAIN disk'
       /\ disk'[path] = disk[path]

TwinsKept(job) ==
  \A key \in Keys : job.src # job.dest /\ Twin(job, key) => Twin(job, key)'

\* What an emptying has done stays done
LEMMA EmptyingStays ==
  ASSUME TakesAway, NEW r \in Runs, ~IsCopy(r.job), Sound(r)
  PROVE  Sound(r)'
<1>1. Known(r) /\ EmptyingSound(r)
  BY DEF Sound, Runs, Idle
<1>2. Known(r)'
  BY <1>1 DEF TakesAway, Known
<1>3. FilesIn(r.bucket)' \subseteq FilesIn(r.bucket)
  BY DEF TakesAway, FilesIn
<1>4. EmptyingSound(r)'
  BY <1>1, <1>3 DEF TakesAway, EmptyingSound
<1>5. QED
  BY <1>2, <1>4 DEF Sound

\* A row that has been copied stays copied
LEMMA CopiedStays ==
  ASSUME TablesOK, NEW job \in Jobs, IsCopy(job), job.src # job.dest, Adds(job),
         NEW f \in FileRows, Copied(job, f), Twin(job, f.name)'
  PROVE  Copied(job, f)'
<1>1. PICK d \in Owned(job.user, job.dest) : CopiesOf(f, d) # {}
  BY DEF Copied
<1>2. PICK g \in files :
         g.bucket = d.id /\ g.name = f.name /\ g.version = f.version /\ g.size = f.size
  BY <1>1 DEF CopiesOf, FilesIn
<1>3. d \in buckets'
  BY <1>2 DEF Adds, AddsRows, Owned
<1>4. g \in files'
  BY DEF Adds, AddsRows
<1>5. d \in Owned(job.user, job.dest)' /\ g \in CopiesOf(f, d)'
  BY <1>2, <1>3, <1>4 DEF Owned, CopiesOf, FilesIn
<1>6. QED
  BY <1>5 DEF Copied

\* The rows of the source stay as they are
LEMMA SourceStays ==
  ASSUME TablesOK, NEW job \in Jobs, Adds(job), job.src # job.dest,
         NEW bucket \in BucketRows, bucket.name = job.src,
         \A b \in buckets : b.id = bucket.id => b = bucket
  PROVE  FilesIn(bucket)' = FilesIn(bucket)
  BY DEF TablesOK, Adds, AddsRows, FilesIn

\* What an execution of a copy has read it still knows
LEMMA KnownStays ==
  ASSUME StoreTypeOK, NEW r \in Runs, Staged(r), IsCopy(r.job), AddsRows(r.job), Known(r)
  PROVE  Known(r)'
<1>1. uuid \in Nat /\ uuid' \in Nat /\ uuid' >= uuid
  BY DEF StoreTypeOK, AddsRows
<1>2. ASSUME NEW c \in BucketRows, c.id < uuid, \A b \in buckets : b.id = c.id => b = c
      PROVE  c.id < uuid' /\ \A b \in buckets' : b.id = c.id => b = c
  <2>1. c.id \in Nat
    BY DEF BucketRows
  <2>2. c.id < uuid'
    BY <1>1, <1>2, <2>1
  <2>3. QED
    BY <1>1, <1>2, <2>1, <2>2 DEF AddsRows
<1>3. r.at # "source" => r.bucket \in BucketRows
  BY DEF Staged
<1>4. r.at \notin {"source", "dest", "create"} => r.dest \in BucketRows
  BY DEF Staged
<1>5. r.job.src # r.job.dest /\ r.at # "source" =>
        \A b \in buckets' : b.name = r.job.src => b = r.bucket
  BY DEF AddsRows, Known
<1>6. QED
  BY <1>2, <1>3, <1>4, <1>5 DEF Known

\* What a copy has done stays done
LEMMA CopyingStays ==
  ASSUME StoreTypeOK, TablesOK, NEW r \in Runs, Staged(r), IsCopy(r.job), Adds(r.job),
         TwinsKept(r.job), Sound(r)
  PROVE  Sound(r)'
<1>1. Known(r) /\ CopyingSound(r)
  BY DEF Sound, Runs, Idle
<1>3. Known(r)'
  BY <1>1, KnownStays DEF Adds
<1>4. r.left \subseteq FilesIn(r.bucket)'
  BY <1>1 DEF CopyingSound, FilesIn, Adds, AddsRows
<1>5. ASSUME r.job.src # r.job.dest
      PROVE  /\ r.at \in {"file", "write", "row", "progress"} =>
                  \A f \in FilesIn(r.bucket)' \ r.left : Copied(r.job, f)'
             /\ r.at = "write" =>
                  /\ <<r.job.src, r.file.name, NoVersion>> \in DOMAIN disk'
                  /\ disk'[<<r.job.src, r.file.name, NoVersion>>] = r.content
             /\ r.at = "row" => Twin(r.job, r.file.name)'
             /\ r.at = "progress" => Copied(r.job, r.file)'
             /\ r.at = "ack" => \A f \in FilesIn(r.bucket)' : Copied(r.job, f)'
  <2>1. r.at # "source" => r.bucket \in BucketRows /\ FilesIn(r.bucket)' = FilesIn(r.bucket)
    BY <1>1, <1>5, SourceStays DEF Known, Staged, Runs
  <2>2. ASSUME NEW f \in FileRows, Copied(r.job, f)
        PROVE  Copied(r.job, f)'
    <3>1. r.job \in Jobs /\ f.name \in Keys
      BY DEF Runs, FileRows
    <3>2. Twin(r.job, f.name)'
      BY <1>5, <2>2, <3>1 DEF Copied, TwinsKept
    <3>3. QED
      BY <1>5, <2>2, <3>1, <3>2, CopiedStays
  <2>3. FilesIn(r.bucket) \subseteq FileRows /\ r.left \subseteq FileRows
    BY DEF FilesIn, StoreTypeOK, Runs
  <2>4. r.at \in {"write", "row", "progress"} => r.file \in FileRows /\ r.file.name \in Keys
    BY <2>3 DEF Staged, FileRows
  <2>5. r.at = "write" =>
          /\ <<r.job.src, r.file.name, NoVersion>> \in DOMAIN disk'
          /\ disk'[<<r.job.src, r.file.name, NoVersion>>] = r.content
    BY <1>1, <1>5 DEF CopyingSound, Adds, AddsRows
  <2>6. r.at = "row" => Twin(r.job, r.file.name)'
    BY <1>1, <1>5, <2>4 DEF CopyingSound, TwinsKept
  <2>7. QED
    BY <1>1, <1>5, <2>1, <2>2, <2>3, <2>4, <2>5, <2>6 DEF CopyingSound
<1>6. CopyingSound(r)'
  BY <1>1, <1>4, <1>5 DEF CopyingSound
<1>7. QED
  BY <1>3, <1>6 DEF Sound

\* Only a destination gets two rows of one name and version
Distinct ==
  \A f, g \in files :
    f.bucket = g.bucket /\ f.name = g.name /\ f.version = g.version /\ f # g =>
      \E b \in buckets, m \in queue :
        b.id = f.bucket /\ b.name = m.job.dest /\ m.job.src # m.job.dest

\* What a copy adds to the tables keeps them as they should be
LEMMA AddsKeepsTables ==
  ASSUME StoreTypeOK, TablesOK, DestFilled,
         NEW m \in queue, NEW n, queue = {m}, queue' = {n}, n.job = m.job,
         AddsRows(m.job)
  PROVE  /\ TablesOK' /\ DestFilled'
         /\ Distinct => Distinct'
         /\ \A b \in buckets', f \in files' : f.bucket = b.id /\ b.name # m.job.dest =>
              b \in buckets /\ f \in files
<1>0. /\ \A b \in buckets : b.id \in Nat
      /\ \A f \in files : f.id \in Nat
      /\ uuid \in Nat /\ uuid' \in Nat /\ uuid <= uuid'
  BY DEF StoreTypeOK, BucketRows, FileRows, AddsRows
<1>1. TablesOK'
  <2>1. \A b \in buckets' : b.id < uuid'
    BY <1>0 DEF AddsRows, TablesOK
  <2>2. \A f \in files' : f.id < uuid'
    BY <1>0 DEF AddsRows, TablesOK
  <2>3. \A f \in files' : \E b \in buckets' : f.bucket = b.id
    BY DEF AddsRows, TablesOK
  <2>4. \A b, c \in buckets' : b.id = c.id \/ b.name = c.name => b = c
    BY DEF AddsRows, TablesOK
  <2>5. \A f, g \in files' : f.id = g.id => f = g
    BY DEF AddsRows, TablesOK
  <2>6. QED
    BY <2>1, <2>2, <2>3, <2>4, <2>5 DEF TablesOK
<1>2. ASSUME NEW b \in buckets', NEW f \in files', f.bucket = b.id, b.name # m.job.dest
      PROVE  b \in buckets /\ f \in files
  BY <1>1, <1>2 DEF AddsRows, TablesOK
<1>3. DestFilled'
  <2> SUFFICES ASSUME NEW b \in buckets', NEW f \in files', f.bucket = b.id,
                      b.name \in Targets
               PROVE  m.job.dest = b.name /\ m.job.src # m.job.dest
    BY DEF DestFilled
  <2>1. CASE b \in buckets /\ f \in files
    BY <2>1 DEF DestFilled
  <2>2. CASE f \notin files
    BY <1>2, <2>2 DEF AddsRows
  <2>3. CASE b \notin buckets /\ f \in files
    BY <1>0, <2>3 DEF AddsRows, TablesOK
  <2>4. QED
    BY <2>1, <2>2, <2>3
<1>4. ASSUME Distinct
      PROVE  Distinct'
  <2> SUFFICES ASSUME NEW f \in files', NEW g \in files', f # g,
                      f.bucket = g.bucket, f.name = g.name, f.version = g.version
               PROVE  \E b \in buckets' :
                        b.id = f.bucket /\ b.name = m.job.dest /\ m.job.src # m.job.dest
    BY DEF Distinct
  <2>1. CASE f \in files /\ g \in files
    <3>1. PICK b \in buckets :
            b.id = f.bucket /\ b.name = m.job.dest /\ m.job.src # m.job.dest
      BY <1>4, <2>1 DEF Distinct
    <3>2. QED
      BY <2>1, <3>1 DEF AddsRows
  <2>2. CASE f \notin files \/ g \notin files
    BY <2>2 DEF AddsRows
  <2>3. QED
    BY <2>1, <2>2
<1>5. QED
  BY <1>1, <1>2, <1>3, <1>4

\* Both keep the store sound: an emptying when it takes no row from a file that
\* it leaves ...
LEMMA TakesAwayKeepsStore ==
  ASSUME StoreTypeOK, StoreSound, TakesAway, UNCHANGED ask,
         NEW m \in queue, NEW n, queue = {m}, queue' = {n}, n.job = m.job,
         \A path \in DOMAIN disk', b \in buckets, f \in files :
           path[3] = NoVersion /\ b.name = path[1] /\ f.bucket = b.id /\ f.name = path[2]
             => f \in files'
  PROVE  StoreSound'
<1>1. TablesOK'
  BY DEF StoreSound, TablesOK, TakesAway
<1>2. Wanted' /\ DestFilled'
  BY DEF StoreSound, Wanted, DestFilled, TakesAway
<1>3. SourceContent'
  BY DEF StoreSound, SourceContent, TakesAway, PlainPath
<1>4. FilesBacked' /\ Housed'
  BY DEF StoreSound, FilesBacked, Housed, TakesAway
<1>5. QED
  BY <1>1, <1>2, <1>3, <1>4 DEF StoreSound

\* ... a copy always
LEMMA AddsKeepsStore ==
  ASSUME StoreTypeOK, StoreSound, UNCHANGED ask,
         NEW m \in queue, NEW n, queue = {m}, queue' = {n}, n.job = m.job,
         IsCopy(m.job), Adds(m.job)
  PROVE  StoreSound'
<1>1. /\ TablesOK' /\ DestFilled'
      /\ \A b \in buckets', f \in files' : f.bucket = b.id /\ b.name # m.job.dest =>
           b \in buckets /\ f \in files
  BY AddsKeepsTables DEF Adds, StoreSound
<1>2. Wanted'
  BY DEF StoreSound, Wanted
<1>3. SourceContent'
  BY <1>1 DEF StoreSound, SourceContent, Adds, PlainPath
<1>4. FilesBacked' /\ Housed'
  BY DEF FilesBacked, Housed
<1>5. QED
  BY <1>1, <1>2, <1>3, <1>4 DEF StoreSound

\* What a finished task has done stays done
LEMMA ThroughStays ==
  ASSUME StoreTypeOK, TablesOK, NEW job \in Jobs, Through(job),
         \/ ~IsCopy(job) /\ TakesAway
         \/ IsCopy(job) /\ Adds(job) /\ TwinsKept(job)
  PROVE  Through(job)'
<1>1. CASE ~IsCopy(job) /\ TakesAway
  BY <1>1 DEF Through, TakesAway, Owned
<1>2. CASE IsCopy(job) /\ Adds(job) /\ TwinsKept(job)
  <2> SUFFICES ASSUME NEW b \in buckets', NEW f \in files', b \in Owned(job.user, job.src)',
                      f.bucket = b.id
               PROVE  job.src # job.dest /\ Copied(job, f)'
    BY <1>2 DEF Through, Owned
  <2>0. b.name = job.src /\ b.owner = job.user
    BY DEF Owned
  <2>1. CASE b \in buckets /\ f \in files
    <3>1. job.src # job.dest /\ Copied(job, f)
      BY <2>0, <2>1 DEF Through, Owned
    <3>2. f \in FileRows /\ f.name \in Keys
      BY <2>1 DEF StoreTypeOK, FileRows
    <3>3. Twin(job, f.name)'
      BY <1>2, <3>1, <3>2 DEF Copied, TwinsKept
    <3>4. QED
      BY <1>2, <3>1, <3>2, <3>3, CopiedStays
  <2>2. CASE f \notin files
    <3>1. PICK c \in buckets : c \in buckets' /\ c.id = f.bucket /\ c.name = job.dest
      BY <1>2, <2>2 DEF Adds, AddsRows
    <3>2. job.src # job.dest
      BY <1>2, <2>2 DEF Adds, AddsRows
    <3>3. b = c
      BY <1>2, <3>1 DEF Adds, AddsRows, TablesOK
    <3>4. QED
      BY <2>0, <3>1, <3>2, <3>3
  <2>3. CASE b \notin buckets /\ f \in files
    <3>1. b.id = uuid
      BY <1>2, <2>3 DEF Adds, AddsRows
    <3>2. PICK c \in buckets : f.bucket = c.id /\ c.id < uuid /\ c.id \in Nat
      BY <2>3 DEF TablesOK, StoreTypeOK, BucketRows
    <3>3. QED
      BY <3>1, <3>2
  <2>4. QED
    BY <2>1, <2>2, <2>3
<1>3. QED
  BY <1>1, <1>2

\* The steps of an emptying
LEMMA EmptyingStep ==
  ASSUME TypeInv, OneJob, DoneInv, NEW w \in Executors, NEW m \in queue, ~IsCopy(m.job),
         Start(w) \/ Work(w) \/ Stops(w) \/ TimesOut(w), ~Silent
  PROVE  /\ TakesAway
         /\ \A path \in DOMAIN disk', b \in buckets, f \in files :
              path[3] = NoVersion /\ b.name = path[1] /\ f.bucket = b.id /\ f.name = path[2]
                => f \in files'
         /\ (Sound(run[w]))'
<1>0. /\ run \in [Executors -> Runs \cup {Idle}] /\ StoreTypeOK /\ TablesOK
      /\ run[w] # Idle =>
           /\ run[w] \in Runs /\ Staged(run[w]) /\ ~IsCopy(run[w].job)
           /\ run[w].at \notin {"dest", "create", "write"}
      /\ Sound(run[w])
  <2>1. run[w] # Idle => run[w].job = m.job
    BY DEF OneJob
  <2>2. run[w] # Idle => run[w] \in Runs /\ Staged(run[w])
    BY DEF TypeInv, StagedRuns
  <2>3. run \in [Executors -> Runs \cup {Idle}] /\ StoreTypeOK
    BY DEF TypeInv, TypeOK, TasksTypeOK
  <2>4. QED
    BY <2>1, <2>2, <2>3 DEF DoneInv, StoreSound, Staged
<1>1. ASSUME UNCHANGED storeVars
      PROVE  /\ TakesAway
             /\ \A path \in DOMAIN disk', b \in buckets, f \in files :
                  path[3] = NoVersion /\ b.name = path[1] /\ f.bucket = b.id
                    /\ f.name = path[2] => f \in files'
  BY <1>1 DEF storeVars, TakesAway
<1>2. ASSUME run'[w] = Idle PROVE (Sound(run[w]))'
  BY <1>2 DEF Sound
<1>3. PICK r : r = run[w]
  OBVIOUS
<1>4. PICK s : s = run'[w]
  OBVIOUS
<1>5. ASSUME (Sound(s))' PROVE (Sound(run[w]))'
  BY <1>4, <1>5 DEF Sound
<1>6. r # Idle => /\ r \in Runs /\ Staged(r) /\ ~IsCopy(r.job)
                  /\ Known(r) /\ EmptyingSound(r)
  BY <1>0, <1>3 DEF Sound
<1>7. ASSUME TakesAway, r # Idle
      PROVE  Known(r)' /\ EmptyingSound(r)'
  <2>1. Sound(r)'
    BY <1>0, <1>3, <1>6, <1>7, EmptyingStays
  <2>2. QED
    BY <1>6, <1>7, <2>1 DEF Sound
<1>8. ASSUME s \in Runs, ~IsCopy(s.job), Known(s)', EmptyingSound(s)'
      PROVE  (Sound(run[w]))'
  BY <1>5, <1>8 DEF Sound
<1>10. CASE Start(w)
  <2>1. UNCHANGED storeVars
    BY <1>10 DEF Start
  <2>2. s \in Runs /\ s.at = "source" /\ s.left = {} /\ ~IsCopy(s.job)
    <3>1. PICK k \in queue :
            run' = [run EXCEPT ![w] =
                       [at |-> "source", job |-> k.job, late |-> FALSE,
                        bucket |-> NoRow, dest |-> NoRow, left |-> {}, total |-> 0,
                        file |-> NoRow, content |-> Torn]]
      BY <1>10, Zenon DEF Start
    <3>2. k = m /\ k.job \in Jobs
      BY DEF OneJob, TypeInv, TypeOK, TasksTypeOK, Messages
    <3>3. QED
      BY <1>0, <1>4, <3>1, <3>2 DEF Runs
  <2>3. Known(s)' /\ EmptyingSound(s)'
    BY <2>2 DEF Known, EmptyingSound
  <2>4. QED
    BY <1>1, <1>8, <2>1, <2>2, <2>3
<1>11. CASE FindSource(w)
  <2>1. UNCHANGED storeVars /\ r # Idle /\ r.at = "source"
    BY <1>3, <1>11 DEF FindSource, Idle
  <2>2. CASE run'[w] = Idle
    BY <1>1, <1>2, <2>1, <2>2
  <2>3. CASE run'[w] # Idle
    <3>1. PICK b \in Sources(r.job) :
            run' = [run EXCEPT ![w].bucket = b,
                               ![w].at = IF IsCopy(r.job) THEN "dest" ELSE "list"]
      BY <1>0, <1>3, <1>11, <2>3 DEF FindSource, Fails
    <3>2. b \in buckets /\ b.name = r.job.src
      BY <1>6, <2>1, <3>1 DEF Sources
    <3>3. /\ s \in Runs /\ s.at = "list" /\ s.bucket = b /\ s.job = r.job /\ s.left = r.left
      BY <1>0, <1>3, <1>4, <1>6, <2>1, <3>1, <3>2 DEF Runs, StoreTypeOK
    <3>4. Known(s) /\ EmptyingSound(s)
      BY <1>0, <1>6, <2>1, <3>2, <3>3 DEF Known, EmptyingSound, TablesOK
    <3>5. Known(s)' /\ EmptyingSound(s)'
      BY <2>1, <3>4 DEF Known, EmptyingSound, storeVars, FilesIn
    <3>6. QED
      BY <1>1, <1>6, <1>8, <2>1, <3>3, <3>5
  <2>4. QED
    BY <2>2, <2>3
<1>12. CASE ListFiles(w)
  <2>1. UNCHANGED storeVars /\ r # Idle /\ r.at = "list"
    BY <1>3, <1>12 DEF ListFiles, Idle
  <2>2. /\ FilesIn(r.bucket) \in SUBSET FileRows /\ Cardinality(FilesIn(r.bucket)) \in Nat
    BY FilesFinite
  <2>3. run' = [run EXCEPT ![w] = [r EXCEPT !.at = "file", !.left = FilesIn(r.bucket),
                                            !.total = Cardinality(FilesIn(r.bucket))]]
    BY <1>3, <1>12 DEF ListFiles
  <2>4. /\ s \in Runs /\ s.at = "file" /\ s.bucket = r.bucket /\ s.job = r.job
        /\ s.left = FilesIn(r.bucket)
    BY <1>0, <1>4, <1>6, <2>1, <2>2, <2>3 DEF Runs
  <2>5. Known(s) /\ EmptyingSound(s)
    BY <1>0, <1>6, <2>1, <2>4 DEF Known, EmptyingSound, TablesOK, FilesIn
  <2>6. Known(s)' /\ EmptyingSound(s)'
    BY <2>1, <2>5 DEF Known, EmptyingSound, storeVars, FilesIn
  <2>7. QED
    BY <1>1, <1>6, <1>8, <2>1, <2>4, <2>6
<1>13. CASE RemoveFile(w)
  <2>1. r # Idle /\ r.at = "file" /\ UNCHANGED <<buckets, files, uuid>>
    BY <1>3, <1>13 DEF RemoveFile, Idle
  <2>2. PICK f \in r.left :
          /\ run' = [run EXCEPT ![w].file = f, ![w].at = "row"]
          /\ RemoveBlob(PlainPath(r.bucket, f.name))
    BY <1>3, <1>13 DEF RemoveFile
  <2>3. /\ s \in Runs /\ s.at = "row" /\ s.bucket = r.bucket /\ s.job = r.job
        /\ s.left = r.left /\ s.file = f
    BY <1>0, <1>3, <1>4, <1>6, <2>1, <2>2 DEF Runs
  <2>4. TakesAway /\ PlainPath(r.bucket, f.name) \notin DOMAIN disk'
    BY <2>1, <2>2 DEF TakesAway, RemoveBlob
  <2>5. Known(r)' /\ EmptyingSound(r)'
    BY <1>7, <2>1, <2>4
  <2>6. Known(s)' /\ EmptyingSound(s)'
    <3>1. Known(s)'
      BY <1>6, <2>1, <2>3, <2>5 DEF Known
    <3>2. FilesIn(s.bucket)' = FilesIn(r.bucket)'
      BY <2>3 DEF FilesIn
    <3>3. EmptyingSound(s)'
      BY <2>1, <2>3, <2>4, <2>5, <3>2 DEF EmptyingSound
    <3>4. QED
      BY <3>1, <3>3
  <2>7. QED
    BY <1>6, <1>8, <2>1, <2>3, <2>4, <2>6
<1>14. CASE DeleteRow(w)
  <2>1. r # Idle /\ r.at = "row" /\ UNCHANGED <<buckets, disk, uuid>>
    BY <1>3, <1>14 DEF DeleteRow, Idle
  <2>2. DropFile(r.file.id) /\ run' = [run EXCEPT ![w].at = "progress"]
    BY <1>3, <1>14 DEF DeleteRow
  <2>3. /\ s \in Runs /\ s.at = "progress" /\ s.bucket = r.bucket /\ s.job = r.job
        /\ s.left = r.left /\ s.file = r.file /\ r.file \in r.left
    BY <1>0, <1>3, <1>4, <1>6, <2>1, <2>2 DEF Runs, Staged
  <2>4. TakesAway /\ r.file \notin files'
    BY <2>1, <2>2 DEF TakesAway, DropFile
  <2>5. Known(r)' /\ EmptyingSound(r)'
    BY <1>7, <2>1, <2>4
  <2>6. Known(s)' /\ EmptyingSound(s)'
    <3>1. Known(s)'
      BY <1>6, <2>1, <2>3, <2>5 DEF Known
    <3>2. FilesIn(s.bucket)' = FilesIn(r.bucket)'
      BY <2>3 DEF FilesIn
    <3>3. EmptyingSound(s)'
      BY <2>1, <2>3, <2>4, <2>5, <3>2 DEF EmptyingSound
    <3>4. QED
      BY <3>1, <3>3
  <2>7. ASSUME NEW path \in DOMAIN disk', NEW b \in buckets, NEW f \in files,
               path[3] = NoVersion, b.name = path[1], f.bucket = b.id, f.name = path[2]
        PROVE  f \in files'
    <3>1. path \in DOMAIN disk /\ path \in Paths
      BY <1>0, <2>1 DEF StoreTypeOK
    <3>2. f.id = r.file.id => f = r.file /\ b = r.bucket
      BY <1>6, <2>1, <2>3, <2>7 DEF EmptyingSound, Known
    <3>3. f = r.file /\ b = r.bucket => path = PlainPath(r.bucket, r.file.name)
      BY <2>7, <3>1 DEF Paths, PlainPath
    <3>4. PlainPath(r.bucket, r.file.name) \notin DOMAIN disk
      BY <1>6, <2>1 DEF EmptyingSound
    <3>5. QED
      BY <2>2, <3>1, <3>2, <3>3, <3>4 DEF DropFile
  <2>8. QED
    BY <1>6, <1>8, <2>1, <2>3, <2>4, <2>6, <2>7
<1>15. CASE Progress(w)
  <2>1. UNCHANGED storeVars /\ r # Idle /\ r.at = "progress"
    BY <1>3, <1>15 DEF Progress, Idle
  <2>2. /\ s \in Runs /\ s.at = "file" /\ s.bucket = r.bucket /\ s.job = r.job
        /\ s.left = r.left \ {r.file}
    BY <1>0, <1>3, <1>4, <1>6, <1>15, <2>1 DEF Progress, Runs
  <2>3. Known(s) /\ EmptyingSound(s)
    BY <1>6, <2>1, <2>2 DEF Known, EmptyingSound, FilesIn
  <2>4. Known(s)' /\ EmptyingSound(s)'
    BY <2>1, <2>3 DEF Known, EmptyingSound, storeVars, FilesIn
  <2>5. QED
    BY <1>1, <1>6, <1>8, <2>1, <2>2, <2>4
<1>16. CASE Finish(w)
  <2>1. UNCHANGED storeVars /\ r # Idle /\ r.at = "file" /\ r.left = {}
    BY <1>3, <1>16 DEF Finish, Idle
  <2>2. s \in Runs /\ s.at = "ack" /\ s.bucket = r.bucket /\ s.job = r.job /\ s.left = r.left
    BY <1>0, <1>3, <1>4, <1>6, <1>16, <2>1 DEF Finish, Runs
  <2>3. Known(s) /\ EmptyingSound(s)
    BY <1>6, <2>1, <2>2 DEF Known, EmptyingSound, IsCopy
  <2>4. Known(s)' /\ EmptyingSound(s)'
    BY <2>1, <2>3 DEF Known, EmptyingSound, storeVars, FilesIn
  <2>5. QED
    BY <1>1, <1>6, <1>8, <2>1, <2>2, <2>4
<1>17. CASE Acknowledge(w)
  BY <1>0, <1>1, <1>2, <1>17 DEF Acknowledge
<1>18. CASE Stops(w)
  <2>1. run'[w] = Idle
    BY <1>0, <1>18 DEF Stops, Fails
  <2>2. run[w].at # "write"
    BY <1>0, <1>18 DEF Stops
  <2>3. UNCHANGED storeVars
    BY <1>18, <2>2 DEF Stops, storeVars
  <2>4. QED
    BY <1>1, <1>2, <2>1, <2>3
<1>19. CASE TimesOut(w)
  <2>1. UNCHANGED storeVars /\ r # Idle
    BY <1>3, <1>19 DEF TimesOut, Idle
  <2>2. /\ s \in Runs /\ s.at = r.at /\ s.bucket = r.bucket /\ s.job = r.job
        /\ s.left = r.left /\ s.file = r.file /\ s.dest = r.dest
    BY <1>0, <1>3, <1>4, <1>6, <1>19, <2>1 DEF TimesOut, Runs
  <2>3. Known(s) /\ EmptyingSound(s)
    BY <1>6, <2>1, <2>2 DEF Known, EmptyingSound
  <2>4. Known(s)' /\ EmptyingSound(s)'
    BY <2>1, <2>3 DEF Known, EmptyingSound, storeVars, FilesIn
  <2>5. QED
    BY <1>1, <1>6, <1>8, <2>1, <2>2, <2>4
<1>20. ASSUME run[w] # Idle
       PROVE  /\ ~WorkerFindsDest(w) /\ ~WorkerCreatesDest(w)
              /\ ~ReadFile(w) /\ ~WriteFile(w) /\ ~InsertRow(w)
  BY <1>0, <1>20 DEF WorkerFindsDest, WorkerCreatesDest, ReadFile, WriteFile, InsertRow
<1>21. run[w] = Idle =>
         /\ ~WorkerFindsDest(w) /\ ~WorkerCreatesDest(w)
         /\ ~ReadFile(w) /\ ~WriteFile(w) /\ ~InsertRow(w)
  BY DEF WorkerFindsDest, WorkerCreatesDest, ReadFile, WriteFile, InsertRow, Idle
<1>22. QED
  BY <1>10, <1>11, <1>12, <1>13, <1>14, <1>15, <1>16, <1>17, <1>18, <1>19, <1>20, <1>21
     DEF Work

\* What is so of a store is so while it stays as it is
LEMMA StoreStands ==
  ASSUME StoreTypeOK, UNCHANGED storeVars, NEW job
  PROVE  /\ Adds(job) /\ TwinsKept(job)
         /\ \A r : Known(r) => Known(r)'
         /\ \A r : CopyingSound(r) => CopyingSound(r)'
<1>1. Adds(job) /\ TwinsKept(job)
  BY DEF storeVars, StoreTypeOK, Adds, AddsRows, TwinsKept, Twin
<1>2. \A r : Known(r) => Known(r)'
  BY DEF storeVars, Known
<1>3. \A b, n, f, j : /\ FilesIn(b)' = FilesIn(b) /\ Owned(b, n)' = Owned(b, n)
                      /\ CopiesOf(f, b)' = CopiesOf(f, b)
                      /\ Twin(j, n)' <=> Twin(j, n)
  BY DEF storeVars, FilesIn, Owned, CopiesOf, Twin
<1>4. \A f, j : Copied(j, f)' <=> Copied(j, f)
  BY <1>3 DEF Copied
<1>5. \A r : CopyingSound(r) => CopyingSound(r)'
  BY <1>3, <1>4 DEF storeVars, CopyingSound
<1>6. QED
  BY <1>1, <1>2, <1>5

\* The steps of a copy
LEMMA CopyingStep ==
  ASSUME TypeInv, OneJob, DoneInv, NEW w \in Executors, NEW m \in queue, IsCopy(m.job),
         Start(w) \/ Work(w) \/ Stops(w) \/ TimesOut(w), ~Silent
  PROVE  /\ Adds(m.job)
         /\ \/ TwinsKept(m.job)
            \/ Stops(w) /\ run[w].at = "write" /\ "torn" \in faults
         /\ (Sound(run[w]))'
<1>0. /\ run \in [Executors -> Runs \cup {Idle}] /\ StoreTypeOK /\ TablesOK
      /\ run[w] # Idle =>
           /\ run[w] \in Runs /\ Staged(run[w]) /\ IsCopy(run[w].job) /\ run[w].job = m.job
      /\ Sound(run[w])
  <2>1. run[w] # Idle => run[w].job = m.job
    BY DEF OneJob
  <2>2. run[w] # Idle => run[w] \in Runs /\ Staged(run[w])
    BY DEF TypeInv, StagedRuns
  <2>3. run \in [Executors -> Runs \cup {Idle}] /\ StoreTypeOK
    BY DEF TypeInv, TypeOK, TasksTypeOK
  <2>4. QED
    BY <2>1, <2>2, <2>3 DEF DoneInv, StoreSound
<1>1. UNCHANGED storeVars => Adds(m.job) /\ TwinsKept(m.job)
  BY <1>0, StoreStands
<1>2. ASSUME run'[w] = Idle PROVE (Sound(run[w]))'
  BY <1>2 DEF Sound
<1>3. PICK r : r = run[w]
  OBVIOUS
<1>4. PICK s : s = run'[w]
  OBVIOUS
<1>5. ASSUME (Sound(s))' PROVE (Sound(run[w]))'
  BY <1>4, <1>5 DEF Sound
<1>6. r # Idle => /\ r \in Runs /\ Staged(r) /\ IsCopy(r.job) /\ r.job = m.job
                  /\ Known(r) /\ CopyingSound(r)
  BY <1>0, <1>3 DEF Sound
<1>7. ASSUME Adds(m.job), TwinsKept(m.job), r # Idle
      PROVE  Known(r)' /\ CopyingSound(r)'
  <2>1. Sound(r)'
    BY <1>0, <1>3, <1>6, <1>7, CopyingStays
  <2>2. QED
    BY <1>6, <1>7, <2>1 DEF Sound
<1>8. ASSUME IsCopy(s.job), Known(s)', CopyingSound(s)'
      PROVE  (Sound(run[w]))'
  BY <1>5, <1>8 DEF Sound
<1>9. ASSUME UNCHANGED storeVars, IsCopy(s.job), Known(s), CopyingSound(s)
      PROVE  (Sound(run[w]))'
  <2>1. Known(s)' /\ CopyingSound(s)'
    BY <1>0, <1>9, StoreStands
  <2>2. QED
    BY <1>8, <1>9, <2>1
<1>10. CASE Start(w)
  <2>1. UNCHANGED storeVars
    BY <1>10 DEF Start
  <2>2. s \in Runs /\ s.at = "source" /\ s.left = {} /\ IsCopy(s.job)
    <3>1. PICK k \in queue :
            run' = [run EXCEPT ![w] =
                       [at |-> "source", job |-> k.job, late |-> FALSE,
                        bucket |-> NoRow, dest |-> NoRow, left |-> {}, total |-> 0,
                        file |-> NoRow, content |-> Torn]]
      BY <1>10, Zenon DEF Start
    <3>2. k = m /\ k.job \in Jobs
      BY DEF OneJob, TypeInv, TypeOK, TasksTypeOK, Messages
    <3>3. QED
      BY <1>0, <1>4, <3>1, <3>2 DEF Runs
  <2>3. Known(s) /\ CopyingSound(s)
    BY <2>2 DEF Known, CopyingSound
  <2>4. QED
    BY <1>1, <1>9, <2>1, <2>2, <2>3
<1>11. CASE FindSource(w)
  <2>1. UNCHANGED storeVars /\ r # Idle /\ r.at = "source"
    BY <1>3, <1>11 DEF FindSource, Idle
  <2>2. CASE run'[w] = Idle
    BY <1>1, <1>2, <2>1, <2>2
  <2>3. CASE run'[w] # Idle
    <3>1. PICK b \in Sources(r.job) :
            run' = [run EXCEPT ![w].bucket = b,
                               ![w].at = IF IsCopy(r.job) THEN "dest" ELSE "list"]
      BY <1>0, <1>3, <1>11, <2>3 DEF FindSource, Fails
    <3>2. b \in buckets /\ b.name = r.job.src
      BY <1>6, <2>1, <3>1 DEF Sources, Owned
    <3>3. /\ s \in Runs /\ s.at = "dest" /\ s.bucket = b /\ s.job = r.job /\ s.left = r.left
      BY <1>0, <1>3, <1>4, <1>6, <2>1, <3>1, <3>2 DEF Runs, StoreTypeOK
    <3>4. Known(s) /\ CopyingSound(s)
      BY <1>0, <1>6, <2>1, <3>2, <3>3 DEF Known, CopyingSound, TablesOK
    <3>5. QED
      BY <1>1, <1>6, <1>9, <2>1, <3>3, <3>4
  <2>4. QED
    BY <2>2, <2>3
<1>12. CASE WorkerFindsDest(w)
  <2>1. UNCHANGED storeVars /\ r # Idle /\ r.at = "dest"
    BY <1>3, <1>12 DEF WorkerFindsDest, Idle
  <2>2. /\ s \in Runs /\ s.bucket = r.bucket /\ s.job = r.job /\ s.left = r.left
        /\ \/ s.at = "create"
           \/ s.at = "list" /\ s.dest \in Owned(r.job.user, r.job.dest)
    <3>1. CASE \E b \in Owned(r.job.user, r.job.dest) :
                 run' = [run EXCEPT ![w].dest = b, ![w].at = "list"]
      BY <1>0, <1>3, <1>4, <1>6, <2>1, <3>1 DEF Runs, StoreTypeOK, Owned
    <3>2. CASE run' = [run EXCEPT ![w].at = "create"]
      BY <1>0, <1>3, <1>4, <1>6, <2>1, <3>2 DEF Runs
    <3>3. QED
      BY <1>3, <1>12, <3>1, <3>2 DEF WorkerFindsDest
  <2>3. Known(s) /\ CopyingSound(s)
    BY <1>0, <1>6, <2>1, <2>2 DEF Known, CopyingSound, TablesOK, Owned
  <2>4. QED
    BY <1>1, <1>6, <1>9, <2>1, <2>2, <2>3
<1>13. CASE WorkerCreatesDest(w)
  <2>1. r # Idle /\ r.at = "create" /\ UNCHANGED <<files, disk>>
    BY <1>3, <1>13 DEF WorkerCreatesDest, Idle
  <2>2. PICK row : row = DestRow(r.job.user, r.job.dest, r.bucket)
    OBVIOUS
  <2>3. /\ row.id = uuid /\ row.name = m.job.dest /\ row.owner = r.job.user
        /\ row \in BucketRows
    BY <1>0, <1>6, <2>1, <2>2 DEF DestRow, Runs, Jobs, Staged, BucketRows, StoreTypeOK, IsCopy
  <2>4. CASE \E b \in buckets : b.name = row.name
    <3>1. UNCHANGED storeVars /\ run'[w] = Idle
      BY <1>0, <1>3, <1>13, <2>1, <2>2, <2>4
         DEF WorkerCreatesDest, InsertBucket, Fails, storeVars
    <3>2. QED
      BY <1>1, <1>2, <3>1
  <2>5. CASE ~\E b \in buckets : b.name = row.name
    <3>1. /\ buckets' = buckets \cup {row} /\ uuid' = uuid + 1
          /\ run' = [run EXCEPT ![w].dest = row, ![w].at = "list"]
      BY <1>3, <1>13, <2>2, <2>5 DEF WorkerCreatesDest, InsertBucket
    <3>2. /\ s \in Runs /\ s.bucket = r.bucket /\ s.job = r.job /\ s.left = r.left
          /\ s.at = "list" /\ s.dest = row
      BY <1>0, <1>3, <1>4, <1>6, <2>1, <2>3, <3>1 DEF Runs
    <3>3. uuid \in Nat /\ uuid' \in Nat /\ uuid < uuid' /\ uuid <= uuid'
      BY <1>0, <3>1 DEF StoreTypeOK
    <3>4. \A b \in buckets : b.id # uuid
      BY <1>0 DEF TablesOK, StoreTypeOK, BucketRows
    <3>5. Adds(m.job)
      BY <2>1, <2>3, <2>5, <3>1, <3>3, <3>4 DEF Adds, AddsRows
    <3>6. TwinsKept(m.job)
      BY <2>1 DEF TwinsKept, Twin
    <3>7. Known(r)' /\ CopyingSound(r)'
      BY <1>7, <2>1, <3>5, <3>6
    <3>8. Known(s)' /\ CopyingSound(s)'
      <4>1. FilesIn(s.bucket)' = FilesIn(r.bucket)'
        BY <3>2 DEF FilesIn
      <4>2. CopyingSound(s)'
        BY <2>1, <3>2, <3>7, <4>1 DEF CopyingSound
      <4>3. s.dest.id < uuid' /\ \A b \in buckets' : b.id = s.dest.id => b = s.dest
        BY <2>3, <3>1, <3>2, <3>3, <3>4
      <4>4. Known(s)'
        BY <1>6, <2>1, <2>3, <3>2, <3>7, <4>3 DEF Known
      <4>5. QED
        BY <4>2, <4>4
    <3>9. QED
      BY <1>6, <1>8, <2>1, <3>2, <3>5, <3>6, <3>8
  <2>6. QED
    BY <2>4, <2>5
<1>14. CASE ListFiles(w)
  <2>1. UNCHANGED storeVars /\ r # Idle /\ r.at = "list"
    BY <1>3, <1>14 DEF ListFiles, Idle
  <2>2. /\ FilesIn(r.bucket) \in SUBSET FileRows /\ Cardinality(FilesIn(r.bucket)) \in Nat
    BY FilesFinite
  <2>3. run' = [run EXCEPT ![w] = [r EXCEPT !.at = "file", !.left = FilesIn(r.bucket),
                                            !.total = Cardinality(FilesIn(r.bucket))]]
    BY <1>3, <1>14 DEF ListFiles
  <2>4. /\ s \in Runs /\ s.at = "file" /\ s.bucket = r.bucket /\ s.job = r.job
        /\ s.left = FilesIn(r.bucket) /\ s.dest = r.dest
    BY <1>0, <1>4, <1>6, <2>1, <2>2, <2>3 DEF Runs
  <2>5. Known(s)
    BY <1>6, <2>1, <2>4 DEF Known
  <2>6. ASSUME m.job.src = m.job.dest, NEW f \in FilesIn(r.bucket)
        PROVE  FALSE
    <3>1. PICK b \in buckets : f.bucket = b.id
      BY <1>0, <2>6 DEF TablesOK, FilesIn
    <3>2. b = r.bucket /\ b.name = m.job.src
      BY <1>6, <2>1, <2>6, <3>1 DEF Known, FilesIn
    <3>3. b.name \in Targets
      BY <2>6, <3>2 DEF DoneInv, StoreSound, Wanted
    <3>4. \E n \in queue : n.job.src # n.job.dest
      BY <2>6, <3>1, <3>3 DEF DoneInv, StoreSound, DestFilled, FilesIn
    <3>5. QED
      BY <2>6, <3>4 DEF OneJob
  <2>7. CopyingSound(s)
    <3>1. FilesIn(s.bucket) = s.left
      BY <2>4
    <3>2. m.job.src = m.job.dest => s.left = {}
      BY <2>4, <2>6
    <3>3. QED
      BY <1>6, <2>1, <2>4, <3>1, <3>2 DEF CopyingSound
  <2>8. QED
    BY <1>1, <1>6, <1>9, <2>1, <2>4, <2>5, <2>7
<1>15. CASE ReadFile(w)
  <2>1. UNCHANGED storeVars /\ r # Idle /\ r.at = "file"
    BY <1>3, <1>15 DEF ReadFile, Idle
  <2>2. CASE run'[w] = Idle
    BY <1>1, <1>2, <2>1, <2>2
  <2>3. CASE run'[w] # Idle
    <3>1. PICK f \in r.left :
            /\ PlainPath(r.bucket, f.name) \in DOMAIN disk
            /\ run' = [run EXCEPT ![w].file = f,
                                  ![w].content = disk[PlainPath(r.bucket, f.name)],
                                  ![w].at = "write"]
      BY <1>0, <1>3, <1>15, <2>3 DEF ReadFile, Fails
    <3>2. /\ f \in FileRows /\ disk[PlainPath(r.bucket, f.name)] \in Sizes \cup {Torn}
      BY <1>0, <1>6, <2>1, <3>1 DEF Runs, StoreTypeOK
    <3>3. /\ s \in Runs /\ s.at = "write" /\ s.bucket = r.bucket /\ s.job = r.job
          /\ s.left = r.left /\ s.dest = r.dest /\ s.file = f
          /\ s.content = disk[PlainPath(r.bucket, f.name)]
      BY <1>0, <1>3, <1>4, <1>6, <2>1, <3>1, <3>2 DEF Runs
    <3>4. PlainPath(r.bucket, f.name) = <<s.job.src, s.file.name, NoVersion>>
      BY <1>6, <2>1, <3>3 DEF Known, PlainPath
    <3>5. Known(s) /\ CopyingSound(s)
      BY <1>6, <2>1, <3>1, <3>3, <3>4 DEF Known, CopyingSound
    <3>6. QED
      BY <1>1, <1>6, <1>9, <2>1, <3>3, <3>5
  <2>4. QED
    BY <2>2, <2>3
<1>16. CASE WriteFile(w)
  <2>1. r # Idle /\ r.at = "write" /\ UNCHANGED <<buckets, files, uuid>>
    BY <1>3, <1>16 DEF WriteFile, Idle
  <2>2. PICK to : to = <<m.job.dest, r.file.name, NoVersion>>
    OBVIOUS
  <2>3. CopyPath(w) = to
    BY <1>3, <1>6, <2>1, <2>2 DEF CopyPath, PlainPath, Known
  <2>4. /\ disk' = [p \in DOMAIN disk \cup {to} |-> IF p = to THEN r.content ELSE disk[p]]
        /\ run' = [run EXCEPT ![w].at = "row", ![w].content = Torn]
    BY <1>3, <1>16, <2>3 DEF WriteFile, WriteBlob
  <2>5. m.job.src # m.job.dest
    BY <1>6, <2>1 DEF CopyingSound, Staged
  <2>6. /\ <<m.job.src, r.file.name, NoVersion>> \in DOMAIN disk
        /\ disk[<<m.job.src, r.file.name, NoVersion>>] = r.content
    BY <1>6, <2>1, <2>5 DEF CopyingSound
  <2>7. Twin(m.job, r.file.name)'
    BY <2>2, <2>4, <2>5, <2>6 DEF Twin
  <2>8. TwinsKept(m.job)
    <3> SUFFICES ASSUME NEW key \in Keys, Twin(m.job, key)
                 PROVE  Twin(m.job, key)'
      BY DEF TwinsKept
    <3>1. CASE key = r.file.name
      BY <2>7, <3>1
    <3>2. CASE key # r.file.name
      BY <2>2, <2>4, <2>5, <3>2 DEF Twin
    <3>3. QED
      BY <3>1, <3>2
  <2>9. Adds(m.job)
    BY <1>0, <2>1, <2>2, <2>4 DEF Adds, AddsRows, StoreTypeOK
  <2>10. Known(r)' /\ CopyingSound(r)'
    BY <1>7, <2>1, <2>8, <2>9
  <2>11. /\ s \in Runs /\ s.at = "row" /\ s.bucket = r.bucket /\ s.job = r.job
         /\ s.left = r.left /\ s.dest = r.dest /\ s.file = r.file
    BY <1>0, <1>3, <1>4, <1>6, <2>1, <2>4 DEF Runs
  <2>12. Known(s)'
    BY <2>1, <2>10, <2>11 DEF Known
  <2>13. FilesIn(s.bucket)' = FilesIn(r.bucket)'
    BY <2>11 DEF FilesIn
  <2>14. CopyingSound(s)'
    BY <1>6, <2>1, <2>7, <2>10, <2>11, <2>13 DEF CopyingSound
  <2>15. QED
    BY <1>6, <1>8, <2>1, <2>8, <2>9, <2>11, <2>12, <2>14
<1>17. CASE InsertRow(w)
  <2>1. r # Idle /\ r.at = "row" /\ UNCHANGED <<buckets, disk>> /\ uuid' = uuid + 1
    BY <1>3, <1>17 DEF InsertRow, Idle
  <2>2. PICK row : row = [r.file EXCEPT !.id = uuid, !.bucket = r.dest.id, !.latest = TRUE]
    OBVIOUS
  <2>3. r.file \in FileRows /\ uuid \in Nat /\ r.file \in r.left /\ r.dest \in BucketRows
    BY <1>0, <1>6, <2>1 DEF Runs, Staged, StoreTypeOK
  <2>4. /\ row.id = uuid /\ row.bucket = r.dest.id /\ row.name = r.file.name
        /\ row.version = r.file.version /\ row.size = r.file.size
    BY <2>2, <2>3 DEF FileRows
  <2>5. m.job.src # m.job.dest
    BY <1>6, <2>1, <2>3 DEF CopyingSound
  <2>6. TwinsKept(m.job)
    BY <2>1 DEF TwinsKept, Twin
  <2>7. CASE ~\E b \in buckets : b.id = r.dest.id
    <3>1. UNCHANGED files /\ run'[w] = Idle
      BY <1>0, <1>3, <1>17, <2>2, <2>4, <2>7 DEF InsertRow, InsertFile, Fails
    <3>2. Adds(m.job)
      BY <2>1, <2>3, <3>1 DEF Adds, AddsRows
    <3>3. QED
      BY <1>2, <2>6, <3>1, <3>2
  <2>8. CASE \E b \in buckets : b.id = r.dest.id
    <3>1. files' = files \cup {row} /\ run' = [run EXCEPT ![w].at = "progress"]
      BY <1>3, <1>17, <2>2, <2>4, <2>8 DEF InsertRow, InsertFile
    <3>2. r.dest \in buckets /\ r.dest.name = m.job.dest /\ r.dest.owner = m.job.user
      BY <1>6, <2>1, <2>8 DEF Known
    <3>3. \A f \in files : f.id # uuid
      BY <1>0 DEF TablesOK, StoreTypeOK, FileRows
    <3>4. Adds(m.job)
      <4>1. uuid' \in Nat /\ uuid <= uuid' /\ uuid < uuid'
        BY <2>1, <2>3
      <4>2. \A f \in files' \ files : f = row
        BY <3>1
      <4>3. \A g \in files' : g.id = row.id => g = row
        BY <2>4, <3>1, <3>3
      <4>4. QED
        BY <2>1, <2>4, <2>5, <3>1, <3>2, <4>1, <4>2, <4>3 DEF Adds, AddsRows
    <3>5. Known(r)' /\ CopyingSound(r)'
      BY <1>7, <2>1, <2>6, <3>4
    <3>6. /\ s \in Runs /\ s.at = "progress" /\ s.bucket = r.bucket /\ s.job = r.job
          /\ s.left = r.left /\ s.dest = r.dest /\ s.file = r.file
      BY <1>0, <1>3, <1>4, <1>6, <2>1, <3>1 DEF Runs
    <3>7. Copied(m.job, r.file)'
      <4>1. r.dest \in Owned(m.job.user, m.job.dest)'
        BY <2>1, <3>2 DEF Owned
      <4>2. row \in CopiesOf(r.file, r.dest)'
        BY <2>4, <3>1 DEF CopiesOf, FilesIn
      <4>3. Twin(m.job, r.file.name)'
        BY <1>6, <2>1, <2>5, <3>5 DEF CopyingSound
      <4>4. QED
        BY <4>1, <4>2, <4>3 DEF Copied
    <3>8. Known(s)'
      BY <2>1, <3>5, <3>6 DEF Known
    <3>9. FilesIn(s.bucket)' = FilesIn(r.bucket)'
      BY <3>6 DEF FilesIn
    <3>10. CopyingSound(s)'
      BY <1>6, <2>1, <3>5, <3>6, <3>7, <3>9 DEF CopyingSound
    <3>11. QED
      BY <1>6, <1>8, <2>1, <2>6, <3>4, <3>6, <3>8, <3>10
  <2>9. QED
    BY <2>7, <2>8
<1>18. CASE Progress(w)
  <2>1. UNCHANGED storeVars /\ r # Idle /\ r.at = "progress"
    BY <1>3, <1>18 DEF Progress, Idle
  <2>2. /\ s \in Runs /\ s.at = "file" /\ s.bucket = r.bucket /\ s.job = r.job
        /\ s.left = r.left \ {r.file} /\ s.dest = r.dest
    BY <1>0, <1>3, <1>4, <1>6, <1>18, <2>1 DEF Progress, Runs
  <2>3. Known(s) /\ CopyingSound(s)
    BY <1>6, <2>1, <2>2 DEF Known, CopyingSound
  <2>4. QED
    BY <1>1, <1>6, <1>9, <2>1, <2>2, <2>3
<1>19. CASE Finish(w)
  <2>1. UNCHANGED storeVars /\ r # Idle /\ r.at = "file" /\ r.left = {}
    BY <1>3, <1>19 DEF Finish, Idle
  <2>2. /\ s \in Runs /\ s.at = "ack" /\ s.bucket = r.bucket /\ s.job = r.job
        /\ s.left = r.left /\ s.dest = r.dest
    BY <1>0, <1>3, <1>4, <1>6, <1>19, <2>1 DEF Finish, Runs
  <2>3. Known(s) /\ CopyingSound(s)
    BY <1>6, <2>1, <2>2 DEF Known, CopyingSound
  <2>4. QED
    BY <1>1, <1>6, <1>9, <2>1, <2>2, <2>3
<1>20. CASE Acknowledge(w)
  BY <1>0, <1>1, <1>2, <1>20 DEF Acknowledge
<1>21. CASE Stops(w)
  <2>1. run'[w] = Idle /\ r # Idle
    BY <1>0, <1>3, <1>21 DEF Stops, Fails
  <2>2. CASE UNCHANGED disk
    <3>1. UNCHANGED storeVars
      BY <1>21, <2>2 DEF Stops, storeVars
    <3>2. QED
      BY <1>1, <1>2, <2>1, <3>1
  <2>3. CASE "torn" \in faults /\ r.at = "write" /\ WriteBlob(CopyPath(w), Torn)
    <3>1. CopyPath(w) = <<m.job.dest, r.file.name, NoVersion>>
      BY <1>3, <1>6, <2>1, <2>3 DEF CopyPath, PlainPath, Known
    <3>2. UNCHANGED <<buckets, files, uuid>>
      BY <1>21 DEF Stops
    <3>3. Adds(m.job)
      BY <1>0, <2>3, <3>1, <3>2 DEF Adds, AddsRows, StoreTypeOK, WriteBlob
    <3>4. QED
      BY <1>2, <1>3, <1>21, <2>1, <2>3, <3>3
  <2>4. QED
    BY <1>3, <1>21, <2>2, <2>3 DEF Stops
<1>22. CASE TimesOut(w)
  <2>1. UNCHANGED storeVars /\ r # Idle
    BY <1>3, <1>22 DEF TimesOut, Idle
  <2>2. /\ s \in Runs /\ s.at = r.at /\ s.bucket = r.bucket /\ s.job = r.job
        /\ s.left = r.left /\ s.file = r.file /\ s.dest = r.dest /\ s.content = r.content
    BY <1>0, <1>3, <1>4, <1>6, <1>22, <2>1 DEF TimesOut, Runs
  <2>3. Known(s) /\ CopyingSound(s)
    BY <1>6, <2>1, <2>2 DEF Known, CopyingSound
  <2>4. QED
    BY <1>1, <1>6, <1>9, <2>1, <2>2, <2>3
<1>23. ~RemoveFile(w) /\ ~DeleteRow(w)
  BY <1>0 DEF RemoveFile, DeleteRow, Idle
<1>24. QED
  BY <1>10, <1>11, <1>12, <1>13, <1>14, <1>15, <1>16, <1>17, <1>18, <1>19, <1>20, <1>21,
     <1>22, <1>23 DEF Work

\* An execution that has dealt with all its files has done the job
LEMMA EndIsThrough ==
  ASSUME TypeInv, StoreSound, NEW m \in queue, \A k \in queue : k = m,
         NEW r \in Runs, Staged(r), Sound(r), r.job = m.job,
         r.at = "ack" \/ (r.at = "file" /\ r.left = {})
  PROVE  Through(m.job)
<1> SUFFICES ASSUME NEW b \in Owned(m.job.user, m.job.src), NEW f \in files, f.bucket = b.id
             PROVE  IsCopy(m.job) /\ m.job.src # m.job.dest /\ Copied(m.job, f)
  BY DEF Through
<1>0. b \in buckets /\ b.name = m.job.src /\ m.job \in Jobs
  BY DEF Owned, TypeInv, TypeOK, TasksTypeOK, Messages
<1>1. Known(r) /\ (IsCopy(r.job) => CopyingSound(r)) /\ (~IsCopy(r.job) => EmptyingSound(r))
  BY DEF Sound, Runs, Idle
<1>2. m.job.src # m.job.dest
  <2>1. SUFFICES ASSUME m.job.src = m.job.dest PROVE FALSE
    OBVIOUS
  <2>2. b.name \in Targets
    BY <1>0, <2>1 DEF StoreSound, Wanted
  <2>3. QED
    BY <1>0, <2>1, <2>2 DEF StoreSound, DestFilled
<1>3. b = r.bucket /\ f \in FilesIn(r.bucket)
  BY <1>0, <1>1, <1>2 DEF Known, FilesIn
<1>4. IsCopy(m.job)
  BY <1>1, <1>3 DEF EmptyingSound
<1>5. Copied(m.job, f)
  BY <1>1, <1>2, <1>3, <1>4 DEF CopyingSound
<1>6. QED
  BY <1>2, <1>4, <1>5

\* The steps of the executions
LEMMA RunKeepsDone ==
  ASSUME Loud, TypeInv, OneJob, Solo, FirstAttempt, DoneInv, NEW w \in Executors,
         Start(w) \/ Work(w) \/ Stops(w) \/ TimesOut(w)
  PROVE  DoneInv'
<1>1. PICK m \in queue, n \in queue' :
         /\ queue = {m} /\ queue' = {n}
         /\ n.job = m.job /\ n.requeued = m.requeued
         /\ \/ n = m
            \/ n.tries > m.tries
            \/ n.tries = m.tries /\ n.state # "pending"
         /\ run[w] # Idle => run[w].job = m.job
         /\ run[w] = Idle => m.state = "pending" /\ n = [m EXCEPT !.state = "active"]
         /\ run'[w] # Idle => run'[w].job = m.job
         /\ \A v \in Executors \ {w} : run'[v] = run[v]
  BY MessageStep
<1>2. /\ \A u \in tasks' : \E t \in tasks :
           /\ u.job = t.job
           /\ \/ u = t
              \/ Progress(w) /\ u.progress = Percent(w) /\ u.status = t.status
              \/ Finish(w) /\ u.progress = 100 /\ u.status = "completed"
      /\ ask' = ask /\ faults' = faults
  BY RowStep
<1>3. /\ ~Silent /\ ~({"torn", "timeout"} \subseteq faults)
      /\ StoreTypeOK /\ StoreSound /\ TablesOK
      /\ m \in Messages /\ n \in Messages /\ m.job \in Jobs
      /\ \A v \in Executors : run[v] # Idle =>
           run[v] \in Runs /\ Staged(run[v]) /\ run[v].job = m.job
  <2>1. faults \in FaultModes /\ StoreTypeOK /\ queue \subseteq Messages
    BY DEF TypeInv, TypeOK, TasksTypeOK
  <2>2. \A v \in Executors : run[v] # Idle =>
           run[v] \in Runs /\ Staged(run[v]) /\ run[v].job = m.job
    BY <1>1 DEF TypeInv, StagedRuns, OneJob
  <2>3. m \in Messages /\ m.job \in Jobs
    BY <2>1 DEF Messages
  <2>4. TypeInv'
    BY RunStepType
  <2>5. n \in Messages
    BY <2>4 DEF TypeInv, TypeOK, TasksTypeOK
  <2>6. ~Silent /\ ~({"torn", "timeout"} \subseteq faults)
    BY <2>1 DEF Loud, Silent
  <2>7. QED
    BY <2>1, <2>2, <2>3, <2>5, <2>6 DEF DoneInv, StoreSound
<1>4. \/ /\ ~IsCopy(m.job) /\ TakesAway
         /\ \A path \in DOMAIN disk', b \in buckets, f \in files :
              path[3] = NoVersion /\ b.name = path[1] /\ f.bucket = b.id /\ f.name = path[2]
                => f \in files'
         /\ (Sound(run[w]))'
      \/ /\ IsCopy(m.job) /\ Adds(m.job)
         /\ \/ TwinsKept(m.job)
            \/ Stops(w) /\ run[w].at = "write" /\ "torn" \in faults
         /\ (Sound(run[w]))'
  BY <1>3, EmptyingStep, CopyingStep
<1>5. StoreSound'
  BY <1>1, <1>2, <1>3, <1>4, TakesAwayKeepsStore, AddsKeepsStore
<1>7. CASE \/ ~IsCopy(m.job) /\ TakesAway
           \/ IsCopy(m.job) /\ Adds(m.job) /\ TwinsKept(m.job)
  <2>1. ASSUME NEW v \in Executors \ {w}
        PROVE  (Sound(run[v]))'
    <3>1. PICK r : r = run[v]
      OBVIOUS
    <3>2. r = run'[v]
      BY <1>1, <2>1, <3>1
    <3>3. r # Idle => r \in Runs /\ Staged(r) /\ r.job = m.job /\ Sound(r)
      BY <1>3, <3>1 DEF DoneInv
    <3>4. r # Idle => Sound(r)'
      BY <1>3, <1>7, <3>3, EmptyingStays, CopyingStays
    <3>5. QED
      BY <3>2, <3>4 DEF Sound
  <2>2. Through(m.job) => Through(m.job)'
    BY <1>3, <1>7, ThroughStays
  <2>3. ASSUME Finish(w) \/ Acknowledge(w) PROVE Through(m.job)
    <3>1. /\ run[w] # Idle
          /\ run[w].at = "ack" \/ (run[w].at = "file" /\ run[w].left = {})
      BY <2>3 DEF Finish, Acknowledge, Idle
    <3>2. Sound(run[w])
      BY DEF DoneInv
    <3>3. QED
      BY <1>1, <1>3, <3>1, <3>2, EndIsThrough
  <2>4. Repeated(m.job) => Repeated(m.job)' \/ Acknowledge(w)
    <3>1. n.state = "done" => n = m \/ Acknowledge(w)
      BY GoesOn
    <3>2. Again(m) > 0 => Again(n) > 0
      BY <1>1, <1>3 DEF Messages, Again
    <3>3. QED
      BY <1>1, <1>2, <3>1, <3>2 DEF Repeated
  <2>5. Reports'
    <3> SUFFICES ASSUME NEW u \in tasks', u.status = "completed"
                 PROVE  Through(u.job)' \/ Repeated(u.job)'
      BY DEF Reports
    <3>1. PICK t \in tasks : u.job = t.job /\ (t.status = "completed" \/ Finish(w))
      BY <1>2
    <3>2. t.job = m.job
      BY <1>1 DEF OneJob
    <3>3. Finish(w) \/ Through(m.job) \/ Repeated(m.job)
      BY <3>1, <3>2 DEF DoneInv, Reports
    <3>4. Through(m.job)' \/ Repeated(m.job)'
      BY <2>2, <2>3, <2>4, <3>3
    <3>5. QED
      BY <3>1, <3>2, <3>4
  <2>6. (\A v \in Executors : Sound(run[v]))'
    BY <1>4, <2>1
  <2>7. QED
    BY <1>5, <2>5, <2>6 DEF DoneInv
<1>8. CASE IsCopy(m.job) /\ Stops(w) /\ run[w].at = "write" /\ "torn" \in faults
  <2>1. run[w] # Idle /\ run'[w] = Idle
    BY <1>8 DEF Stops, Fails, TypeInv, TypeOK, TasksTypeOK
  <2>2. /\ \A v \in Executors \ {w} : run[v] = Idle
        /\ ~run[w].late
    BY <1>3, <1>8, <2>1 DEF Solo
  <2>3. (\A v \in Executors : Sound(run[v]))'
    BY <1>1, <2>1, <2>2 DEF Sound
  <2>4. \A t \in tasks : t.status = "completed" => Again(m) > 0
    <3>1. \A t \in tasks : t.status = "completed" => Again(m) # 0
      BY <1>8, <2>1 DEF FirstAttempt
    <3>2. QED
      BY <1>3, <3>1 DEF Messages, Again
  <2>5. Retry(m.job)
    BY <1>3, <1>8, <2>1, <2>2 DEF Stops, Fails
  <2>6. n.state # "done" /\ n.tries >= m.tries
    <3> DEFINE New(k) == CASE k.job.id # m.job.id -> k
                           [] k.tries < MaxRetry -> [k EXCEPT !.state = "pending", !.tries = @ + 1]
                           [] OTHER -> [k EXCEPT !.state = "archived"]
    <3>1. queue' = {New(k) : k \in queue}
      BY <2>5 DEF Retry
    <3>2. New(m).state \in {"pending", "archived"} /\ New(m).tries >= m.tries
      BY <1>3 DEF Messages
    <3> HIDE DEF New
    <3>3. n = New(m)
      BY <1>1, <3>1
    <3>4. QED
      BY <3>2, <3>3
  <2>7. Reports'
    <3> SUFFICES ASSUME NEW u \in tasks', u.status = "completed"
                 PROVE  Repeated(u.job)'
      BY DEF Reports
    <3>1. u \in tasks
      BY <1>8 DEF Stops
    <3>2. u.job = m.job /\ Again(m) > 0
      BY <1>1, <2>4, <3>1 DEF OneJob
    <3>3. Again(n) > 0
      BY <1>1, <1>3, <2>6, <3>2 DEF Messages, Again
    <3>4. QED
      BY <1>1, <1>2, <1>8, <2>6, <3>2, <3>3 DEF Repeated
  <2>8. QED
    BY <1>5, <2>3, <2>7 DEF DoneInv
<1>9. QED
  BY <1>4, <1>7, <1>8

\* The rows of the store to begin with
LEMMA SettledInit ==
  ASSUME \A s \in Stock : Settled(s), Init
  PROVE  DoneInv
<1>1. PICK s \in Stock : buckets = s.buckets /\ files = s.files
                         /\ disk = s.disk /\ uuid = s.uuid
  BY DEF Init
<1>2. StoreOK(s) /\ Settled(s)
  BY StockAssumption
<1>3. /\ tasks = {} /\ queue = {}
      /\ \A q \in Requesters : ask[q] = Idle
      /\ \A w \in Executors : run[w] = Idle
  BY DEF Init, TasksInit
<1>4. TablesOK
  BY <1>1, <1>2 DEF StoreOK, TablesOK
<1>5. Wanted
  BY <1>3 DEF Wanted
<1>6. DestFilled /\ SourceContent
  BY <1>1, <1>2 DEF Settled, DestFilled, SourceContent
<1>7. FilesBacked /\ Housed
  BY <1>1, <1>2 DEF Settled, StoreOK, FilesBacked, Housed
<1>8. QED
  BY <1>3, <1>4, <1>5, <1>6, <1>7 DEF StoreSound, Sound, Reports, DoneInv

\* A store that stays as it is
LEMMA StandsSound ==
  ASSUME StoreTypeOK, UNCHANGED <<storeVars, queue, run, faults>>, DoneInv
  PROVE  /\ (TablesOK /\ DestFilled /\ SourceContent /\ FilesBacked /\ Housed)'
         /\ (\A w \in Executors : Sound(run[w]))'
         /\ \A job : (Through(job) => Through(job)') /\ (Repeated(job) => Repeated(job)')
<1>1. (TablesOK /\ DestFilled /\ SourceContent /\ FilesBacked /\ Housed)'
  BY DEF DoneInv, StoreSound, TablesOK, DestFilled, SourceContent, FilesBacked, Housed,
         storeVars
<1>2. ASSUME NEW w \in Executors
      PROVE  (Sound(run[w]))'
  <2>1. PICK r : r = run[w]
    OBVIOUS
  <2>2. Sound(r) /\ r = run'[w]
    BY <2>1 DEF DoneInv
  <2>3. EmptyingSound(r) => EmptyingSound(r)'
    BY DEF EmptyingSound, FilesIn, storeVars
  <2>4. (Known(r) => Known(r)') /\ (CopyingSound(r) => CopyingSound(r)')
    BY StoreStands
  <2>5. Sound(r)'
    BY <2>2, <2>3, <2>4 DEF Sound
  <2>6. QED
    BY <2>2, <2>5 DEF Sound
<1>3. ASSUME NEW job
      PROVE  (Through(job) => Through(job)') /\ (Repeated(job) => Repeated(job)')
  <2>1. \A f : Copied(job, f) => Copied(job, f)'
    BY DEF storeVars, Copied, Twin, Owned, CopiesOf, FilesIn
  <2>2. Through(job) => Through(job)'
    BY <2>1 DEF storeVars, Through, Owned
  <2>3. QED
    BY <2>2 DEF Repeated, Again
<1>4. QED
  BY <1>1, <1>2, <1>3

\* The steps of the requests, which come before any execution
LEMMA AskKeepsDone ==
  ASSUME OneTask, TypeInv, OneJob, DoneInv, NEW q \in Requesters,
         Ask(q) \/ Serve(q) \/ AskAborts(q)
  PROVE  DoneInv'
<1>0. /\ ask \in [Requesters -> Asks \cup {Idle}] /\ StoreTypeOK
      /\ ask[q] # Idle => ask[q] \in Asks /\ ask[q].dest \in Targets
      /\ uuid \in Nat /\ uuid + 1 \in Nat
  BY DEF TypeInv, TypeOK, TasksTypeOK, StoreTypeOK, DoneInv, StoreSound, Wanted
<1>1. ASSUME UNCHANGED <<storeVars, queue, run, faults>>, Wanted',
             \A t \in tasks' : t \in tasks \/ t.status = "running"
      PROVE  DoneInv'
  <2>1. Reports'
    BY <1>0, <1>1, StandsSound DEF DoneInv, Reports
  <2>2. QED
    BY <1>0, <1>1, <2>1, StandsSound DEF DoneInv, StoreSound
<1>2. ASSUME queue = {}, UNCHANGED <<files, disk, tasks, run, faults>>, ask[q] # Idle,
             TablesOK', buckets \subseteq buckets', Wanted',
             \A b \in buckets' \ buckets : b.id = uuid /\ \A c \in buckets : c.name # b.name
      PROVE  DoneInv'
  <2>1. tasks = {} /\ \A w \in Executors : run[w] = Idle
    BY <1>2 DEF OneJob
  <2>2. \A b \in buckets' \ buckets, f \in files : f.bucket # b.id
    <3>1. \A f \in files : \E b \in buckets : b.id \in Nat /\ b.id < uuid /\ f.bucket = b.id
      BY <1>0 DEF DoneInv, StoreSound, TablesOK, StoreTypeOK, BucketRows
    <3>2. QED
      BY <1>0, <1>2, <3>1
  <2>3. DestFilled'
    BY <1>2, <2>2 DEF DoneInv, StoreSound, DestFilled
  <2>4. SourceContent'
    BY <1>2, <2>2 DEF DoneInv, StoreSound, SourceContent, PlainPath
  <2>5. FilesBacked' /\ Housed'
    <3>1. Housed /\ FilesBacked
      BY DEF DoneInv, StoreSound
    <3>2. Housed'
      BY <1>2, <3>1 DEF Housed
    <3>3. ASSUME NEW path \in DOMAIN disk, path[3] # NoVersion, NEW b \in buckets',
                 b.name = path[1]
          PROVE  b.versioning
      <4>1. b \in buckets
        BY <1>2, <3>1, <3>3 DEF Housed
      <4>2. QED
        BY <1>2, <3>1, <3>3, <4>1 DEF FilesBacked
    <3>4. FilesBacked'
      BY <1>2, <3>1, <3>3 DEF FilesBacked
    <3>5. QED
      BY <3>2, <3>4
  <2>6. (\A w \in Executors : Sound(run[w]))' /\ Reports'
    BY <1>2, <2>1 DEF Sound, Reports
  <2>7. QED
    BY <1>2, <2>3, <2>4, <2>5, <2>6 DEF DoneInv, StoreSound
<1>3. CASE Ask(q)
  <2>1. PICK dest \in Targets : \E at, bucket :
          ask' = [ask EXCEPT ![q] = [at |-> at, bucket |-> bucket, dest |-> dest, id |-> 0]]
    BY <1>3 DEF Ask
  <2>2. Wanted'
    BY <1>0, <1>3, <2>1 DEF Ask, Wanted, DoneInv, StoreSound
  <2>3. QED
    BY <1>1, <1>3, <2>2 DEF Ask
<1>4. CASE FindDest(q)
  <2>1. ask[q] # Idle
    BY <1>4 DEF FindDest, Idle
  <2>2. PICK at : ask' = [ask EXCEPT ![q].at = at]
    BY <1>4 DEF FindDest
  <2>3. Wanted'
    BY <1>0, <1>4, <2>1, <2>2 DEF FindDest, Wanted, DoneInv, StoreSound, Asks
  <2>4. QED
    BY <1>1, <1>4, <2>3 DEF FindDest
<1>5. CASE CreateDest(q)
  <2>1. ask[q] # Idle /\ ask[q].at = "create" /\ queue = {}
    BY <1>5 DEF CreateDest, Idle, OneJob
  <2>2. PICK row : row = DestRow(ask[q].bucket.owner, ask[q].dest, ask[q].bucket)
    OBVIOUS
  <2>3. row.id = uuid /\ row.name = ask[q].dest
    BY <2>2 DEF DestRow
  <2>4. \/ ask' = [ask EXCEPT ![q] = Idle]
        \/ ask' = [ask EXCEPT ![q].at = "enqueue"]
    BY <1>5 DEF CreateDest
  <2>5. Wanted'
    BY <1>0, <1>5, <2>1, <2>4 DEF CreateDest, Wanted, DoneInv, StoreSound, Asks
  <2>6. CASE \E b \in buckets : b.name = ask[q].dest
    <3>1. UNCHANGED <<storeVars, queue, run, faults, tasks>>
      BY <1>5, <2>2, <2>3, <2>6 DEF CreateDest, InsertBucket, storeVars
    <3>2. QED
      BY <1>1, <2>5, <3>1
  <2>7. CASE ~\E b \in buckets : b.name = ask[q].dest
    <3>1. buckets' = buckets \cup {row} /\ uuid' = uuid + 1
          /\ UNCHANGED <<files, disk, tasks, queue, run, faults>>
      BY <1>5, <2>2, <2>3, <2>7 DEF CreateDest, InsertBucket
    <3>2. \A b \in buckets : b.id # uuid
      BY <1>0 DEF DoneInv, StoreSound, TablesOK, StoreTypeOK, BucketRows
    <3>3. \A b, c \in buckets' : b.id = c.id \/ b.name = c.name => b = c
      BY <2>3, <2>7, <3>1, <3>2 DEF DoneInv, StoreSound, TablesOK
    <3>4. \A b \in buckets' : b.id < uuid'
      BY <1>0, <2>3, <3>1 DEF DoneInv, StoreSound, TablesOK, StoreTypeOK, BucketRows
    <3>5. \A f \in files' : f.id < uuid' /\ \E b \in buckets' : f.bucket = b.id
      BY <1>0, <3>1 DEF DoneInv, StoreSound, TablesOK, StoreTypeOK, FileRows
    <3>6. \A f, g \in files' : f.id = g.id => f = g
      BY <3>1 DEF DoneInv, StoreSound, TablesOK
    <3>7. TablesOK'
      BY <3>3, <3>4, <3>5, <3>6 DEF TablesOK
    <3>8. QED
      BY <1>2, <2>1, <2>3, <2>5, <2>7, <3>1, <3>7
  <2>8. QED
    BY <2>6, <2>7
<1>6. CASE Enqueue(q)
  <2>1. ask[q] # Idle /\ ask[q].at = "enqueue" /\ queue = {}
    BY <1>6 DEF Enqueue, Idle, OneJob
  <2>2. /\ ask' = [ask EXCEPT ![q].at = "record", ![q].id = uuid]
        /\ queue' = {[job |-> [JobOf(q) EXCEPT !.id = uuid], tries |-> 0,
                      requeued |-> 0, state |-> "pending"]}
    BY <1>6, <2>1 DEF Enqueue
  <2>3. [JobOf(q) EXCEPT !.id = uuid].dest = ask[q].dest
    BY DEF JobOf
  <2>4. Wanted'
    <3>1. \A p \in Requesters : ask'[p] # Idle => ask'[p].dest \in Targets
      BY <1>0, <2>1, <2>2 DEF Wanted, DoneInv, StoreSound, Asks
    <3>2. \A k \in queue' : k.job = [JobOf(q) EXCEPT !.id = uuid]
      BY <2>2
    <3>3. QED
      BY <1>0, <2>1, <2>3, <3>1, <3>2 DEF Wanted
  <2>5. TablesOK'
    <3>1. UNCHANGED <<buckets, files>> /\ uuid' = uuid + 1
      BY <1>6 DEF Enqueue
    <3>2. QED
      BY <1>0, <3>1 DEF DoneInv, StoreSound, TablesOK, StoreTypeOK, BucketRows, FileRows
  <2>6. QED
    BY <1>2, <1>6, <2>1, <2>4, <2>5 DEF Enqueue
<1>7. CASE Record(q)
  <2>1. ask' = [ask EXCEPT ![q] = Idle] /\ UNCHANGED <<storeVars, queue, run, faults>>
        /\ \A t \in tasks' : t \in tasks \/ t.status = "running"
    BY <1>7 DEF Record
  <2>2. Wanted'
    BY <1>0, <2>1 DEF Wanted, DoneInv, StoreSound
  <2>3. QED
    BY <1>1, <2>1, <2>2
<1>8. CASE AskAborts(q)
  <2>1. ask' = [ask EXCEPT ![q] = Idle] /\ UNCHANGED <<storeVars, queue, run, faults, tasks>>
    BY <1>8 DEF AskAborts
  <2>2. Wanted'
    BY <1>0, <2>1 DEF Wanted, DoneInv, StoreSound
  <2>3. QED
    BY <1>1, <2>1, <2>2
<1>9. QED
  BY <1>3, <1>4, <1>5, <1>6, <1>7, <1>8 DEF Serve

\* An empty bucket that is deleted takes nothing with it
LEMMA DropKeepsDone ==
  ASSUME TypeInv, OneJob, DoneInv, DeleteEmptyBucket
  PROVE  DoneInv'
<1>1. PICK b \in buckets : FilesIn(b) = {} /\ DropBucket(b.id)
  BY DEF DeleteEmptyBucket
<1>2. PICK m \in queue : queue = {m}
  BY DEF DeleteEmptyBucket, OneJob
<1>3. /\ UNCHANGED <<files, disk, uuid, tasks, queue, ask, run, faults>>
      /\ buckets' = {c \in buckets : c.id # b.id}
      /\ \A f \in files : f.bucket # b.id
  BY <1>1 DEF DeleteEmptyBucket, DropBucket, FilesIn
<1>4. StoreTypeOK /\ TablesOK /\ StoreSound /\ m.job \in Jobs
  BY DEF DoneInv, StoreSound, TypeInv, TypeOK, TasksTypeOK, Messages
<1>5. TakesAway
  BY <1>3, <1>4 DEF TakesAway
<1>6. Adds(m.job) /\ TwinsKept(m.job)
  BY <1>3, <1>4 DEF Adds, AddsRows, TwinsKept, Twin, StoreTypeOK
<1>7. StoreSound'
  BY <1>2, <1>3, <1>4, <1>5, TakesAwayKeepsStore
<1>8. ASSUME NEW w \in Executors
      PROVE  (Sound(run[w]))'
  <2>1. PICK r : r = run[w]
    OBVIOUS
  <2>2. r = run'[w] /\ Sound(r)
    BY <1>3, <2>1 DEF DoneInv
  <2>3. r # Idle => r \in Runs /\ Staged(r) /\ r.job = m.job
    BY <1>2, <2>1 DEF TypeInv, StagedRuns, OneJob
  <2>4. r # Idle => Sound(r)'
    BY <1>4, <1>5, <1>6, <2>2, <2>3, EmptyingStays, CopyingStays
  <2>5. QED
    BY <2>2, <2>4 DEF Sound
<1>9. Reports'
  <2>1. Through(m.job) => Through(m.job)'
    BY <1>4, <1>5, <1>6, ThroughStays
  <2>2. Repeated(m.job) => Repeated(m.job)'
    BY <1>3 DEF Repeated, Again
  <2>3. \A t \in tasks : t.job = m.job
    BY <1>2 DEF OneJob
  <2>4. QED
    BY <1>3, <2>1, <2>2, <2>3 DEF DoneInv, Reports
<1>10. QED
  BY <1>7, <1>8, <1>9 DEF DoneInv

\* A shutdown stops what it may have cut short, and that is repeated
LEMMA ShutDownKeepsDone ==
  ASSUME Loud, TypeInv, OneJob, Solo, Prompt, DoneInv, ShutsDown
  PROVE  DoneInv'
<1>1. /\ UNCHANGED <<buckets, files, uuid, tasks, ask, faults>>
      /\ \A w \in Executors : run'[w] = Idle
      /\ queue = {} => queue' = {}
  BY ShutDownStep
<1>2. (\A w \in Executors : Sound(run[w]))'
  BY <1>1 DEF Sound
<1>3. ASSUME NEW m \in queue
      PROVE  \E n \in queue' :
               /\ queue = {m} /\ queue' = {n} /\ n.job = m.job
               /\ n = m \/ (Again(n) > 0 /\ n.state = "pending")
               /\ m.state = "active" => Again(n) > 0 /\ n.state = "pending"
  <2>1. PICK n \in queue' :
          /\ queue = {m} /\ queue' = {n}
          /\ n.job = m.job /\ n.tries = m.tries
          /\ m.tries \in Nat /\ m.requeued \in Nat
          /\ \/ n = m /\ m.state # "active"
             \/ /\ m.state = "active" /\ n.state = "pending"
                /\ n.requeued = m.requeued + 1
    BY ShutDownStep
  <2>2. m.state = "active" => Again(n) > 0
    BY <2>1 DEF Again
  <2>3. QED
    BY <2>1, <2>2
<1>4. CASE disk' = disk
  <2>1. StoreSound'
    <3>1. (TablesOK /\ SourceContent)'
      BY <1>1, <1>3, <1>4 DEF DoneInv, StoreSound, TablesOK, SourceContent
    <3>2. (Wanted /\ DestFilled)'
      BY <1>1, <1>3 DEF DoneInv, StoreSound, Wanted, DestFilled
    <3>3. (FilesBacked /\ Housed)'
      BY <1>1, <1>3, <1>4 DEF DoneInv, StoreSound, FilesBacked, Housed
    <3>4. QED
      BY <3>1, <3>2, <3>3 DEF StoreSound
  <2>2. ASSUME NEW job, Through(job)
        PROVE  Through(job)'
    <3>1. \A f : Copied(job, f) => Copied(job, f)'
      BY <1>1, <1>4 DEF Copied, Twin, Owned, CopiesOf, FilesIn
    <3>2. QED
      BY <1>1, <2>2, <3>1 DEF Through, Owned
  <2>3. ASSUME NEW job, Repeated(job)
        PROVE  Repeated(job)'
    <3>1. PICK m \in queue : m.job = job /\ Again(m) > 0 /\ m.state # "done"
      BY <2>3 DEF Repeated
    <3>2. PICK n \in queue' : n.job = m.job /\ (n = m \/ (Again(n) > 0 /\ n.state = "pending"))
      BY <1>3
    <3>3. n.job = job /\ Again(n) > 0 /\ n.state # "done"
      BY <3>1, <3>2
    <3>4. QED
      BY <1>1, <2>3, <3>3 DEF Repeated, Again
  <2>4. Reports'
    BY <1>1, <2>2, <2>3 DEF DoneInv, Reports
  <2>5. QED
    BY <1>2, <2>1, <2>4 DEF DoneInv
<1>5. CASE disk' # disk
  <2>1. PICK cut \in SUBSET {w \in Executors : "torn" \in faults /\ run[w].at = "write"} :
          disk' = [p \in DOMAIN disk \cup {CopyPath(w) : w \in cut} |->
                     IF \E w \in cut : p = CopyPath(w) THEN Torn ELSE disk[p]]
    BY DEF ShutsDown
  <2>2. cut # {}
    <3>1. SUFFICES ASSUME cut = {} PROVE FALSE
      OBVIOUS
    <3>2. disk' = [p \in DOMAIN disk |-> disk[p]]
      BY <2>1, <3>1
    <3>3. disk = [p \in DOMAIN disk |-> disk[p]]
      BY DEF TypeInv, TypeOK, StoreTypeOK
    <3>4. QED
      BY <1>5, <3>2, <3>3
  <2>3. PICK w \in cut : "torn" \in faults /\ run[w].at = "write" /\ w \in Executors
    BY <2>2
  <2>4. run[w] # Idle /\ Staged(run[w]) /\ IsCopy(run[w].job)
    BY <2>3, StagedRun DEF Staged
  <2>5. PICK m \in queue : queue = {m} /\ m.job = run[w].job
    BY <2>3, <2>4 DEF OneJob
  <2>6. "timeout" \notin faults
    BY <2>3 DEF Loud, TypeInv, TypeOK, TasksTypeOK
  <2>7. m.state = "active"
    BY <2>3, <2>4, <2>6 DEF Solo, Prompt
  <2>8. PICK n \in queue' : /\ queue' = {n} /\ n.job = m.job
                            /\ Again(n) > 0 /\ n.state = "pending"
    BY <1>3, <2>7
  <2>9. ASSUME NEW v \in cut
        PROVE  CopyPath(v)[1] = m.job.dest
    <3>1. run[v] # Idle /\ Staged(run[v]) /\ run[v].at = "write" /\ IsCopy(run[v].job)
      BY <2>1, StagedRun DEF Staged
    <3>2. run[v].dest.name = run[v].job.dest
      BY <2>1, <3>1 DEF DoneInv, Sound, Known
    <3>3. run[v].job = m.job
      BY <2>1, <2>5, <3>1 DEF OneJob
    <3>4. QED
      BY <3>2, <3>3 DEF CopyPath, PlainPath
  <2>10. Adds(m.job)
    <3>1. AddsRows(m.job)
      BY <1>1 DEF AddsRows, TypeInv, TypeOK, StoreTypeOK
    <3>2. ASSUME NEW path \in DOMAIN disk \cup DOMAIN disk', path[1] # m.job.dest
          PROVE  /\ path \in DOMAIN disk /\ path \in DOMAIN disk'
                 /\ disk'[path] = disk[path]
      BY <2>1, <2>9, <3>2
    <3>3. QED
      BY <3>1, <3>2 DEF Adds
  <2>11. StoreSound'
    BY <1>1, <2>4, <2>5, <2>8, <2>10, AddsKeepsStore DEF DoneInv, TypeInv, TypeOK
  <2>12. Reports'
    BY <1>1, <2>3, <2>5, <2>8 DEF Reports, Repeated, OneJob, Again
  <2>13. QED
    BY <1>2, <2>11, <2>12 DEF DoneInv
<1>6. QED
  BY <1>4, <1>5

\* What the rows report is done
LEMMA ThroughIsDone ==
  ASSUME TypeInv, OneJob, StoreSound, NEW t \in tasks, Through(t.job)
  PROVE  JobDone(t.job)
<1>1. PICK m \in queue : m.job = t.job
  BY DEF OneJob
<1>2. \A k \in queue : k = m
  BY DEF OneJob
<1>3. PICK job \in Jobs : job = t.job
  BY DEF TypeInv, TypeOK, TasksTypeOK, TaskRows
<1>4. CASE ~IsCopy(job)
  <2> SUFFICES ASSUME NEW b \in Owned(job.user, job.src)
               PROVE  /\ FilesIn(b) = {}
                      /\ b.versioning \/ \A path \in DOMAIN disk : path[1] # b.name
    BY <1>3, <1>4 DEF JobDone, EmptyDone
  <2>1. \A f \in files : f.bucket # b.id
    BY <1>3, <1>4 DEF Through
  <2>2. ASSUME ~b.versioning, NEW path \in DOMAIN disk, path[1] = b.name
        PROVE  FALSE
    <3>1. b \in buckets
      BY DEF Owned
    <3>3. \A k \in queue : ~IsCopy(k.job)
      BY <1>1, <1>2, <1>3, <1>4
    <3>2. path[3] = NoVersion
      BY <2>2, <3>1, <3>3 DEF StoreSound, FilesBacked
    <3>4. PICK c \in buckets, f \in files : c.name = path[1] /\ f.bucket = c.id
      BY <3>2, <3>3 DEF StoreSound, FilesBacked
    <3>5. c = b
      BY <2>2, <3>1, <3>4 DEF StoreSound, TablesOK
    <3>6. QED
      BY <2>1, <3>4, <3>5
  <2>3. QED
    BY <2>1, <2>2 DEF FilesIn
<1>5. CASE IsCopy(job)
  <2> SUFFICES ASSUME NEW b \in Owned(job.user, job.src), NEW f \in FilesIn(b)
               PROVE  \E d \in Owned(job.user, job.dest) :
                        CopiesOf(f, d) # {} /\ (d.versioning \/ Stored(f, d))
    BY <1>3, <1>5 DEF JobDone, CopyDone
  <2>1. job.src # job.dest /\ Copied(job, f)
    BY <1>3 DEF Through, FilesIn
  <2>2. PICK d \in Owned(job.user, job.dest) : CopiesOf(f, d) # {}
    BY <2>1 DEF Copied
  <2>3. /\ b.name = job.src /\ d.name = job.dest /\ b \in buckets
        /\ f \in files /\ f.bucket = b.id
    BY DEF Owned, FilesIn
  <2>4. disk[PlainPath(b, f.name)] = f.size /\ PlainPath(b, f.name) = <<job.src, f.name, NoVersion>>
    <3>1. PlainPath(b, f.name) = <<job.src, f.name, NoVersion>>
      BY <2>3 DEF PlainPath
    <3>2. PlainPath(b, f.name) \in DOMAIN disk
      BY <2>1, <3>1 DEF Copied, Twin
    <3>3. \A k \in queue : k.job.dest # b.name
      BY <1>1, <1>2, <1>3, <2>1, <2>3
    <3>4. QED
      BY <2>3, <3>1, <3>2, <3>3 DEF StoreSound, SourceContent
  <2>5. ~d.versioning => Stored(f, d)
    BY <2>1, <2>3, <2>4 DEF Stored, Copied, Twin, PlainPath, BlobPath
  <2>6. QED
    BY <2>2, <2>5
<1>6. QED
  BY <1>4, <1>5

LEMMA DoneInvariant ==
  ASSUME OneTask, Loud, \A s \in Stock : Settled(s)
  PROVE  Spec => []DoneInv
<1>1. Init => DoneInv
  BY SettledInit
<1>2. TaskInv /\ DoneInv /\ [Next]_vars => DoneInv'
  <2> SUFFICES ASSUME TaskInv, DoneInv, [Next]_vars PROVE DoneInv'
    OBVIOUS
  <2>0. TypeInv /\ OneJob /\ Solo /\ Prompt /\ FirstAttempt /\ StoreTypeOK
    BY DEF TaskInv, TypeInv, TypeOK
  <2>1. ASSUME NEW q \in Requesters, Ask(q) \/ Serve(q) \/ AskAborts(q)
        PROVE  DoneInv'
    BY <2>0, <2>1, AskKeepsDone
  <2>2. ASSUME NEW w \in Executors, Start(w) \/ Work(w) \/ Stops(w) \/ TimesOut(w)
        PROVE  DoneInv'
    BY <2>0, <2>2, RunKeepsDone
  <2>3. CASE DeleteEmptyBucket
    BY <2>0, <2>3, DropKeepsDone
  <2>4. CASE UNCHANGED vars
    <3>1. UNCHANGED <<storeVars, queue, run, faults, tasks, ask>>
      BY <2>4 DEF vars, storeVars
    <3>2. Wanted'
      BY <3>1 DEF DoneInv, StoreSound, Wanted
    <3>3. Reports'
      BY <2>0, <3>1, StandsSound DEF DoneInv, Reports
    <3>4. QED
      BY <2>0, <3>1, <3>2, <3>3, StandsSound DEF DoneInv, StoreSound
  <2>5. CASE ShutsDown
    BY <2>0, <2>5, ShutDownKeepsDone
  <2>6. QED
    BY <2>1, <2>2, <2>3, <2>4, <2>5 DEF Next
<1>3. QED
  BY <1>1, <1>2, TaskInvariant, PTL DEF Spec

\* With one task, and from a store the handlers have left without a failure, a row
\* that says "completed" is right: the emptied bucket has no rows and, without
\* versioning, no file under its name; every row of the copied one has its copy
\* and, without versioning, the whole file where a download looks.  That is so
\* however many attempts stopped half-way, were cut off by a shutdown, went on
\* after their timeout or found a bucket deleted - unless a copy is being repeated
\* that may cut its files short
THEOREM CompletedMeansDone ==
  ASSUME OneTask, Loud, \A s \in Stock : Settled(s)
  PROVE  Spec => []CompletedIsDone
<1>1. TaskInv /\ DoneInv => CompletedIsDone
  <2> SUFFICES ASSUME TaskInv, DoneInv, NEW t \in tasks, t.status = "completed"
               PROVE  JobDone(t.job) \/ Repeated(t.job)
    BY DEF CompletedIsDone
  <2>1. Through(t.job) \/ Repeated(t.job)
    BY DEF DoneInv, Reports
  <2>2. QED
    BY <2>1, ThroughIsDone DEF TaskInv, DoneInv
<1>2. QED
  BY <1>1, TaskInvariant, DoneInvariant, PTL

-----------------------------------------------------------------------------
(* Copies per attempt.  No matter what a copy that is cut short does to the   *)
(* files, and what the store had in them                                       *)

\* A store in which a bucket that is asked for as a destination is empty, and no
\* bucket has two rows of one name and version
Uncopied(s) ==
  /\ \A b \in s.buckets, f \in s.files : f.bucket = b.id => b.name \notin Targets
  /\ \A f, g \in s.files :
       f.bucket = g.bucket /\ f.name = g.name /\ f.version = g.version => f = g

\* The rows that an execution has before it are those of its source
CopyKnown(r) ==
  r # Idle =>
    /\ Known(r)
    /\ r.left \subseteq FilesIn(r.bucket)
    /\ r.job.src = r.job.dest => r.left = {}

SourceRows(job) == {f \in files : \E b \in Owned(job.user, job.src) : f.bucket = b.id}

CopyRows(job, f) == {g \in files : \E d \in Owned(job.user, job.dest) : g \in CopiesOf(f, d)}

\* An execution that may still insert a copy of the row
Owes(r, f) ==
  /\ r # Idle
  /\ \/ r.at \in {"source", "dest", "create", "list"}
     \/ f \in r.left /\ (r.at = "progress" => f # r.file)

Owing(f) == {w \in Executors : Owes(run[w], f)}

Busy == {w \in Executors : run[w] # Idle}

Awaited(m) == IF m.state = "pending" THEN 1 ELSE 0

\* The copies there are, those that executions still owe and that of the attempt
\* which is to come are together no more than the attempts
Counted(m, f) ==
  Cardinality(CopyRows(m.job, f)) + Cardinality(Owing(f)) + Awaited(m) <= Again(m) + 1

CopyInv ==
  /\ TablesOK /\ Wanted /\ DestFilled /\ Distinct /\ IsFiniteSet(Busy)
  /\ \A w \in Executors : CopyKnown(run[w])
  /\ \A m \in queue : \A f \in SourceRows(m.job) : Counted(m, f)

\* An emptying makes no copies
CopiesInv == (\E m \in queue : ~IsCopy(m.job)) \/ CopyInv

\* An execution of a copy still knows what it has read
LEMMA CopyKnownStays ==
  ASSUME StoreTypeOK, NEW r \in Runs, Staged(r), IsCopy(r.job), AddsRows(r.job), CopyKnown(r)
  PROVE  CopyKnown(r)'
<1>1. /\ Known(r) /\ r.left \subseteq FilesIn(r.bucket)
      /\ r.job.src = r.job.dest => r.left = {}
  BY DEF CopyKnown, Runs, Idle
<1>2. Known(r)'
  BY <1>1, KnownStays
<1>3. r.left \subseteq FilesIn(r.bucket)'
  BY <1>1 DEF FilesIn, AddsRows
<1>4. QED
  BY <1>1, <1>2, <1>3 DEF CopyKnown

\* A new row is the only one that may be a new copy, and none of the source
LEMMA NewRowsAreCopies ==
  ASSUME StoreTypeOK, TablesOK, TablesOK', NEW job, AddsRows(job), NEW f
  PROVE  /\ SourceRows(job)' \subseteq SourceRows(job)
         /\ CopyRows(job, f)' \subseteq CopyRows(job, f) \cup (files' \ files)
<1>1. ASSUME NEW b \in buckets', NEW g \in files, g.bucket = b.id
      PROVE  b \in buckets
  <2>1. PICK c \in buckets : g.bucket = c.id
    BY DEF TablesOK
  <2>2. c.id \in Nat /\ c.id < uuid /\ uuid \in Nat
    BY DEF TablesOK, StoreTypeOK, BucketRows
  <2>3. b.id # uuid
    BY <1>1, <2>1, <2>2
  <2>4. QED
    BY <2>3 DEF AddsRows
<1>2. ASSUME NEW g \in SourceRows(job)'
      PROVE  g \in SourceRows(job)
  <2>1. PICK b \in buckets' : /\ g \in files' /\ g.bucket = b.id
                              /\ b.name = job.src /\ b.owner = job.user
    BY <1>2 DEF SourceRows, Owned
  <2>2. g \in files
    BY <2>1 DEF AddsRows, TablesOK
  <2>3. b \in buckets
    BY <1>1, <2>1, <2>2
  <2>4. QED
    BY <2>1, <2>2, <2>3 DEF SourceRows, Owned
<1>3. ASSUME NEW g \in CopyRows(job, f)', g \in files
      PROVE  g \in CopyRows(job, f)
  <2>1. PICK d \in buckets' : /\ g.bucket = d.id /\ g.name = f.name
                              /\ g.version = f.version /\ g.size = f.size
                              /\ d.name = job.dest /\ d.owner = job.user
    BY <1>3 DEF CopyRows, Owned, CopiesOf, FilesIn
  <2>2. d \in buckets
    BY <1>1, <1>3, <2>1
  <2>3. QED
    BY <1>3, <2>1, <2>2 DEF CopyRows, Owned, CopiesOf, FilesIn
<1>4. QED
  BY <1>2, <1>3 DEF CopyRows

LEMMA RowsStand ==
  ASSUME StoreTypeOK, UNCHANGED <<buckets, files, uuid>>, NEW job
  PROVE  AddsRows(job) /\ \A r : CopyKnown(r) => CopyKnown(r)'
<1>1. AddsRows(job)
  BY DEF StoreTypeOK, AddsRows
<1>2. \A r : CopyKnown(r) => CopyKnown(r)'
  BY DEF CopyKnown, Known, FilesIn
<1>3. QED
  BY <1>1, <1>2

\* A step of a copy leaves the rows alone and brings no new debt, or inserts the
\* row that is owed
LEMMA CopyRunStep ==
  ASSUME TypeInv, OneJob, CopyInv, NEW w \in Executors, NEW m \in queue, IsCopy(m.job),
         run[w] # Idle, Work(w) \/ Stops(w) \/ TimesOut(w)
  PROVE  /\ AddsRows(m.job)
         /\ CopyKnown(run[w])'
         /\ \A f : Owes(run'[w], f) => Owes(run[w], f)
         /\ \/ files' = files
            \/ \E row : /\ files' = files \cup {row}
                        /\ row.name = run[w].file.name /\ row.version = run[w].file.version
                        /\ run[w].file \in run[w].left
                        /\ Owes(run[w], run[w].file) /\ ~Owes(run'[w], run[w].file)
<1>0. /\ run \in [Executors -> Runs \cup {Idle}] /\ StoreTypeOK /\ TablesOK
      /\ run[w] \in Runs /\ Staged(run[w]) /\ IsCopy(run[w].job) /\ run[w].job = m.job
      /\ CopyKnown(run[w])
  BY DEF TypeInv, TypeOK, TasksTypeOK, StagedRuns, OneJob, CopyInv
<1>1. PICK r : r = run[w]
  OBVIOUS
<1>2. PICK s : s = run'[w]
  OBVIOUS
<1>3. /\ r \in Runs /\ Staged(r) /\ IsCopy(r.job) /\ r.job = m.job /\ r # Idle
      /\ Known(r) /\ r.left \subseteq FilesIn(r.bucket)
      /\ r.job.src = r.job.dest => r.left = {}
  BY <1>0, <1>1 DEF CopyKnown
<1>4. ASSUME CopyKnown(s)'
      PROVE  CopyKnown(run[w])'
  BY <1>2, <1>4 DEF CopyKnown
<1>5. ASSUME UNCHANGED <<buckets, files, uuid>>, CopyKnown(s),
             \A f : Owes(s, f) => Owes(r, f)
      PROVE  /\ AddsRows(m.job) /\ CopyKnown(run[w])' /\ files' = files
             /\ \A f : Owes(run'[w], f) => Owes(run[w], f)
  BY <1>0, <1>1, <1>2, <1>4, <1>5, RowsStand
<1>6. ASSUME run'[w] = Idle
      PROVE  CopyKnown(s) /\ CopyKnown(run[w])' /\ \A f : ~Owes(run'[w], f)
  BY <1>2, <1>6 DEF CopyKnown, Owes
<1>7. CASE UNCHANGED <<buckets, files, uuid>> /\ run'[w] = Idle
  BY <1>1, <1>2, <1>5, <1>6, <1>7
<1>11. CASE FindSource(w) /\ run'[w] # Idle
  <2>1. UNCHANGED <<buckets, files, uuid>> /\ r.at = "source"
    BY <1>1, <1>11 DEF FindSource, storeVars
  <2>2. PICK b \in Sources(r.job) :
          run' = [run EXCEPT ![w].bucket = b,
                             ![w].at = IF IsCopy(r.job) THEN "dest" ELSE "list"]
    BY <1>0, <1>1, <1>11 DEF FindSource, Fails
  <2>3. b \in buckets /\ b.name = r.job.src
    BY <1>3, <2>2 DEF Sources, Owned
  <2>4. /\ s \in Runs /\ s.at = "dest" /\ s.bucket = b /\ s.job = r.job /\ s.left = r.left
    BY <1>0, <1>1, <1>2, <1>3, <2>1, <2>2, <2>3 DEF Runs, StoreTypeOK
  <2>5. r.left = {}
    BY <1>3, <2>1 DEF Known
  <2>6. CopyKnown(s)
    BY <1>0, <2>3, <2>4, <2>5 DEF CopyKnown, Known, TablesOK
  <2>7. \A f : Owes(r, f)
    BY <1>3, <2>1 DEF Owes
  <2>8. QED
    BY <1>5, <2>1, <2>6, <2>7
<1>12. CASE WorkerFindsDest(w)
  <2>1. UNCHANGED <<buckets, files, uuid>> /\ r.at = "dest"
    BY <1>1, <1>12 DEF WorkerFindsDest, storeVars
  <2>2. /\ s \in Runs /\ s.bucket = r.bucket /\ s.job = r.job /\ s.left = r.left
        /\ \/ s.at = "create"
           \/ s.at = "list" /\ s.dest \in Owned(r.job.user, r.job.dest)
    <3>1. CASE \E b \in Owned(r.job.user, r.job.dest) :
                 run' = [run EXCEPT ![w].dest = b, ![w].at = "list"]
      BY <1>0, <1>1, <1>2, <1>3, <2>1, <3>1 DEF Runs, StoreTypeOK, Owned
    <3>2. CASE run' = [run EXCEPT ![w].at = "create"]
      BY <1>0, <1>1, <1>2, <1>3, <2>1, <3>2 DEF Runs
    <3>3. QED
      BY <1>1, <1>12, <3>1, <3>2 DEF WorkerFindsDest
  <2>3. CopyKnown(s)
    BY <1>0, <1>3, <2>1, <2>2 DEF CopyKnown, Known, TablesOK, Owned
  <2>4. \A f : Owes(r, f)
    BY <1>3, <2>1 DEF Owes
  <2>5. QED
    BY <1>5, <2>1, <2>3, <2>4
<1>13. CASE WorkerCreatesDest(w)
  <2>1. r.at = "create" /\ UNCHANGED files
    BY <1>1, <1>13 DEF WorkerCreatesDest
  <2>2. PICK row : row = DestRow(r.job.user, r.job.dest, r.bucket)
    OBVIOUS
  <2>3. /\ row.id = uuid /\ row.name = m.job.dest /\ row.owner = r.job.user
        /\ row \in BucketRows
    BY <1>0, <1>3, <2>1, <2>2 DEF DestRow, Runs, Jobs, Staged, BucketRows, StoreTypeOK, IsCopy
  <2>4. CASE \E b \in buckets : b.name = row.name
    <3>1. UNCHANGED <<buckets, files, uuid>> /\ run'[w] = Idle
      BY <1>0, <1>1, <1>13, <2>1, <2>2, <2>4 DEF WorkerCreatesDest, InsertBucket, Fails
    <3>2. QED
      BY <1>7, <3>1
  <2>5. CASE ~\E b \in buckets : b.name = row.name
    <3>1. /\ buckets' = buckets \cup {row} /\ uuid' = uuid + 1
          /\ run' = [run EXCEPT ![w].dest = row, ![w].at = "list"]
      BY <1>1, <1>13, <2>2, <2>5 DEF WorkerCreatesDest, InsertBucket
    <3>2. /\ s \in Runs /\ s.bucket = r.bucket /\ s.job = r.job /\ s.left = r.left
          /\ s.at = "list" /\ s.dest = row
      BY <1>0, <1>1, <1>2, <1>3, <2>1, <2>3, <3>1 DEF Runs
    <3>3. uuid \in Nat /\ uuid' \in Nat /\ uuid < uuid' /\ uuid <= uuid'
      BY <1>0, <3>1 DEF StoreTypeOK
    <3>4. \A b \in buckets : b.id # uuid
      BY <1>0 DEF TablesOK, StoreTypeOK, BucketRows
    <3>5. AddsRows(m.job)
      BY <2>1, <2>3, <2>5, <3>1, <3>3, <3>4 DEF AddsRows
    <3>6. CopyKnown(r)'
      BY <1>0, <1>1, <1>3, <3>5, CopyKnownStays
    <3>7. CopyKnown(s)'
      <4>1. FilesIn(s.bucket)' = FilesIn(r.bucket)'
        BY <3>2 DEF FilesIn
      <4>2. s.dest.id < uuid' /\ \A b \in buckets' : b.id = s.dest.id => b = s.dest
        BY <2>3, <3>1, <3>2, <3>3, <3>4
      <4>3. Known(r)'
        BY <1>3, <3>6 DEF CopyKnown
      <4>4. Known(s)'
        BY <1>3, <2>1, <2>3, <3>2, <4>2, <4>3 DEF Known
      <4>5. QED
        BY <1>3, <3>2, <3>6, <4>1, <4>4 DEF CopyKnown
    <3>8. \A f : Owes(r, f)
      BY <1>3, <2>1 DEF Owes
    <3>9. QED
      BY <1>1, <1>2, <1>4, <2>1, <3>5, <3>7, <3>8
  <2>6. QED
    BY <2>4, <2>5
<1>14. CASE ListFiles(w)
  <2>1. UNCHANGED <<buckets, files, uuid>> /\ r.at = "list"
    BY <1>1, <1>14 DEF ListFiles, storeVars
  <2>2. /\ FilesIn(r.bucket) \in SUBSET FileRows /\ Cardinality(FilesIn(r.bucket)) \in Nat
    BY FilesFinite
  <2>3. run' = [run EXCEPT ![w] = [r EXCEPT !.at = "file", !.left = FilesIn(r.bucket),
                                            !.total = Cardinality(FilesIn(r.bucket))]]
    BY <1>1, <1>14 DEF ListFiles
  <2>4. /\ s \in Runs /\ s.at = "file" /\ s.bucket = r.bucket /\ s.job = r.job
        /\ s.left = FilesIn(r.bucket) /\ s.dest = r.dest
    BY <1>0, <1>2, <1>3, <2>1, <2>2, <2>3 DEF Runs
  <2>5. Known(s)
    BY <1>3, <2>1, <2>4 DEF Known
  <2>6. ASSUME m.job.src = m.job.dest, NEW f \in FilesIn(r.bucket)
        PROVE  FALSE
    <3>1. PICK b \in buckets : f.bucket = b.id
      BY <1>0, <2>6 DEF TablesOK, FilesIn
    <3>2. b = r.bucket /\ b.name = m.job.src
      BY <1>3, <2>1, <2>6, <3>1 DEF Known, FilesIn
    <3>3. b.name \in Targets
      BY <2>6, <3>2 DEF CopyInv, Wanted
    <3>4. \E n \in queue : n.job.src # n.job.dest
      BY <2>6, <3>1, <3>3 DEF CopyInv, DestFilled, FilesIn
    <3>5. QED
      BY <2>6, <3>4 DEF OneJob
  <2>7. m.job.src = m.job.dest => s.left = {}
    BY <2>4, <2>6
  <2>8. CopyKnown(s)
    BY <1>3, <2>4, <2>5, <2>7 DEF CopyKnown
  <2>9. \A f : Owes(r, f)
    BY <1>3, <2>1 DEF Owes
  <2>10. QED
    BY <1>5, <2>1, <2>8, <2>9
<1>15. CASE ReadFile(w) /\ run'[w] # Idle
  <2>1. UNCHANGED <<buckets, files, uuid>> /\ r.at = "file"
    BY <1>1, <1>15 DEF ReadFile, storeVars
  <2>2. PICK f \in r.left :
          /\ PlainPath(r.bucket, f.name) \in DOMAIN disk
          /\ run' = [run EXCEPT ![w].file = f,
                                ![w].content = disk[PlainPath(r.bucket, f.name)],
                                ![w].at = "write"]
    BY <1>0, <1>1, <1>15 DEF ReadFile, Fails
  <2>3. /\ s.at = "write" /\ s.bucket = r.bucket /\ s.job = r.job /\ s # Idle
        /\ s.left = r.left /\ s.dest = r.dest
    BY <1>0, <1>1, <1>2, <1>3, <1>15, <2>1, <2>2 DEF Runs
  <2>4. CopyKnown(s)
    BY <1>3, <2>1, <2>3 DEF CopyKnown, Known
  <2>5. \A g : Owes(s, g) => Owes(r, g)
    BY <1>3, <2>1, <2>3 DEF Owes
  <2>6. QED
    BY <1>5, <2>1, <2>4, <2>5
<1>16. CASE WriteFile(w)
  <2>1. r.at = "write" /\ UNCHANGED <<buckets, files, uuid>>
    BY <1>1, <1>16 DEF WriteFile
  <2>2. /\ s.at = "row" /\ s.bucket = r.bucket /\ s.job = r.job
        /\ s.left = r.left /\ s.dest = r.dest
    BY <1>0, <1>1, <1>2, <1>3, <1>16, <2>1 DEF WriteFile, Runs
  <2>3. CopyKnown(s)
    BY <1>3, <2>1, <2>2 DEF CopyKnown, Known
  <2>4. \A g : Owes(s, g) => Owes(r, g)
    BY <1>3, <2>1, <2>2 DEF Owes
  <2>5. QED
    BY <1>5, <2>1, <2>3, <2>4
<1>17. CASE InsertRow(w)
  <2>1. r.at = "row" /\ UNCHANGED buckets /\ uuid' = uuid + 1
    BY <1>1, <1>17 DEF InsertRow
  <2>2. PICK row : row = [r.file EXCEPT !.id = uuid, !.bucket = r.dest.id, !.latest = TRUE]
    OBVIOUS
  <2>3. r.file \in FileRows /\ uuid \in Nat /\ r.file \in r.left /\ r.dest \in BucketRows
    BY <1>0, <1>3, <2>1 DEF Runs, Staged, StoreTypeOK
  <2>4. /\ row.id = uuid /\ row.bucket = r.dest.id /\ row.name = r.file.name
        /\ row.version = r.file.version
    BY <2>2, <2>3 DEF FileRows
  <2>5. m.job.src # m.job.dest
    BY <1>3, <2>3
  <2>6. uuid' \in Nat /\ uuid <= uuid' /\ uuid < uuid'
    BY <2>1, <2>3
  <2>7. CASE ~\E b \in buckets : b.id = r.dest.id
    <3>1. UNCHANGED files /\ run'[w] = Idle
      BY <1>0, <1>1, <1>17, <2>2, <2>4, <2>7 DEF InsertRow, InsertFile, Fails
    <3>2. AddsRows(m.job)
      BY <2>1, <2>6, <3>1 DEF AddsRows
    <3>3. QED
      BY <1>6, <3>1, <3>2
  <2>8. CASE \E b \in buckets : b.id = r.dest.id
    <3>1. files' = files \cup {row} /\ run' = [run EXCEPT ![w].at = "progress"]
      BY <1>1, <1>17, <2>2, <2>4, <2>8 DEF InsertRow, InsertFile
    <3>2. r.dest \in buckets /\ r.dest.name = m.job.dest
      BY <1>3, <2>1, <2>8 DEF Known
    <3>3. \A f \in files : f.id # uuid
      BY <1>0 DEF TablesOK, StoreTypeOK, FileRows
    <3>4. AddsRows(m.job)
      <4>1. \A f \in files' \ files : f = row
        BY <3>1
      <4>2. \A g \in files' : g.id = row.id => g = row
        BY <2>4, <3>1, <3>3
      <4>3. QED
        BY <2>1, <2>4, <2>5, <2>6, <3>1, <3>2, <4>1, <4>2 DEF AddsRows
    <3>5. CopyKnown(r)'
      BY <1>0, <1>1, <1>3, <3>4, CopyKnownStays
    <3>6. /\ s \in Runs /\ s.at = "progress" /\ s.bucket = r.bucket /\ s.job = r.job
          /\ s.left = r.left /\ s.dest = r.dest /\ s.file = r.file
      BY <1>0, <1>1, <1>2, <1>3, <2>1, <3>1 DEF Runs
    <3>7. FilesIn(s.bucket)' = FilesIn(r.bucket)'
      BY <3>6 DEF FilesIn
    <3>8. CopyKnown(s)'
      BY <1>3, <2>1, <3>5, <3>6, <3>7 DEF CopyKnown, Known
    <3>9. /\ Owes(r, r.file) /\ ~Owes(s, r.file)
          /\ \A f : Owes(s, f) => Owes(r, f)
      BY <1>3, <2>1, <2>3, <3>6 DEF Owes
    <3>10. QED
      BY <1>1, <1>2, <1>4, <2>3, <2>4, <3>1, <3>4, <3>8, <3>9
  <2>9. QED
    BY <2>7, <2>8
<1>18. CASE Progress(w)
  <2>1. UNCHANGED <<buckets, files, uuid>> /\ r.at = "progress"
    BY <1>1, <1>18 DEF Progress, storeVars
  <2>2. /\ s.at = "file" /\ s.bucket = r.bucket /\ s.job = r.job
        /\ s.left = r.left \ {r.file} /\ s.dest = r.dest
    BY <1>0, <1>1, <1>2, <1>3, <1>18, <2>1 DEF Progress, Runs
  <2>3. CopyKnown(s)
    BY <1>3, <2>1, <2>2 DEF CopyKnown, Known
  <2>4. \A g : Owes(s, g) => Owes(r, g)
    BY <1>3, <2>1, <2>2 DEF Owes
  <2>5. QED
    BY <1>5, <2>1, <2>3, <2>4
<1>19. CASE Finish(w)
  <2>1. UNCHANGED <<buckets, files, uuid>> /\ r.at = "file" /\ r.left = {}
    BY <1>1, <1>19 DEF Finish, storeVars
  <2>2. /\ s.at = "ack" /\ s.bucket = r.bucket /\ s.job = r.job
        /\ s.left = r.left /\ s.dest = r.dest
    BY <1>0, <1>1, <1>2, <1>3, <1>19, <2>1 DEF Finish, Runs
  <2>3. CopyKnown(s)
    BY <1>3, <2>1, <2>2 DEF CopyKnown, Known
  <2>4. \A g : Owes(s, g) => Owes(r, g)
    BY <1>3, <2>1, <2>2 DEF Owes
  <2>5. QED
    BY <1>5, <2>1, <2>3, <2>4
<1>20. CASE TimesOut(w)
  <2>1. UNCHANGED <<buckets, files, uuid>>
    BY <1>20 DEF TimesOut, storeVars
  <2>2. /\ s.at = r.at /\ s.bucket = r.bucket /\ s.job = r.job
        /\ s.left = r.left /\ s.dest = r.dest /\ s.file = r.file
    BY <1>0, <1>1, <1>2, <1>3, <1>20, <2>1 DEF TimesOut, Runs
  <2>3. CopyKnown(s)
    BY <1>3, <2>1, <2>2 DEF CopyKnown, Known
  <2>4. \A g : Owes(s, g) => Owes(r, g)
    BY <1>3, <2>2 DEF Owes
  <2>5. QED
    BY <1>5, <2>1, <2>3, <2>4
<1>21. CASE Acknowledge(w) \/ Stops(w)
  <2>1. run'[w] = Idle
    BY <1>0, <1>21 DEF Acknowledge, Stops, Fails
  <2>2. UNCHANGED <<buckets, files, uuid>>
    BY <1>21 DEF Acknowledge, Stops, storeVars
  <2>3. QED
    BY <1>7, <2>1, <2>2
<1>22. CASE (FindSource(w) \/ ReadFile(w)) /\ run'[w] = Idle
  <2>1. UNCHANGED <<buckets, files, uuid>>
    BY <1>22 DEF FindSource, ReadFile, storeVars
  <2>2. QED
    BY <1>7, <1>22, <2>1
<1>23. ~RemoveFile(w) /\ ~DeleteRow(w)
  BY <1>0 DEF RemoveFile, DeleteRow
<1>24. QED
  BY <1>11, <1>12, <1>13, <1>14, <1>15, <1>16, <1>17, <1>18, <1>19, <1>20, <1>21, <1>22,
     <1>23 DEF Work

\* The sets that are counted are finite
LEMMA CountedSets ==
  ASSUME TypeInv, IsFiniteSet(Busy), NEW job, NEW f
  PROVE  /\ IsFiniteSet(CopyRows(job, f)) /\ Cardinality(CopyRows(job, f)) \in Nat
         /\ IsFiniteSet(Owing(f)) /\ Cardinality(Owing(f)) \in Nat
<1>1. CopyRows(job, f) \subseteq files /\ Owing(f) \subseteq Busy
  BY DEF CopyRows, Owing, Busy, Owes
<1>2. IsFiniteSet(CopyRows(job, f)) /\ IsFiniteSet(Owing(f))
  BY <1>1, FS_Subset DEF TypeInv
<1>3. QED
  BY <1>2, FS_CardinalityType

LEMMA OneMore ==
  ASSUME NEW S, IsFiniteSet(S), NEW x
  PROVE  /\ IsFiniteSet(S \cup {x}) /\ Cardinality(S \cup {x}) \in Nat
         /\ Cardinality(S \cup {x}) <= Cardinality(S) + 1
<1>1. /\ IsFiniteSet(S \cup {x})
      /\ Cardinality(S \cup {x}) = IF x \in S THEN Cardinality(S) ELSE Cardinality(S) + 1
  BY FS_AddElement
<1>2. Cardinality(S) \in Nat /\ Cardinality(S \cup {x}) \in Nat
  BY <1>1, FS_CardinalityType
<1>3. QED
  BY <1>1, <1>2

\* A new row that is a copy of a row of the source was owed by its execution
LEMMA OwnDebt ==
  ASSUME TypeInv, OneJob, CopyInv, NEW w \in Executors, NEW m \in queue, IsCopy(m.job),
         run[w] # Idle, run[w].file \in run[w].left, NEW f \in SourceRows(m.job),
         f.name = run[w].file.name, f.version = run[w].file.version
  PROVE  f = run[w].file
<1>1. PICK r : r = run[w]
  OBVIOUS
<1>2. /\ r.job = m.job /\ Known(r) /\ r.file \in r.left /\ r.left \subseteq FilesIn(r.bucket)
      /\ r.job.src = r.job.dest => r.left = {}
  BY <1>1 DEF OneJob, CopyInv, CopyKnown
<1>3. r.at # "source" /\ m.job.src # m.job.dest
  BY <1>2 DEF Known
<1>4. TablesOK /\ Distinct
  BY DEF CopyInv
<1>5. PICK c \in buckets :
        r.file \in files /\ r.file.bucket = r.bucket.id /\ c.id = r.bucket.id
  BY <1>2, <1>4 DEF FilesIn, TablesOK
<1>6. c.name = m.job.src
  BY <1>2, <1>3, <1>5 DEF Known
<1>7. PICK b \in buckets : f \in files /\ f.bucket = b.id /\ b.name = m.job.src
  BY DEF SourceRows, Owned
<1>8. b = c
  BY <1>4, <1>6, <1>7 DEF TablesOK
<1>9. ASSUME f # r.file
      PROVE  FALSE
  <2>1. PICK d \in buckets, k \in queue : d.id = f.bucket /\ d.name = k.job.dest
    BY <1>1, <1>4, <1>5, <1>7, <1>8, <1>9 DEF Distinct
  <2>2. d = b /\ k = m
    BY <1>4, <1>7, <2>1 DEF TablesOK, OneJob
  <2>3. QED
    BY <1>3, <1>7, <2>1, <2>2
<1>10. QED
  BY <1>1, <1>9

\* A copy of a row is inserted by an execution that owes it, and a message that is
\* put back counts
LEMMA CopyRunKeepsCount ==
  ASSUME TypeInv, TypeInv', OneJob, CopyInv, TablesOK', IsFiniteSet(Busy)',
         NEW w \in Executors, NEW m \in queue, IsCopy(m.job),
         Start(w) \/ Work(w) \/ Stops(w) \/ TimesOut(w),
         NEW n \in queue', NEW f \in SourceRows(m.job)'
  PROVE  Counted(n, f)'
<1>1. /\ queue = {m} /\ queue' = {n} /\ n.job = m.job /\ n.requeued = m.requeued
      /\ \/ n = m
         \/ n.tries > m.tries
         \/ n.tries = m.tries /\ n.state # "pending"
      /\ run[w] = Idle => m.state = "pending" /\ n = [m EXCEPT !.state = "active"]
      /\ \A v \in Executors \ {w} : run'[v] = run[v]
  <2>1. PICK k \in queue, l \in queue' :
           /\ queue = {k} /\ queue' = {l}
           /\ l.job = k.job /\ l.requeued = k.requeued
           /\ \/ l = k
              \/ l.tries > k.tries
              \/ l.tries = k.tries /\ l.state # "pending"
           /\ run[w] = Idle => k.state = "pending" /\ l = [k EXCEPT !.state = "active"]
           /\ \A v \in Executors \ {w} : run'[v] = run[v]
    BY MessageStep
  <2>2. k = m /\ l = n
    BY <2>1
  <2>3. QED
    BY <2>1, <2>2
<1>2. /\ m \in Messages /\ Again(m) \in Nat /\ Again(n) \in Nat
      /\ \/ n = m
         \/ Again(n) > Again(m)
         \/ Again(n) = Again(m) /\ n.state # "pending"
  <2>1. /\ m \in Messages /\ m.tries \in Nat /\ n.tries \in Nat
        /\ m.requeued \in Nat /\ n.requeued \in Nat
    BY DEF TypeInv, TypeOK, TasksTypeOK, Messages
  <2>2. QED
    BY <1>1, <2>1 DEF Again
<1>3. StoreTypeOK /\ TablesOK /\ IsFiniteSet(Busy)
  BY DEF TypeInv, TypeOK, CopyInv
<1>4. PICK C : C = CopyRows(m.job, f)
  OBVIOUS
<1>5. PICK D : D = CopyRows(n.job, f)'
  OBVIOUS
<1>6. PICK O : O = Owing(f)
  OBVIOUS
<1>7. PICK P : P = Owing(f)'
  OBVIOUS
<1>8. /\ IsFiniteSet(C) /\ Cardinality(C) \in Nat /\ IsFiniteSet(D) /\ Cardinality(D) \in Nat
      /\ IsFiniteSet(O) /\ Cardinality(O) \in Nat /\ IsFiniteSet(P) /\ Cardinality(P) \in Nat
  <2>1. /\ IsFiniteSet(C) /\ Cardinality(C) \in Nat
        /\ IsFiniteSet(O) /\ Cardinality(O) \in Nat
    BY <1>3, <1>4, <1>6, CountedSets
  <2>2. D \subseteq files' /\ P \subseteq Busy'
    BY <1>5, <1>7 DEF CopyRows, Owing, Busy, Owes
  <2>3. IsFiniteSet(D) /\ IsFiniteSet(P)
    BY <2>2, FS_Subset DEF TypeInv
  <2>4. QED
    BY <2>1, <2>3, FS_CardinalityType
<1>9. AddsRows(m.job)
  <2>1. CASE Start(w)
    <3>1. UNCHANGED <<buckets, files, uuid>>
      BY <2>1 DEF Start, storeVars
    <3>2. QED
      BY <1>3, <3>1, RowsStand
  <2>2. CASE ~Start(w)
    BY <2>2, CopyRunStep, IdleStarts
  <2>3. QED
    BY <2>1, <2>2
<1>10. f \in SourceRows(m.job) /\ D \subseteq C \cup (files' \ files)
  BY <1>1, <1>3, <1>4, <1>5, <1>9, NewRowsAreCopies
<1>11. Cardinality(C) + Cardinality(O) + Awaited(m) <= Again(m) + 1
  BY <1>4, <1>6, <1>10 DEF CopyInv, Counted
<1>12. SUFFICES Cardinality(D) + Cardinality(P) + Awaited(n) <= Again(n) + 1
  BY <1>5, <1>7 DEF Counted, Awaited, Again
<1>13. /\ Awaited(m) \in {0, 1} /\ Awaited(n) \in {0, 1}
       /\ m.state = "pending" => Awaited(m) = 1
       /\ n.state # "pending" => Awaited(n) = 0
  BY DEF Awaited
<1>14. CASE run[w] = Idle
  <2>1. Start(w)
    BY <1>14, IdleStarts
  <2>2. D \subseteq C
    BY <1>10, <2>1 DEF Start, storeVars
  <2>3. P \subseteq O \cup {w}
    BY <1>1, <1>6, <1>7 DEF Owing
  <2>4. Cardinality(D) <= Cardinality(C)
    BY <1>8, <2>2, FS_Subset
  <2>5. Cardinality(P) <= Cardinality(O) + 1
    <3>1. /\ IsFiniteSet(O \cup {w}) /\ Cardinality(O \cup {w}) \in Nat
          /\ Cardinality(O \cup {w}) <= Cardinality(O) + 1
      BY <1>8, OneMore
    <3>2. Cardinality(P) <= Cardinality(O \cup {w})
      BY <2>3, <3>1, FS_Subset
    <3>3. QED
      BY ONLY <1>8, <3>1, <3>2
  <2>6. Again(n) = Again(m) /\ Awaited(m) = 1 /\ Awaited(n) = 0
    BY <1>1, <1>2, <1>13, <1>14 DEF Messages, Again
  <2>7. QED
    BY ONLY <1>2, <1>8, <1>11, <2>4, <2>5, <2>6
<1>15. CASE run[w] # Idle
  <2>1. ~Start(w)
    BY <1>15 DEF Start
  <2>2. /\ \A g : Owes(run'[w], g) => Owes(run[w], g)
        /\ \/ files' = files
           \/ \E row : /\ files' = files \cup {row}
                       /\ row.name = run[w].file.name /\ row.version = run[w].file.version
                       /\ run[w].file \in run[w].left
                       /\ Owes(run[w], run[w].file) /\ ~Owes(run'[w], run[w].file)
    BY <1>15, <2>1, CopyRunStep
  <2>3. P \subseteq O
    BY <1>1, <1>6, <1>7, <2>2 DEF Owing
  <2>4. Cardinality(P) <= Cardinality(O)
    BY <1>8, <2>3, FS_Subset
  <2>5. Cardinality(D) + Cardinality(P) <= Cardinality(C) + Cardinality(O)
    <3>1. CASE D \subseteq C
      <4>1. Cardinality(D) <= Cardinality(C)
        BY <1>8, <3>1, FS_Subset
      <4>2. QED
        BY ONLY <1>8, <2>4, <4>1
    <3>2. CASE ~(D \subseteq C)
      <4>1. PICK row : /\ files' = files \cup {row}
                       /\ row.name = run[w].file.name /\ row.version = run[w].file.version
                       /\ run[w].file \in run[w].left
                       /\ Owes(run[w], run[w].file) /\ ~Owes(run'[w], run[w].file)
        BY <1>10, <2>2, <3>2
      <4>2. D \subseteq C \cup {row} /\ row \in D
        BY <1>10, <3>2, <4>1
      <4>3. f.name = row.name /\ f.version = row.version
        BY <1>5, <4>2 DEF CopyRows, CopiesOf
      <4>4. f = run[w].file
        BY <1>10, <1>15, <4>1, <4>3, OwnDebt
      <4>5. w \in O /\ P \subseteq O \ {w}
        BY <1>6, <1>7, <2>3, <4>1, <4>4 DEF Owing
      <4>6. /\ IsFiniteSet(O \ {w}) /\ Cardinality(O \ {w}) = Cardinality(O) - 1
        BY <1>8, <4>5, FS_RemoveElement
      <4>7. Cardinality(P) <= Cardinality(O \ {w})
        BY <4>5, <4>6, FS_Subset
      <4>8. /\ IsFiniteSet(C \cup {row}) /\ Cardinality(C \cup {row}) \in Nat
            /\ Cardinality(C \cup {row}) <= Cardinality(C) + 1
        BY <1>8, OneMore
      <4>9. Cardinality(D) <= Cardinality(C \cup {row})
        BY <4>2, <4>8, FS_Subset
      <4>10. QED
        BY ONLY <1>8, <4>6, <4>7, <4>8, <4>9
    <3>3. QED
      BY <3>1, <3>2
  <2>6. CASE Again(n) > Again(m)
    BY ONLY <1>2, <1>8, <1>11, <1>13, <2>5, <2>6
  <2>7. CASE n = m
    BY ONLY <1>2, <1>8, <1>11, <1>13, <2>5, <2>7
  <2>8. CASE Again(n) = Again(m) /\ n.state # "pending"
    BY ONLY <1>2, <1>8, <1>11, <1>13, <2>5, <2>8
  <2>9. QED
    BY <1>2, <2>6, <2>7, <2>8
<1>16. QED
  BY <1>14, <1>15

\* The steps of the executions
LEMMA RunKeepsCopies ==
  ASSUME TypeInv, TypeInv', OneJob, CopyInv, NEW w \in Executors,
         Start(w) \/ Work(w) \/ Stops(w) \/ TimesOut(w), \A m \in queue : IsCopy(m.job)
  PROVE  CopyInv'
<1>1. PICK m \in queue, n \in queue' :
         /\ queue = {m} /\ queue' = {n} /\ n.job = m.job
         /\ \A v \in Executors \ {w} : run'[v] = run[v]
  BY MessageStep
<1>2. IsCopy(m.job) /\ StoreTypeOK /\ TablesOK /\ DestFilled /\ Distinct
  BY DEF CopyInv, TypeInv, TypeOK
<1>3. ask' = ask
  BY RowStep
<1>4. AddsRows(m.job) /\ CopyKnown(run[w])'
  <2>1. CASE Start(w)
    <3>1. UNCHANGED <<buckets, files, uuid>>
      BY <2>1 DEF Start, storeVars
    <3>2. PICK k \in queue :
            run' = [run EXCEPT ![w] =
                       [at |-> "source", job |-> k.job, late |-> FALSE,
                        bucket |-> NoRow, dest |-> NoRow, left |-> {}, total |-> 0,
                        file |-> NoRow, content |-> Torn]]
      BY <2>1, Zenon DEF Start
    <3>3. run'[w].at = "source" /\ run'[w].left = {}
      BY <3>2 DEF TypeInv, TypeOK, TasksTypeOK
    <3>4. CopyKnown(run[w])'
      BY <3>3 DEF CopyKnown, Known
    <3>5. QED
      BY <1>2, <3>1, <3>4, RowsStand
  <2>2. CASE ~Start(w)
    BY <1>2, <2>2, CopyRunStep, IdleStarts
  <2>3. QED
    BY <2>1, <2>2
<1>5. TablesOK' /\ DestFilled' /\ Distinct'
  BY <1>1, <1>2, <1>4, AddsKeepsTables
<1>6. Wanted'
  BY <1>1, <1>3 DEF CopyInv, Wanted
<1>7. IsFiniteSet(Busy)'
  <2>1. IsFiniteSet(Busy \cup {w})
    BY OneMore DEF CopyInv
  <2>2. Busy' \subseteq Busy \cup {w}
    BY <1>1 DEF Busy
  <2>3. QED
    BY <2>1, <2>2, FS_Subset
<1>8. ASSUME NEW v \in Executors
      PROVE  CopyKnown(run[v])'
  <2>1. CASE v = w
    BY <1>4, <2>1
  <2>2. CASE v # w
    <3>1. PICK r : r = run[v]
      OBVIOUS
    <3>2. r = run'[v] /\ CopyKnown(r)
      BY <1>1, <2>2, <3>1 DEF CopyInv
    <3>3. r # Idle => r \in Runs /\ Staged(r) /\ r.job = m.job
      BY <1>1, <3>1 DEF TypeInv, StagedRuns, OneJob
    <3>4. CopyKnown(r)'
      BY <1>2, <1>4, <3>2, <3>3, CopyKnownStays DEF CopyKnown
    <3>5. QED
      BY <3>2, <3>4 DEF CopyKnown
  <2>3. QED
    BY <2>1, <2>2
<1>9. ASSUME NEW k \in queue', NEW f \in SourceRows(k.job)'
      PROVE  Counted(k, f)'
  <2>1. k = n /\ f \in SourceRows(m.job)'
    BY <1>1, <1>9
  <2>2. QED
    BY <1>2, <1>5, <1>7, <2>1, CopyRunKeepsCount
<1>10. QED
  BY <1>5, <1>6, <1>7, <1>8, <1>9 DEF CopyInv

\* A store with its message and executions that stays as it is
LEMMA CopiesStand ==
  ASSUME CopyInv, UNCHANGED <<buckets, files, uuid, queue, run>>, Wanted'
  PROVE  CopyInv'
<1>1. TablesOK' /\ DestFilled' /\ Distinct' /\ IsFiniteSet(Busy)'
  BY DEF CopyInv, TablesOK, DestFilled, Distinct, Busy
<1>2. \A w \in Executors : CopyKnown(run[w])'
  BY DEF CopyInv, CopyKnown, Known, FilesIn
<1>3. \A job, f : /\ SourceRows(job)' = SourceRows(job) /\ CopyRows(job, f)' = CopyRows(job, f)
                  /\ Owing(f)' = Owing(f)
  BY DEF SourceRows, CopyRows, Owned, CopiesOf, FilesIn, Owing
<1>4. \A m \in queue' : \A f \in SourceRows(m.job)' : Counted(m, f)'
  BY <1>3 DEF CopyInv, Counted, Awaited
<1>5. QED
  BY <1>1, <1>2, <1>4 DEF CopyInv

\* Before there is a message nothing runs, and no destination has a row
LEMMA NothingRuns ==
  ASSUME OneJob, CopyInv, queue = {}
  PROVE  /\ \A w \in Executors : run[w] = Idle
         /\ \A b \in buckets, f \in files : f.bucket = b.id => b.name \notin Targets
         /\ \A f, g \in files :
              f.bucket = g.bucket /\ f.name = g.name /\ f.version = g.version => f = g
<1>1. \A w \in Executors : run[w] = Idle
  BY DEF OneJob
<1>2. DestFilled /\ Distinct
  BY DEF CopyInv
<1>3. QED
  BY <1>1, <1>2 DEF DestFilled, Distinct

\* The steps of the requests
LEMMA AskKeepsCopies ==
  ASSUME TypeInv, TypeInv', OneJob, CopyInv, NEW q \in Requesters,
         Ask(q) \/ Serve(q) \/ AskAborts(q)
  PROVE  CopyInv'
<1>0. /\ ask \in [Requesters -> Asks \cup {Idle}] /\ StoreTypeOK /\ TablesOK
      /\ ask[q] # Idle => ask[q] \in Asks /\ ask[q].dest \in Targets
      /\ uuid \in Nat /\ uuid + 1 \in Nat /\ uuid < uuid + 1
      /\ \A p \in Requesters : ask[p] # Idle => ask[p].dest \in Targets
      /\ \A m \in queue : m.job.dest \in Targets
  BY DEF TypeInv, TypeOK, TasksTypeOK, StoreTypeOK, CopyInv, Wanted
<1>1. CASE Ask(q)
  <2>1. PICK dest \in Targets : \E at, bucket :
          ask' = [ask EXCEPT ![q] = [at |-> at, bucket |-> bucket, dest |-> dest, id |-> 0]]
    BY <1>1 DEF Ask
  <2>2. UNCHANGED <<buckets, files, uuid, queue, run>>
    BY <1>1 DEF Ask, storeVars
  <2>3. Wanted'
    BY <1>0, <2>1, <2>2 DEF Wanted
  <2>4. QED
    BY <2>2, <2>3, CopiesStand
<1>2. CASE FindDest(q) \/ Record(q) \/ AskAborts(q)
  <2>1. UNCHANGED <<buckets, files, uuid, queue, run>> /\ ask[q] # Idle
    BY <1>2 DEF FindDest, Record, AskAborts, storeVars, Idle
  <2>2. \/ \E at : ask' = [ask EXCEPT ![q].at = at]
        \/ ask' = [ask EXCEPT ![q] = Idle]
    BY <1>2 DEF FindDest, Record, AskAborts
  <2>3. \A p \in Requesters : ask'[p] # Idle => ask[p] # Idle /\ ask'[p].dest = ask[p].dest
    BY <1>0, <2>1, <2>2 DEF Asks
  <2>4. Wanted'
    BY <1>0, <2>1, <2>3 DEF Wanted
  <2>5. QED
    BY <2>1, <2>4, CopiesStand
<1>3. CASE CreateDest(q)
  <2>1. ask[q] # Idle /\ ask[q].at = "create" /\ queue = {}
    BY <1>3 DEF CreateDest, Idle, OneJob
  <2>2. PICK row : row = DestRow(ask[q].bucket.owner, ask[q].dest, ask[q].bucket)
    OBVIOUS
  <2>3. row.id = uuid /\ row.name = ask[q].dest
    BY <2>2 DEF DestRow
  <2>4. UNCHANGED <<files, queue, run>>
    BY <1>3 DEF CreateDest
  <2>5. \/ ask' = [ask EXCEPT ![q] = Idle]
        \/ ask' = [ask EXCEPT ![q].at = "enqueue"]
    BY <1>3 DEF CreateDest
  <2>6. Wanted'
    BY <1>0, <2>1, <2>4, <2>5 DEF Wanted, Asks
  <2>7. CASE \E b \in buckets : b.name = ask[q].dest
    <3>1. UNCHANGED <<buckets, uuid>>
      BY <1>3, <2>2, <2>3, <2>7 DEF CreateDest, InsertBucket
    <3>2. QED
      BY <2>4, <2>6, <3>1, CopiesStand
  <2>8. CASE ~\E b \in buckets : b.name = ask[q].dest
    <3>1. buckets' = buckets \cup {row} /\ uuid' = uuid + 1
      BY <1>3, <2>2, <2>3, <2>8 DEF CreateDest, InsertBucket
    <3>2. \A b \in buckets : b.id # uuid
      BY <1>0 DEF TablesOK, StoreTypeOK, BucketRows
    <3>3. TablesOK'
      <4>1. \A b, c \in buckets' : b.id = c.id \/ b.name = c.name => b = c
        BY <1>0, <2>3, <2>8, <3>1, <3>2 DEF TablesOK
      <4>2. \A b \in buckets' : b.id < uuid'
        BY <1>0, <2>3, <3>1 DEF TablesOK, StoreTypeOK, BucketRows
      <4>3. \A f \in files' : f.id < uuid' /\ \E b \in buckets' : f.bucket = b.id
        BY <1>0, <2>4, <3>1 DEF TablesOK, StoreTypeOK, FileRows
      <4>4. \A f, g \in files' : f.id = g.id => f = g
        BY <1>0, <2>4 DEF TablesOK
      <4>5. QED
        BY <4>1, <4>2, <4>3, <4>4 DEF TablesOK
    <3>4. \A f \in files : f.bucket # row.id
      BY <1>0, <2>3, <3>2 DEF TablesOK
    <3>5. DestFilled'
      BY <2>1, <2>4, <3>1, <3>4, NothingRuns DEF DestFilled
    <3>6. Distinct'
      BY <2>1, <2>4, NothingRuns DEF Distinct
    <3>7. IsFiniteSet(Busy)' /\ \A w \in Executors : CopyKnown(run[w])'
      BY <2>1, <2>4, NothingRuns DEF CopyInv, Busy, CopyKnown
    <3>8. QED
      BY <2>1, <2>4, <2>6, <3>3, <3>5, <3>6, <3>7 DEF CopyInv
  <2>9. QED
    BY <2>7, <2>8
<1>4. CASE Enqueue(q)
  <2>1. ask[q] # Idle /\ ask[q].at = "enqueue" /\ queue = {}
    BY <1>4 DEF Enqueue, Idle, OneJob
  <2>2. PICK m : m = [job |-> [JobOf(q) EXCEPT !.id = uuid], tries |-> 0,
                      requeued |-> 0, state |-> "pending"]
    OBVIOUS
  <2>3. /\ ask' = [ask EXCEPT ![q].at = "record", ![q].id = uuid]
        /\ queue' = {m} /\ uuid' = uuid + 1 /\ UNCHANGED <<buckets, files, run>>
    BY <1>4, <2>1, <2>2 DEF Enqueue
  <2>4. m.job.dest = ask[q].dest /\ Again(m) = 0 /\ m.state = "pending"
    BY <2>2 DEF JobOf, Again
  <2>5. \A p \in Requesters : ask'[p] # Idle => ask[p] # Idle /\ ask'[p].dest = ask[p].dest
    BY <1>0, <2>1, <2>3 DEF Asks
  <2>6. Wanted'
    BY <1>0, <2>1, <2>3, <2>4, <2>5 DEF Wanted
  <2>7. TablesOK'
    BY <1>0, <2>3 DEF TablesOK, StoreTypeOK, BucketRows, FileRows
  <2>8. DestFilled' /\ Distinct'
    BY <2>1, <2>3, NothingRuns DEF DestFilled, Distinct
  <2>9. IsFiniteSet(Busy)' /\ \A w \in Executors : CopyKnown(run[w])'
    BY <2>1, <2>3, NothingRuns DEF CopyInv, Busy, CopyKnown
  <2>10. ASSUME NEW f \in SourceRows(m.job)'
         PROVE  Counted(m, f)'
    <3>1. CopyRows(m.job, f)' = {}
      BY <1>0, <2>1, <2>3, <2>4, NothingRuns DEF CopyRows, Owned, CopiesOf, FilesIn
    <3>2. Owing(f)' = {}
      BY <2>1, <2>3, NothingRuns DEF Owing, Owes
    <3>3. Cardinality({}) = 0
      BY FS_EmptySet
    <3>4. QED
      BY <2>4, <3>1, <3>2, <3>3 DEF Counted, Awaited, Again
  <2>11. QED
    BY <2>3, <2>6, <2>7, <2>8, <2>9, <2>10 DEF CopyInv
<1>5. QED
  BY <1>1, <1>2, <1>3, <1>4 DEF Serve

\* An empty bucket that is deleted takes no row with it
LEMMA DropKeepsCopies ==
  ASSUME TypeInv, TypeInv', OneJob, CopyInv, DeleteEmptyBucket, \A m \in queue : IsCopy(m.job)
  PROVE  CopyInv'
<1>1. PICK b \in buckets : FilesIn(b) = {} /\ DropBucket(b.id)
  BY DEF DeleteEmptyBucket
<1>2. PICK m \in queue : queue = {m}
  BY DEF DeleteEmptyBucket, OneJob
<1>3. /\ UNCHANGED <<files, uuid, queue, ask, run>>
      /\ buckets' = {c \in buckets : c.id # b.id}
      /\ \A f \in files : f.bucket # b.id
  BY <1>1 DEF DeleteEmptyBucket, DropBucket, FilesIn
<1>4. StoreTypeOK /\ TablesOK /\ DestFilled /\ Distinct /\ IsCopy(m.job)
  BY DEF CopyInv, TypeInv, TypeOK
<1>5. AddsRows(m.job)
  BY <1>3, <1>4 DEF AddsRows, StoreTypeOK
<1>6. TablesOK' /\ DestFilled' /\ Distinct'
  BY <1>2, <1>3, <1>4, <1>5, AddsKeepsTables
<1>7. Wanted' /\ IsFiniteSet(Busy)'
  BY <1>3 DEF CopyInv, Wanted, Busy
<1>8. ASSUME NEW w \in Executors
      PROVE  CopyKnown(run[w])'
  <2>1. PICK r : r = run[w]
    OBVIOUS
  <2>2. r = run'[w] /\ CopyKnown(r)
    BY <1>3, <2>1 DEF CopyInv
  <2>3. r # Idle => r \in Runs /\ Staged(r) /\ r.job = m.job
    BY <1>2, <2>1 DEF TypeInv, StagedRuns, OneJob
  <2>4. CopyKnown(r)'
    BY <1>4, <1>5, <2>2, <2>3, CopyKnownStays DEF CopyKnown
  <2>5. QED
    BY <2>2, <2>4 DEF CopyKnown
<1>9. ASSUME NEW f \in SourceRows(m.job)'
      PROVE  Counted(m, f)'
  <2>1. f \in SourceRows(m.job) /\ CopyRows(m.job, f)' \subseteq CopyRows(m.job, f)
    BY <1>3, <1>4, <1>5, <1>6, NewRowsAreCopies
  <2>2. Counted(m, f)
    BY <2>1 DEF CopyInv
  <2>3. PICK C : C = CopyRows(m.job, f)
    OBVIOUS
  <2>4. PICK D : D = CopyRows(m.job, f)'
    OBVIOUS
  <2>5. /\ IsFiniteSet(C) /\ Cardinality(C) \in Nat /\ Cardinality(Owing(f)) \in Nat
    BY <2>3, CountedSets DEF CopyInv
  <2>6. Cardinality(D) \in Nat /\ Cardinality(D) <= Cardinality(C)
    BY <2>1, <2>3, <2>4, <2>5, FS_Subset, FS_CardinalityType
  <2>7. Owing(f)' = Owing(f)
    BY <1>3 DEF Owing
  <2>8. Again(m) \in Nat /\ Awaited(m) \in Nat
    BY DEF TypeInv, TypeOK, TasksTypeOK, Messages, Again, Awaited
  <2>9. Cardinality(C) + Cardinality(Owing(f)) + Awaited(m) <= Again(m) + 1
    BY <2>2, <2>3 DEF Counted
  <2>10. Cardinality(D) + Cardinality(Owing(f)) + Awaited(m) <= Again(m) + 1
    BY ONLY <2>5, <2>6, <2>8, <2>9
  <2>11. QED
    BY <2>4, <2>7, <2>10 DEF Counted, Awaited, Again
<1>10. \A k \in queue' : k = m
  BY <1>2, <1>3
<1>11. QED
  BY <1>6, <1>7, <1>8, <1>9, <1>10 DEF CopyInv

\* A message that a shutdown puts back counts, and no execution is left
LEMMA ShutDownKeepsCopies ==
  ASSUME TypeInv, OneJob, CopyInv, ShutsDown
  PROVE  CopyInv'
<1>1. /\ UNCHANGED <<buckets, files, uuid, ask>>
      /\ \A w \in Executors : run'[w] = Idle
      /\ queue = {} => queue' = {}
      /\ \A m \in queue : \E n \in queue' : queue = {m} /\ queue' = {n} /\ n.job = m.job
  BY ShutDownStep
<1>2. TablesOK' /\ (Wanted /\ DestFilled /\ Distinct)'
  BY <1>1 DEF CopyInv, TablesOK, Wanted, DestFilled, Distinct
<1>3. IsFiniteSet(Busy)' /\ \A w \in Executors : CopyKnown(run[w])'
  <2>1. Busy' = {}
    BY <1>1 DEF Busy
  <2>2. QED
    BY <1>1, <2>1, FS_EmptySet DEF CopyKnown
<1>4. ASSUME NEW n \in queue', NEW f \in SourceRows(n.job)'
      PROVE  Counted(n, f)'
  <2>1. PICK m \in queue :
          /\ queue' = {n} /\ n.job = m.job /\ n.tries = m.tries
          /\ m.tries \in Nat /\ m.requeued \in Nat
          /\ \/ n = m /\ m.state # "active"
             \/ /\ m.state = "active" /\ n.state = "pending"
                /\ n.requeued = m.requeued + 1
    BY <1>1, ShutDownStep
  <2>2. f \in SourceRows(m.job) /\ CopyRows(n.job, f)' = CopyRows(m.job, f)
    BY <1>1, <2>1 DEF SourceRows, CopyRows, Owned, CopiesOf, FilesIn
  <2>3. PICK C : C = CopyRows(m.job, f)
    OBVIOUS
  <2>4. Cardinality(C) + Cardinality(Owing(f)) + Awaited(m) <= Again(m) + 1
    BY <2>2, <2>3 DEF CopyInv, Counted
  <2>5. Cardinality(C) \in Nat /\ Cardinality(Owing(f)) \in Nat
    BY <2>3, CountedSets DEF CopyInv
  <2>6. Owing(f)' = {} /\ Cardinality({}) = 0
    BY <1>1, FS_EmptySet DEF Owing, Owes
  <2>7. /\ Again(m) \in Nat /\ Awaited(m) \in {0, 1} /\ Awaited(n) \in {0, 1}
        /\ \/ Again(n) = Again(m) /\ Awaited(n) = Awaited(m)
           \/ Again(n) = Again(m) + 1
    BY <2>1 DEF Again, Awaited
  <2>8. Cardinality(C) + 0 + Awaited(n) <= Again(n) + 1
    BY ONLY <2>4, <2>5, <2>7
  <2>9. QED
    BY <2>2, <2>3, <2>6, <2>8 DEF Counted, Awaited, Again
<1>5. QED
  BY <1>2, <1>3, <1>4 DEF CopyInv

LEMMA CopiesInvariant ==
  ASSUME OneTask, \A s \in Stock : Uncopied(s)
  PROVE  Spec => []CopiesInv
<1>1. Init => CopiesInv
  <2> SUFFICES ASSUME Init PROVE CopyInv
    BY DEF CopiesInv
  <2>1. PICK s \in Stock : buckets = s.buckets /\ files = s.files /\ uuid = s.uuid
    BY DEF Init
  <2>2. StoreOK(s) /\ Uncopied(s)
    BY <2>1, StockAssumption
  <2>3. /\ queue = {}
        /\ \A q \in Requesters : ask[q] = Idle
        /\ \A w \in Executors : run[w] = Idle
    BY DEF Init, TasksInit
  <2>4. TablesOK
    BY <2>1, <2>2 DEF StoreOK, TablesOK
  <2>5. Wanted /\ DestFilled /\ Distinct
    BY <2>1, <2>2, <2>3 DEF Uncopied, Wanted, DestFilled, Distinct
  <2>6. Busy = {} /\ \A w \in Executors : CopyKnown(run[w])
    BY <2>3 DEF Busy, CopyKnown
  <2>7. IsFiniteSet(Busy)
    BY <2>6, FS_EmptySet
  <2>8. QED
    BY <2>3, <2>4, <2>5, <2>6, <2>7 DEF CopyInv
<1>2. TaskInv /\ TaskInv' /\ CopiesInv /\ [Next]_vars => CopiesInv'
  <2> SUFFICES ASSUME TaskInv, TaskInv', CopiesInv, [Next]_vars PROVE CopiesInv'
    OBVIOUS
  <2>0. TypeInv /\ TypeInv' /\ OneJob
    BY DEF TaskInv
  <2>1. CASE \E m \in queue : ~IsCopy(m.job)
    <3>1. PICK m \in queue : ~IsCopy(m.job)
      BY <2>1
    <3>2. ASSUME NEW w \in Executors, Start(w) \/ Work(w) \/ Stops(w) \/ TimesOut(w)
          PROVE  \E n \in queue' : ~IsCopy(n.job)
      BY <2>0, <3>1, <3>2, MessageStep
    <3>3. CASE UNCHANGED queue
      BY <3>1, <3>3 DEF CopiesInv
    <3>4. CASE \E q \in Requesters : Enqueue(q)
      BY <3>1, <3>4 DEF Enqueue, CopiesInv
    <3>5. CASE ShutsDown
      <4>1. \E n \in queue' : n.job = m.job
        BY <2>0, <3>1, <3>5, ShutDownStep
      <4>2. QED
        BY <3>1, <4>1 DEF CopiesInv
    <3>6. QED
      BY <3>2, <3>3, <3>4, <3>5
         DEF CopiesInv, Next, Serve, vars, Ask, FindDest, CreateDest, Record, AskAborts,
             DeleteEmptyBucket
  <2>2. CASE CopyInv /\ \A m \in queue : IsCopy(m.job)
    <3>1. ASSUME NEW q \in Requesters, Ask(q) \/ Serve(q) \/ AskAborts(q)
          PROVE  CopyInv'
      BY <2>0, <2>2, <3>1, AskKeepsCopies
    <3>2. ASSUME NEW w \in Executors, Start(w) \/ Work(w) \/ Stops(w) \/ TimesOut(w)
          PROVE  CopyInv'
      BY <2>0, <2>2, <3>2, RunKeepsCopies
    <3>3. CASE DeleteEmptyBucket
      BY <2>0, <2>2, <3>3, DropKeepsCopies DEF CopiesInv
    <3>4. CASE UNCHANGED vars
      <4>1. UNCHANGED <<buckets, files, uuid, queue, run, ask>>
        BY <3>4 DEF vars
      <4>2. Wanted'
        BY <2>2, <4>1 DEF CopyInv, Wanted
      <4>3. QED
        BY <2>2, <4>1, <4>2, CopiesStand DEF CopiesInv
    <3>5. CASE ShutsDown
      BY <2>0, <2>2, <3>5, ShutDownKeepsCopies DEF CopiesInv
    <3>6. QED
      BY <3>1, <3>2, <3>3, <3>4, <3>5 DEF CopiesInv, Next
  <2>3. QED
    BY <2>1, <2>2 DEF CopiesInv
<1>3. QED
  BY <1>1, <1>2, TaskInvariant, PTL DEF Spec

\* A copy inserts a row again only in another attempt, whatever attempts failed
\* half-way, were cut off by a shutdown or went on after their timeout, and
\* whatever was deleted meanwhile: a row of the source has one copy for each time
\* the task was taken up at most, be it after a retry or after a shutdown
THEOREM OneCopyPerAttempt ==
  ASSUME OneTask, \A s \in Stock : Uncopied(s)
  PROVE  Spec => []CopiesPerAttempt
<1>1. TaskInv /\ CopiesInv => CopiesPerAttempt
  <2> SUFFICES ASSUME TaskInv, CopiesInv, NEW m \in queue,
                      NEW b \in Owned(m.job.user, m.job.src),
                      NEW d \in Owned(m.job.user, m.job.dest), NEW f \in FilesIn(b)
               PROVE  Cardinality(CopiesOf(f, d)) <= Again(m) + 1
    BY DEF CopiesPerAttempt
  <2>0. TypeInv /\ OneJob
    BY DEF TaskInv
  <2>1. m \in Messages /\ d.name \in Names
    BY <2>0 DEF TypeInv, TypeOK, TasksTypeOK, StoreTypeOK, Owned, BucketRows
  <2>2. IsCopy(m.job)
    BY <2>1, DestAssumption DEF IsCopy, Owned
  <2>3. CopyInv
    BY <2>0, <2>2 DEF CopiesInv, OneJob
  <2>4. Counted(m, f)
    BY <2>3 DEF CopyInv, SourceRows, FilesIn
  <2>5. CopiesOf(f, d) \subseteq CopyRows(m.job, f)
    BY DEF CopyRows, CopiesOf, FilesIn
  <2>6. /\ IsFiniteSet(CopyRows(m.job, f)) /\ Cardinality(CopyRows(m.job, f)) \in Nat
        /\ Cardinality(Owing(f)) \in Nat
    BY <2>0, <2>3, CountedSets DEF CopyInv
  <2>7. /\ Cardinality(CopiesOf(f, d)) \in Nat
        /\ Cardinality(CopiesOf(f, d)) <= Cardinality(CopyRows(m.job, f))
    BY <2>5, <2>6, FS_Subset, FS_CardinalityType
  <2>8. Again(m) \in Nat /\ Awaited(m) \in Nat
    BY <2>1 DEF Messages, Again, Awaited
  <2>9. Cardinality(CopyRows(m.job, f)) + Cardinality(Owing(f)) + Awaited(m) <= Again(m) + 1
    BY <2>4 DEF Counted
  <2>10. QED
    BY ONLY <2>6, <2>7, <2>8, <2>9
<1>2. QED
  BY <1>1, TaskInvariant, CopiesInvariant, PTL

-----------------------------------------------------------------------------
(* The attempts at one task together are one job                              *)

\* The files that are still to be dealt with
Due(job) == {f \in SourceRows(job) : IsCopy(job) => CopyRows(job, f) = {}}

StateOf(m) ==
  CASE m.state = "done"     -> "done"
    [] m.state = "archived" -> "failed"
    [] OTHER                -> "accepted"

\* With one message the abstract task is read from it and its job
LEMMA OneBar ==
  ASSUME NEW m, queue = {m}
  PROVE  stateBar = StateOf(m) /\ todoBar = {f.id : f \in Due(m.job)}
<1>1. stateBar = StateOf(m)
  BY DEF stateBar, StateOf
<1>2. \A f \in files :
        /\ (\E b \in Owned(m.job.user, m.job.src) : f.bucket = b.id) <=> f \in SourceRows(m.job)
        /\ (\A d \in Owned(m.job.user, m.job.dest) : CopiesOf(f, d) = {})
             <=> CopyRows(m.job, f) = {}
  BY DEF SourceRows, CopyRows, CopiesOf, FilesIn
<1>3. Due(m.job) = {f \in files : \E k \in queue :
        /\ \E b \in Owned(k.job.user, k.job.src) : f.bucket = b.id
        /\ IsCopy(k.job) =>
             \A d \in Owned(k.job.user, k.job.dest) : CopiesOf(f, d) = {}}
  BY <1>2 DEF Due, SourceRows
<1>4. QED
  BY <1>1, <1>3 DEF todoBar

LEMMA OneBarNext ==
  ASSUME NEW m, queue' = {m}
  PROVE  stateBar' = StateOf(m) /\ todoBar' = {f.id : f \in Due(m.job)'}
<1>1. stateBar' = StateOf(m)
  BY DEF stateBar, StateOf
<1>2. \A f \in files' :
        /\ (\E b \in Owned(m.job.user, m.job.src)' : f.bucket = b.id)
             <=> f \in SourceRows(m.job)'
        /\ (\A d \in Owned(m.job.user, m.job.dest)' : CopiesOf(f, d)' = {})
             <=> CopyRows(m.job, f)' = {}
  BY DEF SourceRows, CopyRows, CopiesOf, FilesIn
<1>3. Due(m.job)' = {f \in files' : \E k \in queue' :
        /\ \E b \in Owned(k.job.user, k.job.src)' : f.bucket = b.id
        /\ IsCopy(k.job) =>
             \A d \in Owned(k.job.user, k.job.dest)' : CopiesOf(f, d)' = {}}
  BY <1>2 DEF Due, SourceRows
<1>4. QED
  BY <1>1, <1>3 DEF todoBar

\* Rows and buckets that stay, but for a bucket without rows
LEMMA DueStands ==
  ASSUME NEW job, UNCHANGED files,
         buckets' \subseteq buckets, \A b \in buckets \ buckets', f \in files : f.bucket # b.id
  PROVE  Due(job)' = Due(job)
<1>1. \A user, name : \A f \in files :
        (\E b \in Owned(user, name) : f.bucket = b.id)
          <=> \E b \in Owned(user, name)' : f.bucket = b.id
  BY DEF Owned
<1>2. SourceRows(job)' = SourceRows(job)
  BY <1>1 DEF SourceRows
<1>3. ASSUME NEW f
      PROVE  CopyRows(job, f)' = CopyRows(job, f)
  <2>1. \A g \in files :
          (\E d \in Owned(job.user, job.dest) : g.bucket = d.id)
            <=> \E d \in Owned(job.user, job.dest)' : g.bucket = d.id
    BY <1>1
  <2>2. CopyRows(job, f)' = {g \in files :
                /\ \E d \in Owned(job.user, job.dest)' : g.bucket = d.id
                /\ g.name = f.name /\ g.version = f.version /\ g.size = f.size}
    BY DEF CopyRows, CopiesOf, FilesIn
  <2>3. CopyRows(job, f) = {g \in files :
                /\ \E d \in Owned(job.user, job.dest) : g.bucket = d.id
                /\ g.name = f.name /\ g.version = f.version /\ g.size = f.size}
    BY DEF CopyRows, CopiesOf, FilesIn
  <2>4. QED
    BY <2>1, <2>2, <2>3
<1>4. QED
  BY <1>2, <1>3 DEF Due

\* An emptying deletes at most one row in a step
LEMMA EmptyingDeals ==
  ASSUME TypeInv, OneJob, NEW w \in Executors, NEW m \in queue, ~IsCopy(m.job),
         run[w] # Idle, Work(w) \/ Stops(w) \/ TimesOut(w)
  PROVE  Due(m.job)' = Due(m.job) \/ \E id : Due(m.job)' = {f \in Due(m.job) : f.id # id}
<1>0. /\ run[w].job = m.job
      /\ run[w].at \notin {"dest", "create", "write"}
  BY StagedRun DEF OneJob, Staged, Idle, TypeInv, StagedRuns
<1>1. UNCHANGED buckets /\ (UNCHANGED files \/ \E id : DropFile(id))
  <2>1. CASE DeleteRow(w)
    BY <2>1 DEF DeleteRow
  <2>2. CASE ~DeleteRow(w)
    BY <1>0, <2>2
       DEF Work, Stops, TimesOut, FindSource, WorkerFindsDest, WorkerCreatesDest,
           ListFiles, RemoveFile, ReadFile, WriteFile, InsertRow, Progress, Finish,
           Acknowledge, storeVars
  <2>3. QED
    BY <2>1, <2>2
<1>2. CASE UNCHANGED files
  BY <1>1, <1>2, DueStands
<1>3. ASSUME NEW id, DropFile(id)
      PROVE  Due(m.job)' = {f \in Due(m.job) : f.id # id}
  BY <1>1, <1>3 DEF DropFile, Due, SourceRows, Owned
<1>4. QED
  BY <1>1, <1>2, <1>3

\* What a copy adds takes no row from the source or the destination
LEMMA RowsKept ==
  ASSUME NEW job, AddsRows(job), NEW f
  PROVE  SourceRows(job) \subseteq SourceRows(job)' /\ CopyRows(job, f) \subseteq CopyRows(job, f)'
<1>1. ASSUME NEW g \in files, NEW b \in buckets, g.bucket = b.id
      PROVE  g \in files' /\ b \in buckets'
  BY <1>1 DEF AddsRows
<1>2. SourceRows(job) \subseteq SourceRows(job)'
  BY <1>1 DEF SourceRows, Owned
<1>3. CopyRows(job, f) \subseteq CopyRows(job, f)'
  BY <1>1 DEF CopyRows, CopiesOf, FilesIn, Owned
<1>4. QED
  BY <1>2, <1>3

\* A copy copies at most one row in a step
LEMMA CopyDeals ==
  ASSUME TypeInv, OneJob, CopyInv, TablesOK', NEW w \in Executors, NEW m \in queue,
         IsCopy(m.job), run[w] # Idle, Work(w) \/ Stops(w) \/ TimesOut(w)
  PROVE  Due(m.job)' = Due(m.job) \/ \E id : Due(m.job)' = {f \in Due(m.job) : f.id # id}
<1>0. StoreTypeOK /\ TablesOK
  BY DEF TypeInv, TypeOK, CopyInv
<1>1. /\ AddsRows(m.job)
      /\ \/ files' = files
         \/ \E row : /\ files' = files \cup {row}
                     /\ row.name = run[w].file.name /\ row.version = run[w].file.version
                     /\ run[w].file \in run[w].left
  BY CopyRunStep
<1>2. /\ SourceRows(m.job)' = SourceRows(m.job)
      /\ \A f : /\ CopyRows(m.job, f) \subseteq CopyRows(m.job, f)'
                /\ CopyRows(m.job, f)' \subseteq CopyRows(m.job, f) \cup (files' \ files)
  <2>1. ASSUME NEW f
        PROVE  /\ SourceRows(m.job)' = SourceRows(m.job)
               /\ CopyRows(m.job, f) \subseteq CopyRows(m.job, f)'
               /\ CopyRows(m.job, f)' \subseteq CopyRows(m.job, f) \cup (files' \ files)
    <3>1. /\ SourceRows(m.job) \subseteq SourceRows(m.job)'
          /\ CopyRows(m.job, f) \subseteq CopyRows(m.job, f)'
      BY <1>1, RowsKept
    <3>2. /\ SourceRows(m.job)' \subseteq SourceRows(m.job)
          /\ CopyRows(m.job, f)' \subseteq CopyRows(m.job, f) \cup (files' \ files)
      BY <1>0, <1>1, NewRowsAreCopies
    <3>3. QED
      BY <3>1, <3>2
  <2>2. QED
    BY <2>1
<1>3. ASSUME NEW f \in Due(m.job), f \notin Due(m.job)'
      PROVE  f = run[w].file
  <2>1. f \in SourceRows(m.job) /\ CopyRows(m.job, f) = {} /\ CopyRows(m.job, f)' # {}
    BY <1>2, <1>3 DEF Due
  <2>2. PICK row \in CopyRows(m.job, f)' : row \in files' \ files
    BY <1>2, <2>1
  <2>3. /\ row.name = run[w].file.name /\ row.version = run[w].file.version
        /\ run[w].file \in run[w].left
    BY <1>1, <2>2
  <2>4. row.name = f.name /\ row.version = f.version
    BY <2>2 DEF CopyRows, CopiesOf
  <2>5. QED
    BY <2>1, <2>3, <2>4, OwnDebt
<1>4. Due(m.job)' \subseteq Due(m.job)
  BY <1>2 DEF Due
<1>5. CASE Due(m.job) \subseteq Due(m.job)'
  BY <1>4, <1>5
<1>6. CASE ~(Due(m.job) \subseteq Due(m.job)')
  <2>1. PICK f \in Due(m.job) : f \notin Due(m.job)' /\ f = run[w].file
    BY <1>3, <1>6
  <2>2. \A g \in Due(m.job) : g.id = f.id => g = f
    BY <1>0, <2>1 DEF TablesOK, Due, SourceRows
  <2>3. Due(m.job)' = {g \in Due(m.job) : g.id # f.id}
    BY <1>3, <1>4, <2>1, <2>2
  <2>4. QED
    BY <2>3
<1>7. QED
  BY <1>5, <1>6

\* When an attempt reaches its end there is nothing left to be dealt with
LEMMA NothingDue ==
  ASSUME TypeInv, OneJob, DoneInv, NEW w \in Executors, NEW m \in queue, run[w].at = "ack"
  PROVE  Due(m.job) = {}
<1>1. run[w] # Idle /\ run[w] \in Runs /\ Staged(run[w])
  BY StagedRun
<1>2. run[w].job = m.job /\ \A k \in queue : k = m
  BY <1>1 DEF OneJob
<1>3. Through(m.job)
  BY <1>1, <1>2, EndIsThrough DEF DoneInv
<1>4. ASSUME NEW f \in Due(m.job)
      PROVE  FALSE
  <2>1. PICK b \in Owned(m.job.user, m.job.src) : f \in files /\ f.bucket = b.id
    BY DEF Due, SourceRows
  <2>2. IsCopy(m.job) /\ Copied(m.job, f)
    BY <1>3, <2>1 DEF Through
  <2>3. CopyRows(m.job, f) # {}
    BY <2>2 DEF Copied, CopyRows, CopiesOf, FilesIn
  <2>4. QED
    BY <2>2, <2>3 DEF Due
<1>5. QED
  BY <1>4

\* A step that takes at most one row from those due is one of the job
LEMMA DealIsStep ==
  ASSUME NEW m, queue = {m}, UNCHANGED queue,
         Due(m.job)' = Due(m.job) \/ \E id : Due(m.job)' = {f \in Due(m.job) : f.id # id}
  PROVE  [Job!Next]_<<todoBar, stateBar>>
<1>1. /\ todoBar = {f.id : f \in Due(m.job)} /\ todoBar' = {f.id : f \in Due(m.job)'}
      /\ stateBar' = stateBar
  BY OneBar, OneBarNext
<1>2. CASE Due(m.job)' = Due(m.job)
  BY <1>1, <1>2
<1>3. ASSUME NEW id, Due(m.job)' = {f \in Due(m.job) : f.id # id}
      PROVE  [Job!Next]_<<todoBar, stateBar>>
  <2>1. todoBar' = todoBar \ {id}
    BY <1>1, <1>3
  <2>2. CASE id \in todoBar
    BY <1>1, <2>1, <2>2 DEF Job!Next, Job!DealWith
  <2>3. CASE id \notin todoBar
    BY <1>1, <2>1, <2>3
  <2>4. QED
    BY <2>2, <2>3
<1>4. QED
  BY <1>2, <1>3

\* So is the end of an attempt
LEMMA EndIsStep ==
  ASSUME NEW m, queue = {m}, NEW n, queue' = {n}, n.job = m.job, UNCHANGED <<buckets, files>>,
         m.state = "active",
         \/ n.state \in {"pending", "archived"}
         \/ n.state = "done" /\ Due(m.job) = {}
  PROVE  [Job!Next]_<<todoBar, stateBar>>
<1>1. Due(m.job)' = Due(m.job)
  BY DueStands
<1>2. /\ todoBar = {f.id : f \in Due(m.job)} /\ todoBar' = {f.id : f \in Due(m.job)'}
      /\ stateBar = StateOf(m) /\ stateBar' = StateOf(n)
  BY OneBar, OneBarNext
<1>3. todoBar' = todoBar /\ stateBar = "accepted"
  BY <1>1, <1>2 DEF StateOf
<1>4. CASE n.state = "pending"
  BY <1>2, <1>3, <1>4 DEF StateOf
<1>5. CASE n.state = "archived"
  BY <1>2, <1>3, <1>5 DEF StateOf, Job!Next, Job!GiveUp
<1>6. CASE n.state = "done" /\ Due(m.job) = {}
  BY <1>2, <1>3, <1>6 DEF StateOf, Job!Next, Job!Done
<1>7. QED
  BY <1>4, <1>5, <1>6

LEMMA RunIsStep ==
  ASSUME TypeInv, OneJob, DoneInv, CopiesInv, Prompt, TablesOK', NEW w \in Executors,
         Start(w) \/ Work(w) \/ Stops(w) \/ TimesOut(w)
  PROVE  [Job!Next]_<<todoBar, stateBar>>
<1>1. PICK m \in queue, n \in queue' :
         /\ queue = {m} /\ queue' = {n} /\ n.job = m.job
         /\ run[w] = Idle => m.state = "pending" /\ n = [m EXCEPT !.state = "active"]
  BY MessageStep
<1>2. CASE run[w] = Idle
  <2>1. UNCHANGED <<buckets, files>>
    BY <1>2, IdleStarts DEF Start, storeVars
  <2>2. m.state = "pending" /\ n.state = "active"
    BY <1>1, <1>2 DEF TypeInv, TypeOK, TasksTypeOK, Messages
  <2>3. Due(m.job)' = Due(m.job)
    BY <2>1, DueStands
  <2>4. /\ todoBar = {f.id : f \in Due(m.job)} /\ todoBar' = {f.id : f \in Due(m.job)'}
        /\ stateBar = StateOf(m) /\ stateBar' = StateOf(n)
    BY <1>1, OneBar, OneBarNext
  <2>5. QED
    BY <2>2, <2>3, <2>4 DEF StateOf
<1>3. CASE run[w] # Idle
  <2>1. Work(w) \/ Stops(w) \/ TimesOut(w)
    BY <1>3 DEF Start
  <2>2. Due(m.job)' = Due(m.job) \/ \E id : Due(m.job)' = {f \in Due(m.job) : f.id # id}
    <3>1. CASE IsCopy(m.job)
      <4>1. CopyInv
        BY <1>1, <3>1 DEF CopiesInv
      <4>2. QED
        BY <1>3, <2>1, <3>1, <4>1, CopyDeals
    <3>2. CASE ~IsCopy(m.job)
      BY <1>3, <2>1, <3>2, EmptyingDeals
    <3>3. QED
      BY <3>1, <3>2
  <2>3. CASE queue' = queue
    BY <1>1, <2>2, <2>3, DealIsStep
  <2>4. CASE /\ ~run[w].late /\ UNCHANGED <<buckets, files>>
             /\ \E k : /\ queue' = {k} /\ k.job = m.job
                       /\ \/ k.state \in {"pending", "archived"}
                          \/ run[w].at = "ack" /\ k.state = "done"
    <3>1. m.state = "active"
      BY <1>3, <2>4 DEF Prompt
    <3>2. \/ n.state \in {"pending", "archived"}
          \/ run[w].at = "ack" /\ n.state = "done"
      BY <1>1, <2>4
    <3>3. run[w].at = "ack" => Due(m.job) = {}
      BY NothingDue
    <3>4. QED
      BY <1>1, <2>4, <3>1, <3>2, <3>3, EndIsStep
  <2>5. QED
    BY <1>3, <2>1, <2>3, <2>4, MessageChange
<1>4. QED
  BY <1>2, <1>3

\* A request accepts the task, and only then
LEMMA AskIsStep ==
  ASSUME OneTask, TypeInv, TypeInv', OneJob, OneJob', NEW q \in Requesters,
         Ask(q) \/ Serve(q) \/ AskAborts(q)
  PROVE  [Job!Next]_<<todoBar, stateBar>>
<1>1. queue = {} => stateBar = "none" /\ todoBar = {}
  BY DEF stateBar, todoBar
<1>2. CASE Enqueue(q)
  <2>1. queue = {}
    BY <1>2 DEF Enqueue, OneJob, Idle
  <2>2. PICK m : m = [job |-> [JobOf(q) EXCEPT !.id = uuid], tries |-> 0,
                      requeued |-> 0, state |-> "pending"]
    OBVIOUS
  <2>3. queue' = {m} /\ m.state = "pending"
    BY <1>2, <2>1, <2>2 DEF Enqueue
  <2>4. stateBar' = "accepted" /\ todoBar' = {f.id : f \in Due(m.job)'}
    BY <2>3, OneBarNext DEF StateOf
  <2>5. Due(m.job)' \subseteq files' /\ files' \subseteq FileRows'
    BY DEF Due, SourceRows, TypeInv, TypeOK, StoreTypeOK
  <2>6. todoBar' \in SUBSET Nat
    BY <2>4, <2>5 DEF FileRows
  <2>7. QED
    BY <1>1, <2>1, <2>4, <2>6 DEF Job!Next, Job!Accept
<1>3. CASE ~Enqueue(q)
  <2>1. queue' = queue
    BY <1>3 DEF Ask, Serve, FindDest, CreateDest, Record, AskAborts
  <2>2. CASE queue = {}
    <3>1. stateBar' = "none" /\ todoBar' = {}
      BY <2>1, <2>2 DEF stateBar, todoBar
    <3>2. QED
      BY <1>1, <2>2, <3>1
  <2>3. CASE queue # {}
    <3>1. ~CreateDest(q)
      BY <2>3 DEF CreateDest, OneJob, Idle
    <3>2. UNCHANGED <<buckets, files>>
      BY <1>3, <3>1 DEF Ask, Serve, FindDest, Record, AskAborts, storeVars
    <3>3. PICK m : queue = {m}
      BY <2>3 DEF OneJob
    <3>4. Due(m.job)' = Due(m.job)
      BY <3>2, DueStands
    <3>5. QED
      BY <2>1, <3>3, <3>4, DealIsStep
  <2>4. QED
    BY <2>2, <2>3
<1>4. QED
  BY <1>2, <1>3

LEMMA DropIsStep ==
  ASSUME OneJob, DeleteEmptyBucket
  PROVE  [Job!Next]_<<todoBar, stateBar>>
<1>1. PICK m : queue = {m}
  BY DEF DeleteEmptyBucket, OneJob
<1>2. PICK b \in buckets : FilesIn(b) = {} /\ DropBucket(b.id)
  BY DEF DeleteEmptyBucket
<1>3. /\ UNCHANGED <<files, queue>> /\ buckets' \subseteq buckets
      /\ \A c \in buckets \ buckets', f \in files : f.bucket # c.id
  BY <1>2 DEF DeleteEmptyBucket, DropBucket, FilesIn
<1>4. Due(m.job)' = Due(m.job)
  BY <1>3, DueStands
<1>5. QED
  BY <1>1, <1>3, <1>4, DealIsStep

\* A shutdown ends an attempt, or leaves the task as it is
LEMMA ShutDownIsStep ==
  ASSUME TypeInv, OneJob, ShutsDown
  PROVE  [Job!Next]_<<todoBar, stateBar>>
<1>1. CASE queue = {}
  <2>1. queue' = {}
    BY <1>1, ShutDownStep
  <2>2. QED
    BY <1>1, <2>1 DEF todoBar, stateBar
<1>2. CASE queue # {}
  <2>1. PICK m \in queue, n \in queue' :
          /\ queue = {m} /\ queue' = {n} /\ n.job = m.job
          /\ UNCHANGED <<buckets, files>>
          /\ n = m \/ (m.state = "active" /\ n.state = "pending")
    BY <1>2, ShutDownStep
  <2>2. CASE n = m
    <3>1. Due(m.job)' = Due(m.job)
      BY <2>1, DueStands
    <3>2. QED
      BY <2>1, <2>2, <3>1, DealIsStep
  <2>3. CASE m.state = "active" /\ n.state = "pending"
    BY <2>1, <2>3, EndIsStep
  <2>4. QED
    BY <2>1, <2>2, <2>3
<1>3. QED
  BY <1>1, <1>2

\* The attempts at a task, failing half-way, repeated or running beside each other,
\* together are one job: no step deals with two files or makes one due again, a task
\* is taken for done only when no file is due, and what it ended as stays
THEOREM AttemptsAreOneJob ==
  ASSUME OneTask, Loud, \A s \in Stock : Settled(s) /\ Uncopied(s)
  PROVE  Spec => Job!Safety
<1>1. Init => Job!Init
  BY DEF Init, TasksInit, Job!Init, stateBar, todoBar
<1>2. TaskInv /\ TaskInv' /\ DoneInv /\ DoneInv' /\ CopiesInv /\ [Next]_vars
        => [Job!Next]_<<todoBar, stateBar>>
  <2> SUFFICES ASSUME TaskInv, TaskInv', DoneInv, DoneInv', CopiesInv, [Next]_vars
               PROVE  [Job!Next]_<<todoBar, stateBar>>
    OBVIOUS
  <2>0. TypeInv /\ TypeInv' /\ OneJob /\ OneJob' /\ Prompt /\ TablesOK'
    BY DEF TaskInv, DoneInv, StoreSound
  <2>1. ASSUME NEW q \in Requesters, Ask(q) \/ Serve(q) \/ AskAborts(q)
        PROVE  [Job!Next]_<<todoBar, stateBar>>
    BY <2>0, <2>1, AskIsStep
  <2>2. ASSUME NEW w \in Executors, Start(w) \/ Work(w) \/ Stops(w) \/ TimesOut(w)
        PROVE  [Job!Next]_<<todoBar, stateBar>>
    BY <2>0, <2>2, RunIsStep
  <2>3. CASE DeleteEmptyBucket
    BY <2>0, <2>3, DropIsStep
  <2>4. CASE UNCHANGED vars
    <3>1. CASE queue = {}
      BY <2>4, <3>1 DEF vars, todoBar, stateBar
    <3>2. CASE queue # {}
      <4>1. PICK m \in queue : queue = {m}
        <5>1. PICK m \in queue : TRUE
          BY <3>2
        <5>2. \A k \in queue : k = m
          BY <2>0, <5>1 DEF OneJob
        <5>3. QED
          BY <5>1, <5>2
      <4>2. UNCHANGED <<buckets, files, queue>>
        BY <2>4 DEF vars
      <4>3. Due(m.job)' = Due(m.job)
        BY <4>2, DueStands
      <4>4. QED
        BY <4>1, <4>2, <4>3, DealIsStep
    <3>3. QED
      BY <3>1, <3>2
  <2>5. CASE ShutsDown
    BY <2>0, <2>5, ShutDownIsStep
  <2>6. QED
    BY <2>1, <2>2, <2>3, <2>4, <2>5 DEF Next
<1>3. (\A s \in Stock : Settled(s)) /\ (\A s \in Stock : Uncopied(s))
  OBVIOUS
<1>4. Spec => []DoneInv
  BY <1>3, DoneInvariant
<1>5. Spec => []CopiesInv
  BY <1>3, CopiesInvariant
<1>6. QED
  BY <1>1, <1>2, <1>4, <1>5, TaskInvariant, PTL DEF Spec, Job!Safety
=============================================================================
