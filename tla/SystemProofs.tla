----------------------------- MODULE SystemProofs ------------------------------
(***************************************************************************)
(* The worker beside the handlers.  As long as the tasks only empty        *)
(* buckets, whatever the worker does to the store is what some handler     *)
(* might do: it draws an id, removes a file that has no version, deletes a *)
(* row or deletes an empty bucket.  So the invariants of the handlers hold *)
(* of the system, for any number of tasks and of executions, whenever they *)
(* stop, time out or are repeated.  (A copy does more: into a bucket with  *)
(* versioning it inserts rows whose version has no file.)  What is new     *)
(* beside the worker is proved after that: a file, or a latest version,    *)
(* may be missing while the rows that need it are on an emptying's list.   *)
(***************************************************************************)
EXTENDS System, RefinementProofs, WellFoundedInduction

OnlyEmptyings == Targets \subseteq {NoDest}

-----------------------------------------------------------------------------
(* Without copies, no execution gets to the steps of a copy *)

Cardinalities == {0} \cup {Tasks!Cardinality(rows) : rows \in SUBSET FileRows}

EmptyJobs == [id : Nat, user : Users, src : Names, dest : {NoDest}]

EmptyAsks == [at : {"enqueue", "record"}, bucket : BucketRows, dest : {NoDest},
              id : Nat]

EmptyMessages == [job : EmptyJobs, tries : Nat, requeued : Nat,
                  state : {"pending", "active", "done", "archived"}]

EmptyRuns ==
  [at : {"source", "list", "file", "row", "progress", "ack"}, job : EmptyJobs,
   late : BOOLEAN, bucket : BucketRows \cup {Tasks!NoRow}, dest : {Tasks!NoRow},
   left : SUBSET FileRows, total : Cardinalities,
   file : FileRows \cup {Tasks!NoRow}, content : {Torn}]

NoCopies ==
  /\ ask \in [Requesters -> EmptyAsks \cup {Idle}]
  /\ queue \subseteq EmptyMessages
  /\ run \in [Executors -> EmptyRuns \cup {Idle}]

\* What a task does to the store
TaskEffect ==
  \/ UNCHANGED <<buckets, files, disk>> /\ uuid' \in {uuid, uuid + 1}
  \/ UNCHANGED <<buckets, files, uuid>> /\ \E b, key : RemoveBlob(PlainPath(b, key))
  \/ UNCHANGED <<buckets, disk, uuid>> /\ \E id : DropFile(id)
  \/ /\ UNCHANGED <<disk, uuid>>
     /\ \E b \in buckets : DropBucket(b.id) /\ FilesIn(b) = {}

\* The operators of the store mean the same to the tasks
LEMMA SameStatements ==
  /\ Tasks!Idle = Idle
  /\ \A b, key : Tasks!RemoveBlob(Tasks!PlainPath(b, key)) <=> RemoveBlob(PlainPath(b, key))
  /\ \A id : Tasks!DropFile(id) <=> DropFile(id)
  /\ \A id : Tasks!DropBucket(id) <=> DropBucket(id)
  /\ \A b : Tasks!FilesIn(b) = FilesIn(b)
  BY DEF Tasks!Idle, Idle, Tasks!RemoveBlob, RemoveBlob, Tasks!PlainPath, PlainPath,
         Tasks!NoVersion, NoVersion, Tasks!DropFile, DropFile, Tasks!DropBucket,
         DropBucket, Tasks!FilesIn, FilesIn

\* asynq keeps the messages of emptyings
LEMMA MessagesKept ==
  ASSUME queue \subseteq EmptyMessages, NEW job,
         \/ \E state \in {"active", "done"} : Tasks!SetState(job, state)
         \/ Tasks!Retry(job)
         \/ UNCHANGED queue
  PROVE  queue' \subseteq EmptyMessages
<1>1. CASE \E state \in {"active", "done"} : Tasks!SetState(job, state)
  <2>1. PICK state \in {"active", "done"} : Tasks!SetState(job, state)
    BY <1>1
  <2>2. QED
    BY <2>1 DEF Tasks!SetState, EmptyMessages
<1>2. CASE Tasks!Retry(job)
  <2>1. ASSUME NEW m \in queue
        PROVE  /\ [m EXCEPT !.state = "pending", !.tries = @ + 1] \in EmptyMessages
               /\ [m EXCEPT !.state = "archived"] \in EmptyMessages
    <3>1. m \in EmptyMessages
      OBVIOUS
    <3>2. m.tries + 1 \in Nat
      BY <3>1 DEF EmptyMessages
    <3>3. QED
      BY <3>1, <3>2 DEF EmptyMessages
  <2>2. QED
    BY <1>2, <2>1 DEF Tasks!Retry
<1>3. QED
  BY <1>1, <1>2

\* The requests
LEMMA AskEffect ==
  ASSUME OnlyEmptyings, TypeOK, NoCopies, NEW q \in Requesters,
         Tasks!Ask(q) \/ Tasks!Serve(q) \/ Tasks!AskAborts(q)
  PROVE  NoCopies' /\ TaskEffect
<1> USE DEF NoCopies, TypeOK, StoreTypeOK, Tasks!storeVars
<1>1. CASE Tasks!Ask(q)
  <2>1. PICK user \in Users, src \in Names, dest \in Targets :
          \E bucket \in Tasks!Owned(user, src) :
            ask' = [ask EXCEPT ![q] =
                      [at |-> IF dest = NoDest THEN "enqueue" ELSE "dest",
                       bucket |-> bucket, dest |-> dest, id |-> 0]]
    BY <1>1 DEF Tasks!Ask
  <2> PICK bucket \in Tasks!Owned(user, src) :
        ask' = [ask EXCEPT ![q] =
                  [at |-> IF dest = NoDest THEN "enqueue" ELSE "dest",
                   bucket |-> bucket, dest |-> dest, id |-> 0]]
    BY <2>1
  <2>2. dest = NoDest /\ bucket \in BucketRows
    BY <2>1 DEF OnlyEmptyings, Tasks!Owned
  <2>3. [at |-> IF dest = NoDest THEN "enqueue" ELSE "dest",
         bucket |-> bucket, dest |-> dest, id |-> 0] \in EmptyAsks
    BY <2>2 DEF EmptyAsks
  <2>4. ask' \in [Requesters -> EmptyAsks \cup {Idle}]
    BY <2>3
  <2>5. QED
    BY <1>1, <2>4 DEF Tasks!Ask, TaskEffect
<1>2. CASE Tasks!FindDest(q) \/ Tasks!CreateDest(q)
  BY <1>2 DEF Tasks!FindDest, Tasks!CreateDest, EmptyAsks, Idle
<1>3. CASE Tasks!Enqueue(q)
  <2>1. ask[q] \in EmptyAsks
    BY <1>3 DEF Tasks!Enqueue, Idle
  <2>2. [Tasks!JobOf(q) EXCEPT !.id = uuid] \in EmptyJobs
    BY <2>1 DEF Tasks!JobOf, EmptyAsks, EmptyJobs, BucketRows
  <2>3. queue' \subseteq EmptyMessages
    BY <1>3, <2>2 DEF Tasks!Enqueue, EmptyMessages
  <2>4. ask' \in [Requesters -> EmptyAsks \cup {Idle}]
    BY <1>3, <2>1 DEF Tasks!Enqueue, EmptyAsks
  <2>5. QED
    BY <1>3, <2>3, <2>4 DEF Tasks!Enqueue, TaskEffect
<1>4. CASE Tasks!Record(q) \/ Tasks!AskAborts(q)
  BY <1>4, SameStatements DEF Tasks!Record, Tasks!AskAborts, TaskEffect
<1>5. QED
  BY <1>1, <1>2, <1>3, <1>4 DEF Tasks!Serve

\* The executions
LEMMA RunEffect ==
  ASSUME OnlyEmptyings, TypeOK, NoCopies, NEW w \in Executors,
         Tasks!Start(w) \/ Tasks!Work(w) \/ Tasks!Stops(w) \/ Tasks!TimesOut(w)
  PROVE  NoCopies' /\ TaskEffect
<1> USE DEF NoCopies, TypeOK, StoreTypeOK, Tasks!storeVars
<1>1. CASE Tasks!Start(w)
  <2>1. PICK m \in queue :
          /\ Tasks!SetState(m.job, "active")
          /\ run' = [run EXCEPT ![w] =
                       [at |-> "source", job |-> m.job, late |-> FALSE,
                        bucket |-> Tasks!NoRow, dest |-> Tasks!NoRow, left |-> {},
                        total |-> 0, file |-> Tasks!NoRow, content |-> Torn]]
    BY <1>1, Zenon DEF Tasks!Start
  <2>2. 0 \in Cardinalities
    BY DEF Cardinalities
  <2>3. m.job \in EmptyJobs
    BY DEF EmptyMessages
  <2>4. [at |-> "source", job |-> m.job, late |-> FALSE,
         bucket |-> Tasks!NoRow, dest |-> Tasks!NoRow, left |-> {},
         total |-> 0, file |-> Tasks!NoRow, content |-> Torn] \in EmptyRuns
    BY <2>2, <2>3 DEF EmptyRuns
  <2>5. run' \in [Executors -> EmptyRuns \cup {Idle}]
    BY <2>1, <2>4
  <2>6. queue' \subseteq EmptyMessages
    BY <2>1, MessagesKept
  <2>7. QED
    BY <1>1, <2>5, <2>6 DEF Tasks!Start, TaskEffect
<1>2. ASSUME run[w] # Idle
      PROVE  run[w] \in EmptyRuns /\ run[w].job.dest = NoDest
  BY <1>2 DEF EmptyRuns, EmptyJobs
<1>3. CASE Tasks!FindSource(w)
  <2>1. run[w] \in EmptyRuns /\ ~Tasks!IsCopy(run[w].job)
    BY <1>2, <1>3 DEF Tasks!FindSource, Idle, Tasks!IsCopy
  <2>2. Tasks!Sources(run[w].job) \subseteq BucketRows
    BY DEF Tasks!Sources, Tasks!Owned
  <2>3. CASE \E b \in Tasks!Sources(run[w].job) :
               /\ run' = [run EXCEPT ![w].bucket = b,
                                     ![w].at = IF Tasks!IsCopy(run[w].job) THEN "dest"
                                               ELSE "list"]
               /\ UNCHANGED queue
    <3>1. PICK b \in Tasks!Sources(run[w].job) :
                 run' = [run EXCEPT ![w].bucket = b, ![w].at = "list"]
      BY <2>1, <2>3
    <3>2. [run[w] EXCEPT !.bucket = b, !.at = "list"] \in EmptyRuns
      BY <2>1, <2>2 DEF EmptyRuns
    <3>3. run' \in [Executors -> EmptyRuns \cup {Idle}]
      BY <3>1, <3>2
    <3>4. QED
      BY <1>3, <2>3, <3>3 DEF Tasks!FindSource, TaskEffect
  <2>4. CASE Tasks!Fails(w)
    <3>1. queue' \subseteq EmptyMessages
      BY <2>4, MessagesKept DEF Tasks!Fails
    <3>2. QED
      BY <1>3, <2>4, <3>1, SameStatements DEF Tasks!FindSource, Tasks!Fails, TaskEffect
  <2>5. QED
    BY <1>3, <2>3, <2>4 DEF Tasks!FindSource
<1>4. CASE \/ Tasks!WorkerFindsDest(w) \/ Tasks!WorkerCreatesDest(w)
           \/ Tasks!ReadFile(w) \/ Tasks!WriteFile(w) \/ Tasks!InsertRow(w)
  <2>1. /\ run[w].at \in {"dest", "create", "write"} \/ Tasks!IsCopy(run[w].job)
        /\ run[w].at \in {"dest", "create", "write", "file", "row"}
    BY <1>4 DEF Tasks!WorkerFindsDest, Tasks!WorkerCreatesDest, Tasks!ReadFile,
                Tasks!WriteFile, Tasks!InsertRow
  <2>2. run[w] # Idle
    BY <2>1 DEF Idle
  <2>3. QED
    BY <1>2, <2>1, <2>2 DEF EmptyRuns, Tasks!IsCopy
<1>5. CASE Tasks!ListFiles(w)
  <2>1. run[w] \in EmptyRuns
    BY <1>2, <1>5 DEF Tasks!ListFiles, Idle
  <2> DEFINE listed == Tasks!FilesIn(run[w].bucket)
  <2>2. listed \subseteq FileRows /\ Tasks!Cardinality(listed) \in Cardinalities
    BY DEF Tasks!FilesIn, Cardinalities
  <2>3. run' = [run EXCEPT ![w].at = "file", ![w].left = listed,
                           ![w].total = Tasks!Cardinality(listed)]
    BY ONLY <1>5 DEF Tasks!ListFiles
  <2> HIDE DEF listed
  <2>4. [run[w] EXCEPT !.at = "file", !.left = listed,
                       !.total = Tasks!Cardinality(listed)] \in EmptyRuns
    BY <2>1, <2>2 DEF EmptyRuns
  <2>5. run' \in [Executors -> EmptyRuns \cup {Idle}]
    BY <2>3, <2>4
  <2>6. QED
    BY <1>5, <2>5 DEF Tasks!ListFiles, TaskEffect
<1>6. CASE Tasks!RemoveFile(w)
  <2>1. run[w] \in EmptyRuns
    BY <1>2, <1>6 DEF Tasks!RemoveFile, Idle
  <2>2. PICK f \in run[w].left :
          /\ run' = [run EXCEPT ![w].file = f, ![w].at = "row"]
          /\ \/ Tasks!RemoveBlob(Tasks!PlainPath(run[w].bucket, f.name))
             \/ UNCHANGED disk
    BY <1>6 DEF Tasks!RemoveFile
  <2>3. [run[w] EXCEPT !.file = f, !.at = "row"] \in EmptyRuns
    BY <2>1 DEF EmptyRuns
  <2>4. run' \in [Executors -> EmptyRuns \cup {Idle}]
    BY <2>2, <2>3
  <2>5. TaskEffect
    BY <1>6, <2>2, SameStatements DEF Tasks!RemoveFile, TaskEffect
  <2>6. QED
    BY <1>6, <2>4, <2>5 DEF Tasks!RemoveFile
<1>7. CASE Tasks!DeleteRow(w)
  <2>1. run[w] \in EmptyRuns
    BY <1>2, <1>7 DEF Tasks!DeleteRow, Idle
  <2>2. [run[w] EXCEPT !.at = "progress"] \in EmptyRuns
    BY <2>1 DEF EmptyRuns
  <2>3. run' \in [Executors -> EmptyRuns \cup {Idle}]
    BY <1>7, <2>2 DEF Tasks!DeleteRow
  <2>4. QED
    BY <1>7, <2>3, SameStatements DEF Tasks!DeleteRow, TaskEffect
<1>8. CASE Tasks!Progress(w)
  <2>1. run[w] \in EmptyRuns
    BY <1>2, <1>8 DEF Tasks!Progress, Idle
  <2>2. run' = [run EXCEPT ![w].at = "file", ![w].left = @ \ {run[w].file},
                           ![w].file = Tasks!NoRow]
    BY <1>8 DEF Tasks!Progress
  <2>3. [run[w] EXCEPT !.at = "file", !.left = @ \ {run[w].file}, !.file = Tasks!NoRow]
          \in EmptyRuns
    BY <2>1 DEF EmptyRuns
  <2>4. run' \in [Executors -> EmptyRuns \cup {Idle}]
    BY <2>2, <2>3
  <2>5. QED
    BY <1>8, <2>4 DEF Tasks!Progress, TaskEffect
<1>9. CASE Tasks!Finish(w)
  <2>1. run[w] \in EmptyRuns
    BY <1>2, <1>9 DEF Tasks!Finish, Idle
  <2>2. [run[w] EXCEPT !.at = "ack"] \in EmptyRuns
    BY <2>1 DEF EmptyRuns
  <2>3. run' \in [Executors -> EmptyRuns \cup {Idle}]
    BY <1>9, <2>2 DEF Tasks!Finish
  <2>4. QED
    BY <1>9, <2>3 DEF Tasks!Finish, TaskEffect
<1>10. CASE Tasks!Acknowledge(w)
  <2>1. queue' \subseteq EmptyMessages
    BY <1>10, MessagesKept DEF Tasks!Acknowledge
  <2>2. QED
    BY <1>10, <2>1, SameStatements DEF Tasks!Acknowledge, TaskEffect
<1>11. CASE Tasks!Stops(w)
  <2>1. queue' \subseteq EmptyMessages
    BY <1>11, MessagesKept DEF Tasks!Stops, Tasks!Fails
  <2>2. UNCHANGED disk
    BY <1>2, <1>11, SameStatements DEF Tasks!Stops, EmptyRuns
  <2>3. QED
    BY <1>11, <2>1, <2>2, SameStatements DEF Tasks!Stops, Tasks!Fails, TaskEffect
<1>12. CASE Tasks!TimesOut(w)
  <2>1. run[w] \in EmptyRuns
    BY <1>2, <1>12, SameStatements DEF Tasks!TimesOut
  <2>2. [run[w] EXCEPT !.late = TRUE] \in EmptyRuns
    BY <2>1 DEF EmptyRuns
  <2>3. run' \in [Executors -> EmptyRuns \cup {Idle}]
    BY <1>12, <2>2 DEF Tasks!TimesOut
  <2>4. queue' \subseteq EmptyMessages
    BY <1>12, MessagesKept DEF Tasks!TimesOut
  <2>5. QED
    BY <1>12, <2>3, <2>4 DEF Tasks!TimesOut, TaskEffect
<1>13. QED
  BY <1>1, <1>3, <1>4, <1>5, <1>6, <1>7, <1>8, <1>9, <1>10, <1>11, <1>12 DEF Tasks!Work

\* A shutdown of the worker cuts no file short: an emptying writes none
LEMMA ShutDownEffect ==
  ASSUME TypeOK, NoCopies, Tasks!ShutsDown
  PROVE  NoCopies' /\ TaskEffect
<1>1. ASSUME NEW m \in queue
      PROVE  [m EXCEPT !.state = "pending", !.requeued = @ + 1] \in EmptyMessages
  <2>1. m \in EmptyMessages
    BY DEF NoCopies
  <2>2. m.requeued + 1 \in Nat
    BY <2>1 DEF EmptyMessages
  <2>3. QED
    BY <2>1, <2>2 DEF EmptyMessages
<1>2. queue' \subseteq EmptyMessages
  BY <1>1 DEF NoCopies, Tasks!ShutsDown, Tasks!Requeue
<1>3. ask' = ask /\ run' \in [Executors -> EmptyRuns \cup {Idle}]
  BY SameStatements DEF Tasks!ShutsDown
<1>4. \A w \in Executors : run[w].at # "write"
  BY DEF NoCopies, EmptyRuns, Idle
<1>5. UNCHANGED disk
  <2>1. disk = [p \in DOMAIN disk |-> disk[p]]
    BY DEF TypeOK, StoreTypeOK
  <2>2. PICK cut \in SUBSET {} :
          disk' = [p \in DOMAIN disk \cup {Tasks!CopyPath(w) : w \in cut} |->
                     IF \E w \in cut : p = Tasks!CopyPath(w) THEN Torn ELSE disk[p]]
    BY <1>4 DEF Tasks!ShutsDown
  <2>3. cut = {}
    OBVIOUS
  <2>4. DOMAIN disk \cup {Tasks!CopyPath(w) : w \in cut} = DOMAIN disk
    BY <2>3
  <2>5. QED
    BY <2>1, <2>2, <2>3, <2>4
<1>6. QED
  BY <1>2, <1>3, <1>5 DEF NoCopies, TaskEffect, Tasks!ShutsDown

\* A step of the tasks has one of the four effects
LEMMA TaskStepEffect ==
  ASSUME OnlyEmptyings, TypeOK, NoCopies, TaskStep
  PROVE  NoCopies' /\ TaskEffect
<1>1. CASE Tasks!DeleteEmptyBucket
  <2>1. TaskEffect
    BY <1>1, SameStatements DEF Tasks!DeleteEmptyBucket, TaskEffect
  <2>2. QED
    BY <1>1, <2>1 DEF Tasks!DeleteEmptyBucket, NoCopies
<1>2. QED
  BY <1>1, AskEffect, RunEffect, ShutDownEffect DEF TaskStep, Tasks!Next

-----------------------------------------------------------------------------
(* The invariants of the handlers hold of the system *)

\* The effects keep the types, ...
LEMMA EffectKeepsType ==
  ASSUME TypeOK, TaskEffect, UNCHANGED requests
  PROVE  TypeOK'
<1> USE DEF TypeOK, StoreTypeOK
<1>1. RequestsTypeOK'
  BY DEF requests, RequestsTypeOK
<1>2. buckets' \subseteq BucketRows /\ files' \subseteq FileRows /\ uuid' \in Nat \ {0}
  BY DEF TaskEffect, DropFile, DropBucket
<1>3. DOMAIN disk' \subseteq Paths /\ disk' \in [DOMAIN disk' -> Sizes \cup {Torn}]
  <2>1. CASE UNCHANGED disk
    BY <2>1
  <2>2. CASE \E b, key : RemoveBlob(PlainPath(b, key))
    BY <2>2, RemoveBlobType
  <2>3. QED
    BY <2>1, <2>2 DEF TaskEffect
<1>4. QED
  BY <1>1, <1>2, <1>3

\* ... touch no slot and no version, and write nothing, ...
LEMMA EffectIsHarmless ==
  ASSUME TypeOK, TaskEffect, UNCHANGED requests
  PROVE  HarmlessStep /\ PlainRowsKept /\ DiskShrinks
<1> USE DEF TypeOK, StoreTypeOK
<1>1. SlotsKept
  BY DEF requests, SlotsKept, SlotKept
<1>2. buckets' \subseteq buckets /\ files' \subseteq files
  BY DEF TaskEffect, DropFile, DropBucket
<1>3. uuid' \in Nat /\ uuid <= uuid'
  <2>1. uuid' \in {uuid, uuid + 1} /\ uuid \in Nat
    BY DEF TaskEffect
  <2>2. QED
    BY ONLY <2>1
<1>4. VersionsKept /\ DiskShrinks
  <2>1. CASE UNCHANGED disk
    BY <2>1 DEF VersionsKept, DiskShrinks
  <2>2. CASE \E b, key : RemoveBlob(PlainPath(b, key))
    BY <2>2 DEF RemoveBlob, PlainPath, VersionsKept, DiskShrinks
  <2>3. QED
    BY <2>1, <2>2 DEF TaskEffect
<1>5. QED
  BY <1>1, <1>2, <1>3, <1>4 DEF HarmlessStep, RowsKept, PlainRowsKept

\* ... and are operations of the abstract store
LEMMA EffectIsOperation ==
  ASSUME TypeOK, TypeOK', VersionedInv, BucketNames, FileIds, TaskEffect
  PROVE  Abstract!Next /\ FileIds'
<1> USE DEF TypeOK, StoreTypeOK
<1>0. uuid \in Nat /\ uuid <= uuid' /\ OneRowPerId
  <2>1. uuid' \in {uuid, uuid + 1} /\ uuid \in Nat
    BY DEF TaskEffect
  <2>2. QED
    BY ONLY <2>1, VersionedInv DEF VersionedInv
<1>1. FileIds'
  <2>1. files' \subseteq files
    BY DEF TaskEffect, DropFile, DropBucket
  <2>2. QED
    BY <1>0, <2>1 DEF FileIds, FileRows
<1>2. CASE UNCHANGED <<buckets, files>>
  <2>1. Abstract!Next
    BY <1>0, <1>2, UnseenStep
  <2>2. QED
    BY <1>1, <2>1
<1>3. CASE UNCHANGED <<buckets, uuid>> /\ \E id : DropFile(id)
  <2>1. PICK id : DropFile(id)
    BY <1>3
  <2>2. Abstract!Next
    BY <1>0, <1>3, <2>1, DropIsDelete
  <2>3. QED
    BY <1>1, <2>2
<1>4. CASE UNCHANGED uuid /\ \E b \in buckets : DropBucket(b.id) /\ FilesIn(b) = {}
  <2>1. PICK b \in buckets : DropBucket(b.id) /\ FilesIn(b) = {}
    BY <1>4
  <2>2. \A f \in files : f.bucket # b.id
    BY <2>1 DEF FilesIn
  <2>3. Abstract!Next
    BY <1>0, <1>4, <2>1, <2>2, DropIsDeleteBucket
  <2>4. QED
    BY <1>1, <2>3
<1>5. QED
  BY <1>2, <1>3, <1>4 DEF TaskEffect

\* At the start there are no tasks
LEMMA SystemStarts ==
  ASSUME SystemInit
  PROVE  Init /\ TypeOK /\ VersionedInv /\ PlainInv /\ FileIds /\ NoCopies
<1>1. Init
  BY DEF SystemInit
<1>2. TypeOK /\ VersionedInv
  BY <1>1 DEF Init, StoreInit, TypeOK, StoreTypeOK, RequestsTypeOK, VersionedInv, Drawn,
              OneRowPerId, OwnVersion, Versions, BlobFirst, NamedVersions,
              VersionedBlobsIntact
<1>3. PlainInv /\ FileIds
  BY <1>1 DEF Init, StoreInit, PlainInv, BucketNames, AllLatest, NewBucketEmpty,
              NameFree, OwnContent, UniqueName, NoForeignContent, Plain, FileIds
<1>4. NoCopies
  BY SameStatements DEF SystemInit, Tasks!TasksInit, NoCopies
<1>5. QED
  BY <1>1, <1>2, <1>3, <1>4

\* Nothing changes
LEMMA SystemStutters ==
  ASSUME UNCHANGED systemVars
  PROVE  UNCHANGED vars /\ UNCHANGED taskVars
  BY DEF systemVars, vars, taskVars

\* A step of the system is a handler's, or has one of the four effects
LEMMA SystemStepEffect ==
  ASSUME OnlyEmptyings, TypeOK, NoCopies, [SystemNext]_systemVars
  PROVE  /\ NoCopies'
         /\ [Next]_vars \/ (TaskEffect /\ UNCHANGED requests)
<1>1. CASE TaskStep
  BY <1>1, TaskStepEffect DEF TaskStep
<1>2. CASE HandlerStep \/ UNCHANGED systemVars
  BY <1>2, SystemStutters DEF HandlerStep, NoCopies, taskVars
<1>3. QED
  BY <1>1, <1>2 DEF SystemNext

\* The tables, the files and the slots of the requests keep their types, and
\* VersionedInv holds in every state of the system
LEMMA SystemInvariant ==
  ASSUME OnlyEmptyings
  PROVE  SystemSpec => [](TypeOK /\ NoCopies /\ VersionedInv)
<1>1. TypeOK /\ NoCopies /\ VersionedInv /\ [SystemNext]_systemVars
        => (TypeOK /\ NoCopies /\ VersionedInv)'
  <2> SUFFICES ASSUME TypeOK, NoCopies, VersionedInv, [SystemNext]_systemVars
               PROVE  TypeOK' /\ NoCopies' /\ VersionedInv'
    OBVIOUS
  <2>1. CASE [Next]_vars
    <3>1. TypeOK'
      BY <2>1, NextKeepsType
    <3>2. QED
      BY <2>1, <3>1, NextKeepsVersioned, SystemStepEffect
  <2>2. CASE TaskEffect /\ UNCHANGED requests
    <3>1. TypeOK' /\ HarmlessStep
      BY <2>2, EffectKeepsType, EffectIsHarmless
    <3>2. QED
      BY <3>1, HarmlessKeepsInv, SystemStepEffect
  <2>3. QED
    BY <2>1, <2>2, SystemStepEffect
<1>2. QED
  BY <1>1, SystemStarts, PTL DEF SystemSpec

\* Whatever is uploaded, deleted and emptied at once, and wherever it stops: a
\* version with a row is served with its own content
THEOREM EmptyingSparesVersions ==
  ASSUME OnlyEmptyings
  PROVE  SystemSpec => []VersionedBlobsIntact
<1>1. VersionedInv => VersionedBlobsIntact
  BY DEF VersionedInv
<1>2. QED
  BY <1>1, SystemInvariant, PTL

\* Also the invariant of the unversioned buckets is kept, if no two uploads
\* overlap
LEMMA SystemPlainInvariant ==
  ASSUME OnlyEmptyings, SoleUploader, ~Ignored
  PROVE  SystemSpec => [](TypeOK /\ NoCopies /\ VersionedInv /\ PlainInv)
<1>1. TypeOK /\ TypeOK' /\ NoCopies /\ VersionedInv /\ PlainInv /\ [SystemNext]_systemVars
        => PlainInv'
  <2> SUFFICES ASSUME PlainTypeInv, NoCopies, PlainInv, [SystemNext]_systemVars
               PROVE  PlainInv'
    BY DEF PlainTypeInv
  <2>1. CASE [Next]_vars
    BY <2>1, NextKeepsPlain
  <2>2. CASE TaskEffect /\ UNCHANGED requests
    <3>1. HarmlessStep /\ PlainRowsKept /\ DiskShrinks
      BY <2>2, EffectIsHarmless DEF PlainTypeInv
    <3>2. QED
      BY <3>1, WritelessKeepsPlain DEF HarmlessStep
  <2>3. QED
    BY <2>1, <2>2, SystemStepEffect DEF PlainTypeInv
<1>2. QED
  BY <1>1, SystemStarts, SystemInvariant, PTL DEF SystemSpec

\* ... then no download of an unversioned name, before, while or after its
\* bucket is emptied, finds the content of another upload
THEOREM EmptyingKeepsContent ==
  ASSUME OnlyEmptyings, SoleUploader, ~Ignored
  PROVE  SystemSpec => []NoForeignContent
<1>1. PlainInv => NoForeignContent
  BY DEF PlainInv
<1>2. QED
  BY <1>1, SystemPlainInvariant, PTL

\* ... and to its clients the server with its worker is the abstract store: an
\* emptying is deletes, one after the other, however often it is repeated
THEOREM EmptyingRefines ==
  ASSUME OnlyEmptyings, SoleUploader, ~Ignored, Droppers = {}
  PROVE  SystemSpec => Refines
<1>1. TypeOK /\ TypeOK' /\ NoCopies /\ VersionedInv /\ PlainInv /\ FileIds
        /\ [SystemNext]_systemVars
        => FileIds' /\ [Abstract!Next]_<<storeBar, uuid>>
  <2> SUFFICES ASSUME TypeOK, TypeOK', NoCopies, VersionedInv, PlainInv, FileIds,
                      [SystemNext]_systemVars
               PROVE  FileIds' /\ Abstract!Next
    OBVIOUS
  <2>1. CASE Next
    <3>1. Found
      BY DEF PlainInv, NameFree, Plain, Idle, RowsOf, Found
    <3>2. QED
      BY <2>1, <3>1, StepIsOperation, FileIdsKept
  <2>2. CASE UNCHANGED vars
    BY <2>2, StutterRefines DEF vars, FileIds
  <2>3. CASE TaskEffect /\ UNCHANGED requests
    BY <2>3, EffectIsOperation DEF PlainInv
  <2>4. QED
    BY <2>1, <2>2, <2>3, SystemStepEffect
<1>2. SystemInit => Abstract!Init
  BY SystemStarts, InitRefines
<1>3. QED
  BY <1>1, <1>2, SystemStarts, SystemPlainInvariant, PTL
     DEF SystemSpec, Refines, Abstract!Spec

-----------------------------------------------------------------------------
(* An emptying beside one upload and one delete.  The three hold rows that  *)
(* they have read; with no lock, what keeps the file of a later upload of   *)
(* the name safe is that the row keeps the name taken until it is deleted   *)

\* One slot of each kind is in use, and nothing is dropped or fails
OneEach ==
  /\ SoleUploader
  /\ \A d, e \in Deleters : d = e
  /\ \A v, w \in Executors : v = w
  /\ Droppers = {} /\ ~Abort /\ ~Ignored

\* A row that was read stands for the row with its id, if there still is one
HeldRow(f) == f.id < uuid /\ \A g \in files : g.id = f.id => g.bucket = f.bucket

UploadHeld(r) == r # Idle => r.bucket \in buckets

\* In a bucket without versioning nothing else has touched the row: it is there
DeleteHeld(r) == r # Idle =>
  /\ r.bucket \in buckets
  /\ r.at \in {"remove", "row"} =>
       /\ HeldRow(r.row) /\ r.row.bucket = r.bucket.id
       /\ ~r.bucket.versioning => r.row \in files

\* Of the rows an emptying has listed, all are that it has not deleted itself
RunHeld(r) == r # Idle =>
  /\ r.at # "source" => r.bucket \in buckets
  /\ r.at \in {"source", "list", "ack"} => r.left = {}
  /\ r.at \in {"row", "progress"} => r.file \in r.left
  /\ \A f \in r.left :
       /\ HeldRow(f) /\ f.bucket = r.bucket.id
       /\ ~r.bucket.versioning => f \in files \/ (r.at = "progress" /\ f = r.file)

\* The file of an upload is on disk until its row is inserted ...
FileWritten ==
  \A u \in Uploaders : Plain(u) /\ up[u].at = "insert" => UploadPath(u) \in DOMAIN disk

\* ... and that of a row until the row is about to be deleted
PlainOnDisk ==
  \A b \in buckets, f \in files :
    ~b.versioning /\ f.bucket = b.id =>
      PlainPath(b, f.name) \in DOMAIN disk \/ Removing(f)

Held ==
  /\ \A u \in Uploaders : UploadHeld(up[u])
  /\ \A d \in Deleters : DeleteHeld(del[d])
  /\ \A w \in Executors : RunHeld(run[w])

CrossInv ==
  crossed \/ faults # {} \/ (~Crossing /\ Held /\ FileWritten /\ PlainOnDisk)

\* What the proofs take from the invariants above
CrossContext ==
  /\ OneEach /\ faults = {}
  /\ TypeOK /\ TypeOK' /\ NoCopies /\ NoCopies'
  /\ VersionedInv /\ PlainInv /\ FileIds /\ FileIds'
  /\ ~Crossing /\ Held /\ FileWritten /\ PlainOnDisk

\* Rows keep their ids and buckets, and no other row takes an id that was drawn
IdsKept ==
  \A f \in files' : f.id < uuid => \E g \in files : g.id = f.id /\ g.bucket = f.bucket

\* What is held stays held while the rows of unversioned buckets stay
LEMMA HeldStays ==
  ASSUME TypeOK, TypeOK', buckets \subseteq buckets', uuid <= uuid', IdsKept, FileIds,
         NEW rows, 
         \A b \in buckets, f \in files \ rows : ~b.versioning /\ f.bucket = b.id => f \in files'
  PROVE  /\ \A r : UploadHeld(r) => UploadHeld(r)'
         /\ \A f \in FileRows : HeldRow(f) => HeldRow(f)'
         /\ \A r \in Deletes \cup {Idle} :
              DeleteHeld(r) /\ (r # Idle /\ r.at \in {"remove", "row"} => r.row \notin rows)
                => DeleteHeld(r)'
         /\ \A r \in EmptyRuns \cup {Idle} :
              RunHeld(r) /\ (r # Idle => r.left \cap rows = {}) => RunHeld(r)'
<1>0. uuid \in Nat /\ uuid' \in Nat /\ uuid <= uuid'
  BY DEF TypeOK, StoreTypeOK
<1>1. \A r : UploadHeld(r) => UploadHeld(r)'
  BY DEF UploadHeld
<1>2. ASSUME NEW f \in FileRows, HeldRow(f)
      PROVE  HeldRow(f)'
  <2>1. f.id \in Nat /\ f.id < uuid
    BY <1>2 DEF FileRows, HeldRow
  <2>2. f.id < uuid'
    BY ONLY <1>0, <2>1
  <2>3. ASSUME NEW g \in files', g.id = f.id
        PROVE  g.bucket = f.bucket
    <3>1. PICK h \in files : h.id = g.id /\ h.bucket = g.bucket
      BY <2>1, <2>3 DEF IdsKept
    <3>2. QED
      BY <1>2, <2>3, <3>1 DEF HeldRow
  <2>4. QED
    BY <2>2, <2>3 DEF HeldRow
<1>3. ASSUME NEW r \in Deletes \cup {Idle}, DeleteHeld(r), r # Idle,
             r.at \in {"remove", "row"} => r.row \notin rows
      PROVE  DeleteHeld(r)'
  <2>1. r.row \in FileRows /\ r.bucket \in buckets /\ r.bucket \in buckets'
    BY <1>3 DEF Deletes, DeleteHeld
  <2>2. ASSUME r.at \in {"remove", "row"}
        PROVE  /\ HeldRow(r.row)' /\ r.row.bucket = r.bucket.id
               /\ ~r.bucket.versioning => r.row \in files'
    BY <1>2, <1>3, <2>1, <2>2 DEF DeleteHeld
  <2>3. QED
    BY <2>1, <2>2 DEF DeleteHeld
<1>4. ASSUME NEW r \in EmptyRuns \cup {Idle}, RunHeld(r), r # Idle, r.left \cap rows = {}
      PROVE  RunHeld(r)'
  <2>1. ASSUME NEW f \in r.left
        PROVE  /\ HeldRow(f)' /\ f.bucket = r.bucket.id
               /\ ~r.bucket.versioning => f \in files' \/ (r.at = "progress" /\ f = r.file)
    <3>1. f \in FileRows /\ HeldRow(f) /\ f.bucket = r.bucket.id /\ f \notin rows
      BY <1>4, <2>1 DEF EmptyRuns, RunHeld
    <3>2. r.at # "source" /\ r.bucket \in buckets
      BY <1>4, <2>1 DEF RunHeld
    <3>3. QED
      BY <1>2, <1>4, <3>1, <3>2 DEF RunHeld
  <2>2. QED
    BY <1>4, <2>1 DEF RunHeld
<1>5. QED
  BY <1>1, <1>2, <1>3, <1>4 DEF DeleteHeld, RunHeld

\* ... in particular if all of them stay
LEMMA AllHeldStays ==
  ASSUME TypeOK, TypeOK', NoCopies, Held, FileIds, buckets \subseteq buckets',
         uuid <= uuid', IdsKept,
         \A b \in buckets, f \in files : ~b.versioning /\ f.bucket = b.id => f \in files'
  PROVE  /\ \A u \in Uploaders : UNCHANGED up[u] => UploadHeld(up[u])'
         /\ \A d \in Deleters : UNCHANGED del[d] => DeleteHeld(del[d])'
         /\ \A w \in Executors : UNCHANGED run[w] => RunHeld(run[w])'
<1>0. PICK rows : rows = {}
  OBVIOUS
<1>1. \A b \in buckets, f \in files \ rows : ~b.versioning /\ f.bucket = b.id => f \in files'
  BY <1>0
<1>2. /\ \A r : UploadHeld(r) => UploadHeld(r)'
      /\ \A r \in Deletes \cup {Idle} :
           DeleteHeld(r) /\ (r # Idle /\ r.at \in {"remove", "row"} => r.row \notin rows)
             => DeleteHeld(r)'
      /\ \A r \in EmptyRuns \cup {Idle} :
           RunHeld(r) /\ (r # Idle => r.left \cap rows = {}) => RunHeld(r)'
  BY <1>1, HeldStays
<1>3. \A d \in Deleters : del[d] \in Deletes \cup {Idle}
  BY DEF TypeOK, RequestsTypeOK
<1>4. \A w \in Executors : run[w] \in EmptyRuns \cup {Idle}
  BY DEF NoCopies
<1>5. QED
  BY <1>0, <1>2, <1>3, <1>4 DEF Held

\* The files of rows stay on disk while none is removed
LEMMA OnDiskStays ==
  ASSUME PlainOnDisk, DOMAIN disk \subseteq DOMAIN disk',
         \A b \in buckets', f \in files' :
           ~b.versioning /\ f.bucket = b.id => b \in buckets /\ f \in files,
         \A f \in files' : Removing(f) => Removing(f)'
  PROVE  PlainOnDisk'
  BY DEF PlainOnDisk, PlainPath

\* The steps of the upload
LEMMA UploadKeepsHeld ==
  ASSUME CrossContext, NEW u \in Uploaders, UploadStep(u), UNCHANGED <<mk, del, drop, taskVars>>
  PROVE  Held' /\ FileWritten' /\ PlainOnDisk'
<1> USE DEF CrossContext
<1>0. /\ \A v \in Uploaders : v = u
      /\ uuid \in Nat /\ uuid' \in Nat
      /\ UNCHANGED <<del, run, buckets>>
      /\ ~UploadAborts(u)
  BY DEF OneEach, SoleUploader, TypeOK, StoreTypeOK, taskVars, UploadStep, Upload, DemoteLatest,
         CheckFree, SaveFile, InsertRow, UploadAborts, storeVars
<1>1. uuid' = uuid \/ uuid' = uuid + 1
  BY <1>0 DEF UploadStep, Upload, DemoteLatest, CheckFree, SaveFile, InsertRow, storeVars
<1>2. uuid <= uuid'
  BY ONLY <1>0, <1>1
<1>3. /\ IdsKept
      /\ \A b \in buckets, f \in files : ~b.versioning /\ f.bucket = b.id => f \in files'
  <2>1. CASE Upload(u) \/ CheckFree(u) \/ SaveFile(u)
    BY <2>1 DEF Upload, CheckFree, SaveFile, storeVars, IdsKept
  <2>2. CASE DemoteLatest(u)
    <3>1. PICK latest : \E flag \in BOOLEAN : latest = LatestOf(u) /\ SetLatest(latest, flag)
      BY <2>2 DEF DemoteLatest, OneEach
    <3>2. /\ \A f \in files' : \E g \in files : f.id = g.id /\ f.bucket = g.bucket
          /\ \A g \in files : g \notin LatestOf(u) => g \in files'
      BY <3>1, SetLatestRows DEF TypeOK, StoreTypeOK
    <3>3. ASSUME NEW b \in buckets, NEW f \in files, ~b.versioning, f.bucket = b.id
          PROVE  f \notin LatestOf(u)
      BY <2>2, <3>3 DEF LatestOf, RowsOf, DemoteLatest, VersionedInv, OneRowPerId, Idle
    <3>4. QED
      BY <3>2, <3>3 DEF IdsKept
  <2>3. CASE InsertRow(u)
    <3> DEFINE row == [id |-> uuid, bucket |-> up[u].bucket.id, name |-> up[u].key,
                   version |-> up[u].version, latest |-> TRUE, size |-> up[u].size]
    <3>1. row.id = uuid /\ InsertFile(row)
      BY <2>3 DEF InsertRow
    <3> HIDE DEF row
    <3>2. files \subseteq files' /\ files' \subseteq files \cup {row}
      BY <3>1 DEF InsertFile
    <3>3. ~ (row.id < uuid)
      BY ONLY <3>1, <1>0
    <3>4. QED
      BY <3>2, <3>3 DEF IdsKept
  <2>4. QED
    BY <1>0, <2>1, <2>2, <2>3 DEF UploadStep
<1>4. UploadHeld(up[u])'
  <2>1. CASE Upload(u)
    BY <1>0, <2>1 DEF Upload, BeginPart, Owned, UploadHeld, TypeOK, RequestsTypeOK
  <2>2. CASE DemoteLatest(u) \/ CheckFree(u) \/ SaveFile(u) \/ InsertRow(u)
    <3>1. up[u] # Idle /\ up[u] \in Uploads /\ up \in [Uploaders -> Uploads \cup {Idle}]
      <4>1. up[u].at \in {"mark", "save", "insert"}
        BY <2>2 DEF DemoteLatest, CheckFree, SaveFile, InsertRow
      <4>2. QED
        BY <4>1 DEF Idle, TypeOK, RequestsTypeOK
    <3>2. up[u].bucket \in buckets
      BY <3>1 DEF Held, UploadHeld
    <3>3. up'[u] = Idle \/ up'[u].bucket = up[u].bucket
      <4>1. CASE DemoteLatest(u)
        BY <3>1, <4>1 DEF DemoteLatest, Uploads
      <4>2. CASE CheckFree(u)
        BY <3>1, <4>2 DEF CheckFree, EndPart, BeginPart, Uploads
      <4>3. CASE SaveFile(u)
        BY <3>1, <4>3 DEF SaveFile, Uploads
      <4>4. CASE InsertRow(u)
        BY <3>1, <4>4 DEF InsertRow, EndPart, BeginPart
      <4>5. QED
        BY <2>2, <4>1, <4>2, <4>3, <4>4
    <3>4. QED
      BY <1>0, <3>2, <3>3 DEF UploadHeld
  <2>3. QED
    BY <1>0, <2>1, <2>2 DEF UploadStep
<1>5. Held'
  <2>1. \A d \in Deleters : DeleteHeld(del[d])'
    BY <1>0, <1>2, <1>3, AllHeldStays
  <2>2. \A w \in Executors : RunHeld(run[w])'
    BY <1>0, <1>2, <1>3, AllHeldStays
  <2>3. QED
    BY <1>0, <1>4, <2>1, <2>2 DEF Held
<1>6. FileWritten'
  <2>1. CASE SaveFile(u)
    <3>1. up[u] \in Uploads /\ up'[u] = [up[u] EXCEPT !.at = "insert"]
      BY <2>1 DEF SaveFile, TypeOK, RequestsTypeOK, Idle
    <3>2. UploadPath(u)' = UploadPath(u)
      BY <3>1, SavedUpload DEF UploadPath
    <3>3. QED
      BY <1>0, <2>1, <3>2 DEF SaveFile, WriteBlob, FileWritten
  <2>2. CASE Upload(u) \/ DemoteLatest(u) \/ CheckFree(u) \/ InsertRow(u)
    <3>1. up'[u] = Idle \/ up'[u].at # "insert"
      <4>1. CASE Upload(u) \/ InsertRow(u)
        BY <4>1 DEF Upload, InsertRow, EndPart, BeginPart, TypeOK, RequestsTypeOK
      <4>2. CASE DemoteLatest(u)
        BY <4>2 DEF DemoteLatest, TypeOK, RequestsTypeOK, Uploads, Idle
      <4>3. CASE CheckFree(u)
        BY <4>3 DEF CheckFree, EndPart, BeginPart, TypeOK, RequestsTypeOK, Uploads, Idle
      <4>4. QED
        BY <2>2, <4>1, <4>2, <4>3
    <3>2. QED
      BY <1>0, <3>1 DEF FileWritten, Plain
  <2>3. QED
    BY <1>0, <2>1, <2>2 DEF UploadStep
<1>7. PlainOnDisk'
  <2>0. \A f : Removing(f)' <=> Removing(f)
    BY <1>0 DEF Removing
  <2>1. DOMAIN disk \subseteq DOMAIN disk'
    BY <1>0 DEF UploadStep, Upload, DemoteLatest, CheckFree, SaveFile, InsertRow, WriteBlob,
                storeVars
  <2>2. CASE Upload(u) \/ DemoteLatest(u) \/ CheckFree(u) \/ SaveFile(u)
    <3>1. ASSUME NEW b \in buckets, NEW f \in files', ~b.versioning, f.bucket = b.id
          PROVE  f \in files
      <4>1. CASE UNCHANGED files
        BY <4>1
      <4>2. CASE DemoteLatest(u)
        <5>0. PICK latest : \E flag \in BOOLEAN : latest = LatestOf(u) /\ SetLatest(latest, flag)
          BY <4>2 DEF DemoteLatest, OneEach
        <5>1. PICK g \in files :
                (g \notin latest => f = g) /\ f.bucket = g.bucket
          BY <5>0, SetLatestRows DEF TypeOK, StoreTypeOK
        <5>2. g \notin LatestOf(u)
          <6>1. up[u] # Idle /\ up[u].bucket.versioning /\ g.bucket = b.id
            BY <3>1, <4>2, <5>1 DEF DemoteLatest, Idle
          <6>2. b.id = up[u].bucket.id => b = up[u].bucket
            BY <6>1 DEF VersionedInv, OneRowPerId
          <6>3. QED
            BY <3>1, <6>1, <6>2 DEF LatestOf, RowsOf
        <5>3. QED
          BY <5>0, <5>1, <5>2
      <4>3. QED
        BY <2>2, <4>1, <4>2 DEF Upload, DemoteLatest, CheckFree, SaveFile, storeVars
    <3>2. QED
      BY <1>0, <2>0, <2>1, <3>1, OnDiskStays
  <2>3. CASE InsertRow(u)
    <3> DEFINE row == [id |-> uuid, bucket |-> up[u].bucket.id, name |-> up[u].key,
                   version |-> up[u].version, latest |-> TRUE, size |-> up[u].size]
    <3>1. /\ row.bucket = up[u].bucket.id /\ row.name = up[u].key /\ InsertFile(row)
          /\ UNCHANGED disk /\ up[u] # Idle /\ up[u].at = "insert"
      BY <2>3 DEF InsertRow, Idle
    <3> HIDE DEF row
    <3>2. files' \subseteq files \cup {row}
      BY <3>1 DEF InsertFile
    <3>3. ASSUME NEW b \in buckets, ~b.versioning, row.bucket = b.id
          PROVE  PlainPath(b, row.name) \in DOMAIN disk
      <4>1. b = up[u].bucket
        BY <3>1, <3>3 DEF VersionedInv, OneRowPerId
      <4>2. QED
        BY <3>1, <3>3, <4>1 DEF FileWritten, Plain, UploadPath, BlobPath
    <3>4. ASSUME NEW b \in buckets', NEW f \in files', ~b.versioning, f.bucket = b.id
          PROVE  PlainPath(b, f.name)' \in DOMAIN disk' \/ Removing(f)'
      BY <1>0, <2>0, <3>1, <3>2, <3>3, <3>4 DEF PlainOnDisk, PlainPath
    <3>5. QED
      BY <3>4 DEF PlainOnDisk
  <2>4. QED
    BY <1>0, <2>2, <2>3 DEF UploadStep
<1>8. QED
  BY <1>5, <1>6, <1>7

\* A file is removed whose row was read: if the bucket has no versioning, the row
\* is there, and no other has the file
LEMMA RowOfFile ==
  ASSUME CrossContext, NEW bucket \in buckets, NEW row,
         row.bucket = bucket.id, ~bucket.versioning => row \in files
  PROVE  /\ \A b \in buckets, f \in files :
              ~b.versioning /\ f.bucket = b.id
                /\ PlainPath(b, f.name) = PlainPath(bucket, row.name) => f = row
         /\ \A u \in Uploaders :
              Plain(u) => UploadPath(u) # PlainPath(bucket, row.name)
<1> USE DEF CrossContext
<1>1. ASSUME NEW b \in buckets, NEW f \in files, ~b.versioning, f.bucket = b.id,
             PlainPath(b, f.name) = PlainPath(bucket, row.name)
      PROVE  f = row
  <2>1. b = bucket /\ f.name = row.name
    BY <1>1 DEF PlainPath, PlainInv, BucketNames
  <2>2. QED
    BY <1>1, <2>1 DEF PlainInv, UniqueName
<1>2. ASSUME NEW u \in Uploaders, Plain(u), UploadPath(u) = PlainPath(bucket, row.name)
      PROVE  FALSE
  <2>1. up[u].bucket.name = bucket.name /\ up[u].key = row.name
    BY <1>2 DEF Plain, UploadPath, BlobPath, PlainPath
  <2>2. up[u].bucket = bucket
    BY <1>2, <2>1 DEF Plain, Held, UploadHeld, PlainInv, BucketNames
  <2>3. QED
    BY <1>2, <2>1, <2>2 DEF Plain, PlainInv, NameFree
<1>3. QED
  BY <1>1, <1>2

\* The rows that go with the row that was read
LEMMA RowsOfId ==
  ASSUME CrossContext, NEW bucket \in buckets, NEW row,
         HeldRow(row), row.bucket = bucket.id, ~bucket.versioning => row \in files,
         NEW b \in buckets, NEW f \in files, ~b.versioning, f.bucket = b.id, f.id = row.id
  PROVE  f = row
<1>1. b = bucket
  BY DEF CrossContext, HeldRow, VersionedInv, OneRowPerId
<1>2. QED
  BY <1>1 DEF CrossContext, FileIds

\* The steps of the delete
LEMMA DeleteKeepsHeld ==
  ASSUME CrossContext, ~Crossing', NEW d \in Deleters, DeleteStep(d),
         UNCHANGED <<up, mk, drop, taskVars>>
  PROVE  Held' /\ FileWritten' /\ PlainOnDisk'
<1> USE DEF CrossContext
<1>0. /\ \A e \in Deleters : e = d
      /\ UNCHANGED <<up, run, buckets, uuid>> /\ uuid <= uuid'
      /\ ~DeleteAborts(d)
  <2>1. UNCHANGED <<up, run>> /\ ~DeleteAborts(d) /\ \A e \in Deleters : e = d
    BY DEF OneEach, taskVars, DeleteAborts
  <2>2. UNCHANGED <<buckets, uuid>>
    BY <2>1 DEF DeleteStep, Delete, RemoveFile, DeleteRow, FindNewest, PromoteNewest,
                storeVars
  <2>3. uuid <= uuid'
    BY <2>2 DEF TypeOK, StoreTypeOK
  <2>4. QED
    BY <2>1, <2>2, <2>3
<1>1. ASSUME del[d] # Idle, del[d].at \in {"remove", "row"}
      PROVE  /\ del[d] \in Deletes /\ del[d].bucket \in buckets
             /\ HeldRow(del[d].row) /\ del[d].row.bucket = del[d].bucket.id
             /\ ~del[d].bucket.versioning => del[d].row \in files
  BY <1>1 DEF Held, DeleteHeld, TypeOK, RequestsTypeOK
<1>2. CASE RemoveFile(d)
  <2>1. /\ del[d] # Idle /\ del[d].at = "remove" /\ del[d] \in Deletes
        /\ del'[d] = [del[d] EXCEPT !.at = "row"] /\ UNCHANGED files
        /\ RemoveBlob(PlainPath(del[d].bucket, del[d].row.name))
    BY <1>1, <1>2 DEF RemoveFile, Idle, TypeOK, RequestsTypeOK
  <2>2. /\ del'[d].at = "row" /\ del'[d].bucket = del[d].bucket
        /\ del'[d].row = del[d].row /\ del'[d] # Idle
    BY <2>1 DEF Deletes, Idle
  <2>3. IdsKept
    BY <2>1 DEF IdsKept
  <2>4. DeleteHeld(del[d])'
    BY <1>0, <1>1, <2>1, <2>2 DEF DeleteHeld, HeldRow
  <2>5. Held'
    BY <1>0, <2>1, <2>3, <2>4, AllHeldStays DEF Held
  <2>6. /\ \A b \in buckets, f \in files :
             ~b.versioning /\ f.bucket = b.id
                /\ PlainPath(b, f.name) = PlainPath(del[d].bucket, del[d].row.name)
                  => f = del[d].row
        /\ \A u \in Uploaders :
             Plain(u) => UploadPath(u) # PlainPath(del[d].bucket, del[d].row.name)
    BY <1>1, <2>1, RowOfFile
  <2>7. FileWritten'
    BY <1>0, <2>1, <2>6 DEF FileWritten, Plain, UploadPath, RemoveBlob
  <2>8. ASSUME NEW b \in buckets', NEW f \in files', ~b.versioning, f.bucket = b.id
        PROVE  PlainPath(b, f.name)' \in DOMAIN disk' \/ Removing(f)'
    <3>1. CASE Removing(f)
      BY <1>0, <2>1, <2>2, <3>1 DEF Removing
    <3>2. CASE f = del[d].row
      BY <2>2, <3>2 DEF Removing
    <3>3. CASE ~Removing(f) /\ f # del[d].row
      BY <1>0, <2>1, <2>6, <2>8, <3>3 DEF PlainOnDisk, RemoveBlob, PlainPath
    <3>4. QED
      BY <3>1, <3>2, <3>3
  <2>9. QED
    BY <2>5, <2>7, <2>8 DEF PlainOnDisk
<1>3. CASE DeleteRow(d)
  <2>1. /\ del[d] # Idle /\ del[d].at = "row" /\ DropFile(del[d].row.id)
        /\ UNCHANGED disk
        /\ del'[d] = Idle \/ (del'[d].at = "newest" /\ del'[d].bucket = del[d].bucket)
    BY <1>1, <1>3 DEF DeleteRow, Idle, TypeOK, RequestsTypeOK, Deletes
  <2>2. IdsKept /\ files' \subseteq files /\ \A f \in files' : f.id # del[d].row.id
    BY <2>1 DEF IdsKept, DropFile
  <2>3. PICK rows : rows = {del[d].row}
    OBVIOUS
  <2>4. \A b \in buckets, f \in files \ rows : ~b.versioning /\ f.bucket = b.id => f \in files'
    BY <1>1, <2>1, <2>3, RowsOfId DEF DropFile
  <2>5. /\ \A r : UploadHeld(r) => UploadHeld(r)'
        /\ \A r \in EmptyRuns \cup {Idle} :
              RunHeld(r) /\ (r # Idle => r.left \cap rows = {}) => RunHeld(r)'
    BY <1>0, <2>2, <2>4, HeldStays
  <2>6. ASSUME NEW w \in Executors
        PROVE  RunHeld(run[w])'
    <3>1. run[w] # Idle => run[w].left \cap rows = {}
      BY <2>1, <2>3 DEF Crossing
    <3>2. run[w] \in EmptyRuns \cup {Idle} /\ RunHeld(run[w])
      BY DEF NoCopies, Held
    <3>3. QED
      BY <1>0, <2>5, <3>1, <3>2
  <2>7. DeleteHeld(del[d])'
    BY <1>0, <1>1, <2>1 DEF DeleteHeld
  <2>8. Held'
    BY <1>0, <2>5, <2>6, <2>7 DEF Held
  <2>9. \A f \in files' : Removing(f) => Removing(f)'
    BY <1>0, <2>2 DEF Removing
  <2>10. FileWritten' /\ PlainOnDisk'
    BY <1>0, <2>1, <2>2, <2>9, OnDiskStays DEF FileWritten, Plain, UploadPath
  <2>11. QED
    BY <2>8, <2>10
<1>4. CASE Delete(d) \/ FindNewest(d) \/ PromoteNewest(d)
  <2>1. UNCHANGED disk /\ ~(del[d] # Idle /\ del[d].at = "row")
    BY <1>4 DEF Delete, FindNewest, PromoteNewest, storeVars
  <2>2. \A f : Removing(f) => Removing(f)'
    BY <1>0, <2>1 DEF Removing
  <2>3. /\ IdsKept
        /\ \A b \in buckets, f \in files : ~b.versioning /\ f.bucket = b.id => f \in files'
        /\ \A b \in buckets, f \in files' : ~b.versioning /\ f.bucket = b.id => f \in files
    <3>1. CASE UNCHANGED files
      BY <3>1 DEF IdsKept
    <3>2. CASE SetLatest({f \in files : f.id = del[d].target}, TRUE)
      <4>0. PICK flag \in BOOLEAN : flag = TRUE
        OBVIOUS
      <4>1. PICK rows : SetLatest(rows, flag)
        BY <3>2, <4>0
      <4>2. /\ \A f \in files' : \E g \in files :
                 /\ f = g \/ f = [g EXCEPT !.latest = flag]
                 /\ f.id = g.id /\ f.bucket = g.bucket
            /\ \A g \in files : \E f \in files' :
                 /\ f = g \/ f = [g EXCEPT !.latest = flag]
                 /\ f.id = g.id /\ f.bucket = g.bucket
        BY <4>1, SetLatestRows DEF TypeOK, StoreTypeOK
      <4>3. ASSUME NEW b \in buckets, NEW g \in files, ~b.versioning, g.bucket = b.id
            PROVE  [g EXCEPT !.latest = flag] = g
        BY <4>0, <4>3 DEF PlainInv, AllLatest, TypeOK, StoreTypeOK, FileRows
      <4>4. QED
        BY <1>0, <4>2, <4>3 DEF IdsKept
    <3>3. QED
      BY <1>4, <3>1, <3>2 DEF Delete, FindNewest, PromoteNewest, storeVars
  <2>4. DeleteHeld(del[d])'
    <3>1. CASE Delete(d)
      <4>1. PICK bucket \in buckets, f \in files :
              /\ f.bucket = bucket.id
              /\ del'[d] = [at |-> "remove", bucket |-> bucket, row |-> f, target |-> 0]
        BY <3>1 DEF Delete, Owned, RowsOf, TypeOK, RequestsTypeOK
      <4>2. HeldRow(f)' /\ UNCHANGED files
        BY <3>1 DEF HeldRow, FileIds, Delete, storeVars
      <4>3. QED
        BY <1>0, <4>1, <4>2 DEF DeleteHeld
    <3>2. CASE FindNewest(d) \/ PromoteNewest(d)
      <4>1. del[d] # Idle /\ del[d] \in Deletes /\ del[d].bucket \in buckets
        <5>1. del[d].at \in {"newest", "promote"}
          BY <3>2 DEF FindNewest, PromoteNewest
        <5>2. QED
          BY <5>1 DEF Idle, TypeOK, RequestsTypeOK, Held, DeleteHeld
      <4>2. del'[d] = Idle \/ (del'[d].at = "promote" /\ del'[d].bucket = del[d].bucket)
        BY <3>2, <4>1 DEF FindNewest, PromoteNewest, TypeOK, RequestsTypeOK, Deletes
      <4>3. QED
        BY <1>0, <4>1, <4>2 DEF DeleteHeld
    <3>3. QED
      BY <1>4, <3>1, <3>2
  <2>5. Held'
    BY <1>0, <2>3, <2>4, AllHeldStays DEF Held
  <2>6. FileWritten' /\ PlainOnDisk'
    BY <1>0, <2>1, <2>2, <2>3, OnDiskStays DEF FileWritten, Plain, UploadPath
  <2>7. QED
    BY <2>5, <2>6
<1>5. QED
  BY <1>0, <1>2, <1>3, <1>4 DEF DeleteStep

\* A step that leaves alone the rows, the files and what is held
LEMMA IdleStepKeepsHeld ==
  ASSUME CrossContext, UNCHANGED <<files, disk, up, del, run>>, buckets \subseteq buckets',
         uuid <= uuid',
         \A b \in buckets' \ buckets, f \in files : f.bucket # b.id
  PROVE  Held' /\ FileWritten' /\ PlainOnDisk'
<1> USE DEF CrossContext
<1>1. IdsKept
  BY DEF IdsKept
<1>2. Held'
  BY <1>1, AllHeldStays DEF Held
<1>3. FileWritten'
  BY DEF FileWritten, Plain, UploadPath
<1>4. \A f \in files' : Removing(f) => Removing(f)'
  BY DEF Removing
<1>5. PlainOnDisk'
  BY <1>4, OnDiskStays
<1>6. QED
  BY <1>2, <1>3, <1>5

\* The steps of CreateBucket: the new bucket is empty
LEMMA CreateKeepsHeld ==
  ASSUME CrossContext, NEW c \in Creators, CreateStep(c),
         UNCHANGED <<up, del, drop, taskVars>>
  PROVE  Held' /\ FileWritten' /\ PlainOnDisk'
<1> USE DEF CrossContext
<1>1. uuid \in Nat /\ (uuid' = uuid \/ uuid' = uuid + 1)
  BY DEF TypeOK, StoreTypeOK, CreateStep, Create, InsertBucketRow, CreateAborts, storeVars
<1>2. uuid <= uuid'
  BY ONLY <1>1
<1>3. UNCHANGED <<files, disk, run>>
  BY DEF CreateStep, Create, InsertBucketRow, CreateAborts, storeVars, taskVars
<1>4. CASE Create(c) \/ CreateAborts(c)
  BY <1>2, <1>3, <1>4, IdleStepKeepsHeld DEF Create, CreateAborts, storeVars
<1>5. CASE InsertBucketRow(c)
  <2>1. PICK row : InsertBucket(row) /\ row.id = uuid
    BY <1>5 DEF InsertBucketRow
  <2>2. buckets \subseteq buckets' /\ buckets' \subseteq buckets \cup {row}
    BY <2>1 DEF InsertBucket
  <2>3. \A f \in files : f.bucket # row.id
    BY <2>1 DEF VersionedInv, Drawn, TypeOK, StoreTypeOK, FileRows
  <2>4. QED
    BY <1>2, <1>3, <2>2, <2>3, IdleStepKeepsHeld
<1>6. QED
  BY <1>4, <1>5 DEF CreateStep

\* The steps of the requests for an emptying
LEMMA AskKeepsHeld ==
  ASSUME CrossContext, UNCHANGED requests, NEW q \in Requesters,
         Tasks!Ask(q) \/ Tasks!Serve(q) \/ Tasks!AskAborts(q)
  PROVE  Held' /\ FileWritten' /\ PlainOnDisk'
<1> USE DEF CrossContext
<1>0. ~Tasks!FindDest(q) /\ ~Tasks!CreateDest(q)
  BY DEF NoCopies, Tasks!FindDest, Tasks!CreateDest, EmptyAsks, Idle
<1>1. /\ UNCHANGED <<buckets, files, disk, run>>
      /\ uuid' = uuid \/ uuid' = uuid + 1
  BY <1>0 DEF Tasks!Ask, Tasks!Serve, Tasks!Enqueue, Tasks!Record, Tasks!AskAborts,
              Tasks!storeVars
<1>2. uuid \in Nat
  BY DEF TypeOK, StoreTypeOK
<1>3. uuid <= uuid'
  BY ONLY <1>1, <1>2
<1>4. QED
  BY <1>1, <1>3, IdleStepKeepsHeld DEF requests

\* The steps of the emptying
LEMMA RunKeepsHeld ==
  ASSUME CrossContext, ~Crossing', UNCHANGED requests, NEW w \in Executors,
         Tasks!Start(w) \/ Tasks!Work(w) \/ Tasks!Stops(w) \/ Tasks!TimesOut(w)
  PROVE  Held' /\ FileWritten' /\ PlainOnDisk'
<1> USE DEF CrossContext
<1>0. /\ \A v \in Executors : v = w
      /\ UNCHANGED <<up, del>>
      /\ ~Tasks!Stops(w) /\ ~Tasks!TimesOut(w) /\ ~Tasks!Silent
      /\ run[w] \in EmptyRuns \cup {Idle} /\ RunHeld(run[w])
  BY DEF OneEach, requests, Tasks!Stops, Tasks!TimesOut, Tasks!Silent, NoCopies, Held
<1>1. ASSUME run[w].at \in {"source", "list", "file", "row", "progress", "ack"}
      PROVE  run[w] # Idle /\ run[w] \in EmptyRuns
  BY <1>0, <1>1 DEF Idle
<1>2. CASE Tasks!RemoveFile(w)
  <2>1. PICK f \in run[w].left :
          /\ run' = [run EXCEPT ![w].file = f, ![w].at = "row"]
          /\ RemoveBlob(PlainPath(run[w].bucket, f.name))
    BY <1>0, <1>2, SameStatements DEF Tasks!RemoveFile
  <2>2. /\ UNCHANGED <<buckets, files, uuid>>
        /\ run[w] # Idle /\ run[w].at = "file" /\ run[w] \in EmptyRuns
    BY <1>1, <1>2 DEF Tasks!RemoveFile
  <2>3. run'[w] = [run[w] EXCEPT !.file = f, !.at = "row"]
    BY <2>1 DEF NoCopies
  <2>4. /\ run'[w] # Idle /\ run'[w].at = "row" /\ run'[w].file = f
        /\ run'[w].left = run[w].left /\ run'[w].bucket = run[w].bucket
    BY <2>2, <2>3 DEF EmptyRuns, Idle
  <2>5. /\ run[w].bucket \in buckets /\ f.bucket = run[w].bucket.id
        /\ ~run[w].bucket.versioning => f \in files
    BY <1>0, <2>2 DEF RunHeld
  <2>6. uuid <= uuid' /\ IdsKept
    BY <2>2 DEF IdsKept, TypeOK, StoreTypeOK
  <2>7. RunHeld(run[w])'
    BY <1>0, <2>2, <2>4 DEF RunHeld, HeldRow
  <2>8. Held'
    BY <1>0, <2>2, <2>6, <2>7, AllHeldStays DEF Held
  <2>9. /\ \A b \in buckets, g \in files :
             ~b.versioning /\ g.bucket = b.id
                /\ PlainPath(b, g.name) = PlainPath(run[w].bucket, f.name) => g = f
        /\ \A u \in Uploaders :
             Plain(u) => UploadPath(u) # PlainPath(run[w].bucket, f.name)
    BY <2>5, RowOfFile
  <2>10. FileWritten'
    BY <1>0, <2>1, <2>9 DEF FileWritten, Plain, UploadPath, RemoveBlob
  <2>11. ASSUME NEW b \in buckets', NEW g \in files', ~b.versioning, g.bucket = b.id
         PROVE  PlainPath(b, g.name)' \in DOMAIN disk' \/ Removing(g)'
    <3>1. CASE Removing(g)
      BY <1>0, <2>2, <3>1 DEF Removing
    <3>2. CASE g = f
      BY <2>4, <3>2 DEF Removing
    <3>3. CASE ~Removing(g) /\ g # f
      BY <2>1, <2>2, <2>9, <2>11, <3>3 DEF PlainOnDisk, RemoveBlob, PlainPath
    <3>4. QED
      BY <3>1, <3>2, <3>3
  <2>12. QED
    BY <2>8, <2>10, <2>11 DEF PlainOnDisk
<1>3. CASE Tasks!DeleteRow(w)
  <2>1. /\ UNCHANGED <<buckets, disk, uuid>> /\ DropFile(run[w].file.id)
        /\ run[w] # Idle /\ run[w].at = "row" /\ run[w] \in EmptyRuns
        /\ run' = [run EXCEPT ![w].at = "progress"]
    BY <1>0, <1>1, <1>3, SameStatements DEF Tasks!DeleteRow
  <2>2. run'[w] = [run[w] EXCEPT !.at = "progress"]
    BY <2>1 DEF NoCopies
  <2>3. /\ run'[w] # Idle /\ run'[w].at = "progress" /\ run'[w].file = run[w].file
        /\ run'[w].left = run[w].left /\ run'[w].bucket = run[w].bucket
    BY <2>1, <2>2 DEF EmptyRuns, Idle
  <2>4. /\ run[w].bucket \in buckets /\ run[w].file \in run[w].left
        /\ HeldRow(run[w].file) /\ run[w].file.bucket = run[w].bucket.id
        /\ ~run[w].bucket.versioning => run[w].file \in files
    BY <1>0, <2>1 DEF RunHeld
  <2>5. /\ uuid <= uuid' /\ IdsKept
        /\ files' \subseteq files /\ \A f \in files' : f.id # run[w].file.id
    BY <2>1 DEF IdsKept, DropFile, TypeOK, StoreTypeOK
  <2>6. PICK rows : rows = {run[w].file}
    OBVIOUS
  <2>7. \A b \in buckets, f \in files \ rows : ~b.versioning /\ f.bucket = b.id => f \in files'
    BY <2>1, <2>4, <2>6, RowsOfId DEF DropFile
  <2>8. /\ \A r : UploadHeld(r) => UploadHeld(r)'
        /\ \A f \in FileRows : HeldRow(f) => HeldRow(f)'
        /\ \A r \in Deletes \cup {Idle} :
             DeleteHeld(r) /\ (r # Idle /\ r.at \in {"remove", "row"} => r.row \notin rows)
               => DeleteHeld(r)'
    BY <2>1, <2>5, <2>7, HeldStays
  <2>9. ASSUME NEW d \in Deleters
        PROVE  DeleteHeld(del[d])'
    <3>1. del[d] # Idle /\ del[d].at \in {"remove", "row"} => del[d].row \notin rows
      BY <2>1, <2>4, <2>6 DEF Crossing
    <3>2. del[d] \in Deletes \cup {Idle} /\ DeleteHeld(del[d])
      BY DEF TypeOK, RequestsTypeOK, Held
    <3>3. QED
      BY <1>0, <2>8, <3>1, <3>2
  <2>10. RunHeld(run[w])'
    <3>1. ASSUME NEW f \in run[w].left
          PROVE  /\ HeldRow(f)' /\ f.bucket = run[w].bucket.id
                 /\ ~run[w].bucket.versioning => f \in files' \/ f = run[w].file
      <4>1. /\ f \in FileRows /\ HeldRow(f) /\ f.bucket = run[w].bucket.id
            /\ ~run[w].bucket.versioning => f \in files
        BY <1>0, <2>1 DEF RunHeld, EmptyRuns
      <4>2. QED
        BY <2>4, <2>6, <2>7, <2>8, <4>1
    <3>2. QED
      BY <2>1, <2>3, <2>4, <3>1 DEF RunHeld
  <2>11. Held'
    BY <1>0, <2>8, <2>9, <2>10 DEF Held
  <2>12. \A f \in files' : Removing(f) => Removing(f)'
    BY <1>0, <2>5 DEF Removing
  <2>13. FileWritten' /\ PlainOnDisk'
    BY <1>0, <2>1, <2>5, <2>12, OnDiskStays DEF FileWritten, Plain, UploadPath
  <2>14. QED
    BY <2>11, <2>13
<1>4. CASE \/ Tasks!Start(w) \/ Tasks!FindSource(w) \/ Tasks!ListFiles(w)
           \/ Tasks!Progress(w) \/ Tasks!Finish(w) \/ Tasks!Acknowledge(w)
  <2>1. UNCHANGED <<buckets, files, disk, uuid>>
    BY <1>4 DEF Tasks!Start, Tasks!FindSource, Tasks!ListFiles, Tasks!Progress,
                Tasks!Finish, Tasks!Acknowledge, Tasks!storeVars
  <2>2. uuid <= uuid' /\ IdsKept
    BY <2>1 DEF IdsKept, TypeOK, StoreTypeOK
  <2>3. run[w] # Idle => run[w].at # "row"
    BY <1>4, SameStatements DEF Tasks!Start, Tasks!FindSource, Tasks!ListFiles,
            Tasks!Progress, Tasks!Finish, Tasks!Acknowledge
  <2>4. RunHeld(run[w])'
    <3>1. CASE Tasks!Start(w)
      <4>1. PICK m \in queue :
              run' = [run EXCEPT ![w] =
                       [at |-> "source", job |-> m.job, late |-> FALSE,
                        bucket |-> Tasks!NoRow, dest |-> Tasks!NoRow, left |-> {},
                        total |-> 0, file |-> Tasks!NoRow, content |-> Torn]]
        BY <3>1, Zenon DEF Tasks!Start
      <4>2. run'[w].at = "source" /\ run'[w].left = {}
        BY <4>1 DEF NoCopies
      <4>3. QED
        BY <4>2 DEF RunHeld
    <3>2. CASE Tasks!FindSource(w)
      <4>1. run[w] # Idle /\ run[w] \in EmptyRuns /\ run[w].at = "source"
        BY <1>1, <3>2 DEF Tasks!FindSource
      <4>2. \/ run'[w] = Idle
            \/ \E b \in buckets : run'[w] = [run[w] EXCEPT !.bucket = b, !.at = "list"]
        BY <3>2, <4>1, SameStatements
           DEF Tasks!FindSource, Tasks!Sources, Tasks!IsCopy, Tasks!Fails, EmptyRuns, EmptyJobs,
               NoCopies
      <4>3. run'[w] = Idle \/ (run'[w].bucket \in buckets /\ run'[w].left = {}
                                 /\ run'[w].at = "list")
        BY <1>0, <4>1, <4>2 DEF EmptyRuns, RunHeld
      <4>4. QED
        BY <2>1, <4>3 DEF RunHeld
    <3>3. CASE Tasks!ListFiles(w)
      <4>1. run[w] # Idle /\ run[w] \in EmptyRuns /\ run[w].at = "list"
        BY <1>1, <3>3 DEF Tasks!ListFiles
      <4>2. /\ run'[w].at = "file" /\ run'[w].bucket = run[w].bucket
            /\ run'[w].left = FilesIn(run[w].bucket)
        BY <3>3, <4>1, SameStatements DEF Tasks!ListFiles, EmptyRuns, NoCopies
      <4>3. run[w].bucket \in buckets
        BY <1>0, <4>1 DEF RunHeld
      <4>4. \A f \in files : HeldRow(f)'
        BY <2>1 DEF FileIds, HeldRow
      <4>5. QED
        BY <2>1, <4>2, <4>3, <4>4 DEF RunHeld, FilesIn
    <3>4. CASE Tasks!Progress(w)
      <4>1. run[w] # Idle /\ run[w] \in EmptyRuns /\ run[w].at = "progress"
        BY <1>1, <3>4 DEF Tasks!Progress
      <4>2. /\ run'[w].at = "file" /\ run'[w].bucket = run[w].bucket
            /\ run'[w].left = run[w].left \ {run[w].file}
        BY <3>4, <4>1 DEF Tasks!Progress, EmptyRuns, NoCopies
      <4>3. QED
        BY <1>0, <2>1, <4>1, <4>2 DEF RunHeld, HeldRow
    <3>5. CASE Tasks!Finish(w)
      <4>1. run[w] # Idle /\ run[w] \in EmptyRuns /\ run[w].at = "file" /\ run[w].left = {}
        BY <1>1, <3>5 DEF Tasks!Finish
      <4>2. run'[w].at = "ack" /\ run'[w].bucket = run[w].bucket /\ run'[w].left = {}
        BY <3>5, <4>1 DEF Tasks!Finish, EmptyRuns, NoCopies
      <4>3. QED
        BY <1>0, <2>1, <4>1, <4>2 DEF RunHeld
    <3>6. CASE Tasks!Acknowledge(w)
      BY <3>6, SameStatements DEF Tasks!Acknowledge, NoCopies, RunHeld
    <3>7. QED
      BY <1>4, <3>1, <3>2, <3>3, <3>4, <3>5, <3>6
  <2>5. Held'
    BY <1>0, <2>1, <2>2, <2>4, AllHeldStays DEF Held
  <2>6. \A f \in files' : Removing(f) => Removing(f)'
    BY <1>0, <2>3 DEF Removing
  <2>7. FileWritten' /\ PlainOnDisk'
    BY <1>0, <2>1, <2>6, OnDiskStays DEF FileWritten, Plain, UploadPath
  <2>8. QED
    BY <2>5, <2>7
<1>5. ~ (\/ Tasks!WorkerFindsDest(w) \/ Tasks!WorkerCreatesDest(w)
         \/ Tasks!ReadFile(w) \/ Tasks!WriteFile(w) \/ Tasks!InsertRow(w))
  <2>1. ASSUME \/ Tasks!WorkerFindsDest(w) \/ Tasks!WorkerCreatesDest(w)
               \/ Tasks!ReadFile(w) \/ Tasks!WriteFile(w) \/ Tasks!InsertRow(w)
        PROVE  /\ run[w].at \in {"dest", "create", "write"} \/ Tasks!IsCopy(run[w].job)
               /\ run[w].at \in {"dest", "create", "write", "file", "row"}
    BY <2>1 DEF Tasks!WorkerFindsDest, Tasks!WorkerCreatesDest, Tasks!ReadFile,
                Tasks!WriteFile, Tasks!InsertRow
  <2>2. QED
    BY <1>0, <2>1 DEF EmptyRuns, EmptyJobs, Tasks!IsCopy, Idle
<1>6. QED
  BY <1>0, <1>2, <1>3, <1>4, <1>5 DEF Tasks!Work

\* The faults of a behaviour are chosen at its start
LEMMA FaultsStay ==
  ASSUME SystemNext
  PROVE  UNCHANGED faults
  BY DEF SystemNext, HandlerStep, TaskStep, taskVars, Tasks!Next, Tasks!Ask,
         Tasks!Serve, Tasks!AskAborts, Tasks!FindDest, Tasks!CreateDest, Tasks!Enqueue,
         Tasks!Record, Tasks!Start, Tasks!Work, Tasks!FindSource, Tasks!WorkerFindsDest,
         Tasks!WorkerCreatesDest, Tasks!ListFiles, Tasks!RemoveFile, Tasks!DeleteRow,
         Tasks!ReadFile, Tasks!WriteFile, Tasks!InsertRow, Tasks!Progress, Tasks!Finish,
         Tasks!Acknowledge, Tasks!Stops, Tasks!ShutsDown, Tasks!TimesOut,
         Tasks!DeleteEmptyBucket

\* No step breaks the invariant
LEMMA CrossKept ==
  ASSUME OnlyEmptyings, OneEach, TypeOK, TypeOK', NoCopies, NoCopies', VersionedInv,
         PlainInv, FileIds, FileIds', CrossInv, [SystemNext]_systemVars
  PROVE  CrossInv'
<1>1. CASE UNCHANGED systemVars
  <2>1. UNCHANGED <<buckets, files, disk, uuid, up, del, run, crossed, faults>>
    BY <1>1 DEF systemVars
  <2>2. Held' <=> Held
    BY <2>1 DEF Held, UploadHeld, DeleteHeld, RunHeld, HeldRow
  <2>3. (Crossing' <=> Crossing) /\ (FileWritten' <=> FileWritten)
        /\ (PlainOnDisk' <=> PlainOnDisk)
    BY <2>1 DEF Crossing, FileWritten, Plain, UploadPath, PlainOnDisk, PlainPath, Removing
  <2>4. QED
    BY <2>1, <2>2, <2>3 DEF CrossInv
<1>2. CASE SystemNext
  <2>1. Notice /\ UNCHANGED faults
    BY <1>2, FaultsStay DEF SystemNext, HandlerStep, TaskStep
  <2>2. CASE crossed \/ Crossing' \/ faults # {}
    BY <2>1, <2>2 DEF Notice, CrossInv
  <2>3. CASE ~crossed /\ ~Crossing' /\ faults = {}
    <3>1. CrossContext
      BY <2>3 DEF CrossInv, CrossContext
    <3>2. CASE HandlerStep
      <4>1. \A x \in Droppers : FALSE
        BY DEF OneEach
      <4>2. CASE \E u \in Uploaders : UploadStep(u)
        <5>1. UNCHANGED <<mk, del, drop, taskVars>>
          BY <3>2, <4>2 DEF HandlerStep, UploadStep, Upload, DemoteLatest, CheckFree, SaveFile,
                       InsertRow, UploadAborts
        <5>2. QED
          BY <2>3, <3>1, <4>2, <5>1, UploadKeepsHeld DEF CrossInv
      <4>3. CASE \E d \in Deleters : DeleteStep(d)
        <5>1. UNCHANGED <<up, mk, drop, taskVars>>
          BY <3>2, <4>3 DEF HandlerStep, DeleteStep, Delete, RemoveFile, DeleteRow, FindNewest,
                       PromoteNewest, DeleteAborts
        <5>2. QED
          BY <2>3, <3>1, <4>3, <5>1, DeleteKeepsHeld DEF CrossInv
      <4>4. CASE \E c \in Creators : CreateStep(c)
        <5>1. UNCHANGED <<up, del, drop, taskVars>>
          BY <3>2, <4>4 DEF HandlerStep, CreateStep, Create, InsertBucketRow, CreateAborts
        <5>2. QED
          BY <2>3, <3>1, <4>4, <5>1, CreateKeepsHeld DEF CrossInv
      <4>5. QED
        BY <3>2, <4>1, <4>2, <4>3, <4>4 DEF HandlerStep, Next
    <3>3. CASE TaskStep
      <4>1. Held' /\ FileWritten' /\ PlainOnDisk'
        <5>1. UNCHANGED requests /\ ~Tasks!DeleteEmptyBucket /\ ~Tasks!ShutsDown
          BY <2>3, <3>3 DEF TaskStep, Tasks!DeleteEmptyBucket, Tasks!ShutsDown
        <5>2. CASE \E q \in Requesters : Tasks!Ask(q) \/ Tasks!Serve(q) \/ Tasks!AskAborts(q)
          BY <3>1, <5>1, <5>2, AskKeepsHeld
        <5>3. CASE \E w \in Executors :
                     Tasks!Start(w) \/ Tasks!Work(w) \/ Tasks!Stops(w) \/ Tasks!TimesOut(w)
          BY <2>3, <3>1, <5>1, <5>3, RunKeepsHeld
        <5>4. QED
          BY <3>3, <5>1, <5>2, <5>3 DEF TaskStep, Tasks!Next
      <4>2. QED
        BY <2>3, <4>1 DEF CrossInv
    <3>4. QED
      BY <1>2, <3>2, <3>3 DEF SystemNext
  <2>4. QED
    BY <2>2, <2>3
<1>3. QED
  BY <1>1, <1>2

\* Ids of file rows stay drawn and unique beside the worker
LEMMA IdsStayUnique ==
  ASSUME TypeOK, TypeOK', FileIds, [Next]_vars \/ (TaskEffect /\ UNCHANGED requests)
  PROVE  FileIds'
<1>1. CASE Next
  BY <1>1, FileIdsKept
<1>2. CASE UNCHANGED vars
  BY <1>2 DEF vars, FileIds
<1>3. CASE TaskEffect
  <2>1. files' \subseteq files /\ (uuid' = uuid \/ uuid' = uuid + 1)
    BY <1>3 DEF TaskEffect, DropFile, DropBucket
  <2>2. uuid \in Nat /\ uuid' \in Nat
    BY DEF TypeOK, StoreTypeOK
  <2>3. ASSUME NEW f \in files'
        PROVE  f.id < uuid'
    <3>1. f.id \in Nat /\ f.id < uuid
      BY <2>1 DEF FileIds, TypeOK, StoreTypeOK, FileRows
    <3>2. QED
      BY ONLY <2>1, <2>2, <3>1
  <2>4. QED
    BY <2>1, <2>3 DEF FileIds
<1>4. QED
  BY <1>1, <1>2, <1>3

\* An emptying takes the row of a name before anyone can upload the name again,
\* so beside one upload and one delete it never takes the file of a later upload
\* - unless it and the delete have come to hold the same row, or something failed
\* between a file and its row
THEOREM EmptyingKeepsPlainBlobs ==
  ASSUME OnlyEmptyings, OneEach
  PROVE  SystemSpec => []PlainBlobsUnlessCrossed
<1>0. SoleUploader /\ ~Ignored
  BY DEF OneEach
<1>1. TypeOK /\ TypeOK' /\ NoCopies /\ FileIds /\ [SystemNext]_systemVars => FileIds'
  BY SystemStepEffect, IdsStayUnique
<1>2. TypeOK /\ TypeOK' /\ NoCopies /\ NoCopies' /\ VersionedInv /\ PlainInv
        /\ FileIds /\ FileIds' /\ CrossInv /\ [SystemNext]_systemVars => CrossInv'
  BY CrossKept
<1>3. SystemInit => CrossInv
  <2> SUFFICES ASSUME SystemInit PROVE CrossInv
    OBVIOUS
  <2>1. /\ \A u \in Uploaders : up[u] = Idle
        /\ \A d \in Deleters : del[d] = Idle
        /\ \A w \in Executors : run[w] = Idle
        /\ files = {}
    BY SameStatements DEF SystemInit, Init, StoreInit, Tasks!TasksInit
  <2>2. ~Crossing /\ Held /\ FileWritten /\ PlainOnDisk
    BY <2>1 DEF Crossing, Held, UploadHeld, DeleteHeld, RunHeld, FileWritten, Plain, PlainOnDisk
  <2>3. QED
    BY <2>2 DEF CrossInv
<1>4. PlainInv /\ CrossInv => PlainBlobsUnlessCrossed
  <2> SUFFICES ASSUME PlainInv, CrossInv, faults = {}, ~crossed,
                      NEW b \in buckets, NEW f \in files, ~b.versioning, f.bucket = b.id
               PROVE  Serves(b, f) \/ Removing(f)
    BY DEF PlainBlobsUnlessCrossed
  <2>1. PlainPath(b, f.name) \in DOMAIN disk \/ Removing(f)
    BY DEF CrossInv, PlainOnDisk
  <2>2. QED
    BY <2>1 DEF PlainInv, NoForeignContent
<1>5. QED
  BY <1>0, <1>1, <1>2, <1>3, <1>4, SystemStarts, SystemPlainInvariant, PTL DEF SystemSpec

-----------------------------------------------------------------------------
(* An emptying beside any uploads and one delete, in a bucket with          *)
(* versioning: the newest row of a name is the latest, or somebody is about *)
(* to make it so, or to delete it                                           *)

OneDeleter == (\A d, e \in Deleters : d = e) /\ ~Abort /\ ~Ignored

\* The emptying has yet to delete the row
Listed(w, f) == run[w] # Idle /\ \E g \in run[w].left : g.id = f.id

Uploading(f) ==
  \E u \in Uploaders :
    /\ up[u] # Idle /\ up[u].at \in {"save", "insert"}
    /\ up[u].bucket.id = f.bucket /\ up[u].key = f.name

Promoting(f) ==
  \E d \in Deleters :
    /\ del[d] # Idle
    /\ del[d].at = "newest" \/ (del[d].at = "promote" /\ del[d].target = f.id)
    /\ del[d].bucket.id = f.bucket /\ del[d].row.name = f.name

Attended(f) ==
  f.latest \/ Uploading(f) \/ Promoting(f) \/ \E w \in Executors : Listed(w, f)

NewestAttended ==
  \A f \in files : IsNewest(f, RowsOf(f.bucket, f.name)) => Attended(f)

\* files.bucket_id references buckets
RowsHaveBuckets == \A f \in files : \E b \in buckets : b.id = f.bucket

\* The list of an emptying had all rows of the bucket: with a row, the older ones
OlderListed(w) ==
  \A f, g \in files : f.bucket = g.bucket /\ f.id <= g.id /\ Listed(w, g) => Listed(w, f)

\* A row that a delete has read as not latest does not become latest: only the
\* delete itself could make it so
DeleteKnows(r) == r # Idle =>
  /\ r.bucket.id < uuid
  /\ \A b \in buckets : b.id = r.bucket.id => b.versioning = r.bucket.versioning
  /\ r.at \in {"remove", "row"} =>
       /\ r.row.id < uuid
       /\ \A f \in files : f.id = r.row.id =>
            f.bucket = r.bucket.id /\ f.name = r.row.name /\ (f.latest => r.row.latest)

RunKnows(r) == r # Idle =>
  /\ r.at \in {"source", "list", "ack"} => r.left = {}
  /\ \A f \in r.left : f.id < uuid
  /\ r.at \in {"row", "progress"} => r.file \in r.left
  /\ r.at = "progress" => \A f \in files : f.id # r.file.id

Knows ==
  /\ \A d \in Deleters : DeleteKnows(del[d])
  /\ \A w \in Executors : RunKnows(run[w]) /\ OlderListed(w)

Attention == AllLatest /\ RowsHaveBuckets /\ Knows /\ NewestAttended

LatestInv == faults # {} \/ Attention

\* What the proofs take from the invariants above
LatestContext ==
  /\ OneDeleter /\ faults = {}
  /\ TypeOK /\ TypeOK' /\ NoCopies /\ NoCopies'
  /\ VersionedInv /\ FileIds /\ FileIds' /\ Attention

\* A row with an id that was drawn is, but for is_latest, a row that was there
RowsStand ==
  \A f \in files' : f.id < uuid =>
    \E g \in files : g.id = f.id /\ g.bucket = f.bucket /\ g.name = f.name

\* ... and was latest if it is
NoneBecomesLatest ==
  \A f \in files' : f.id < uuid =>
    \E g \in files : /\ g.id = f.id /\ g.bucket = f.bucket /\ g.name = f.name
                     /\ f.latest => g.latest

\* What the emptyings know stays true
LEMMA RunKnowsStays ==
  ASSUME LatestContext, uuid <= uuid', RowsStand
  PROVE  \A w \in Executors : UNCHANGED run[w] => RunKnows(run[w])' /\ OlderListed(w)'
<1> USE DEF LatestContext
<1>0. uuid \in Nat /\ uuid' \in Nat /\ uuid <= uuid'
  BY DEF TypeOK, StoreTypeOK
<1> SUFFICES ASSUME NEW w \in Executors, UNCHANGED run[w]
             PROVE  RunKnows(run[w])' /\ OlderListed(w)'
  OBVIOUS
<1>1. /\ run[w] \in EmptyRuns \cup {Idle} /\ RunKnows(run[w]) /\ OlderListed(w)
  BY DEF NoCopies, Attention, Knows
<1>2. ASSUME run[w] # Idle, NEW g \in run[w].left
      PROVE  g.id \in Nat /\ g.id < uuid
  BY <1>1, <1>2 DEF EmptyRuns, FileRows, RunKnows
<1>3. ASSUME run[w] # Idle, NEW g \in run[w].left
      PROVE  g.id < uuid'
  BY ONLY <1>0, <1>2, <1>3
<1>4. ASSUME run[w] # Idle, run[w].at = "progress", NEW f \in files', f.id = run[w].file.id
      PROVE  FALSE
  <2>1. f.id < uuid
    BY <1>1, <1>4 DEF RunKnows
  <2>2. QED
    BY <1>1, <1>4, <2>1 DEF RowsStand, RunKnows
<1>5. RunKnows(run[w])'
  BY <1>1, <1>3, <1>4 DEF RunKnows
<1>6. ASSUME NEW f \in files', NEW g \in files', f.bucket = g.bucket, f.id <= g.id,
             Listed(w, g)'
      PROVE  Listed(w, f)'
  <2>1. g.id < uuid
    BY <1>2, <1>6 DEF Listed
  <2>2. f.id \in Nat /\ g.id \in Nat
    BY DEF TypeOK, StoreTypeOK, FileRows
  <2>3. f.id < uuid
    BY ONLY <1>0, <1>6, <2>1, <2>2
  <2>4. PICK h \in files, i \in files :
          h.id = f.id /\ h.bucket = f.bucket /\ i.id = g.id /\ i.bucket = g.bucket
    BY <2>1, <2>3 DEF RowsStand
  <2>5. Listed(w, i)
    BY <1>6, <2>4 DEF Listed
  <2>6. Listed(w, h)
    BY <1>1, <1>6, <2>4, <2>5 DEF OlderListed
  <2>7. QED
    BY <2>4, <2>6 DEF Listed
<1>7. QED
  BY <1>5, <1>6 DEF OlderListed

\* What the delete knows stays true
LEMMA DeleteKnowsStays ==
  ASSUME LatestContext, uuid <= uuid', NoneBecomesLatest,
         \A b \in buckets' : b.id < uuid => b \in buckets
  PROVE  \A d \in Deleters : UNCHANGED del[d] => DeleteKnows(del[d])'
<1> USE DEF LatestContext
<1>0. uuid \in Nat /\ uuid' \in Nat /\ uuid <= uuid'
  BY DEF TypeOK, StoreTypeOK
<1> SUFFICES ASSUME NEW d \in Deleters, UNCHANGED del[d], del[d] # Idle
             PROVE  DeleteKnows(del[d])'
  BY DEF DeleteKnows
<1>1. del[d] \in Deletes /\ DeleteKnows(del[d])
  BY DEF TypeOK, RequestsTypeOK, Attention, Knows
<1>2. /\ del[d].bucket.id \in Nat /\ del[d].row.id \in Nat
      /\ del[d].bucket.id < uuid
      /\ del[d].at \in {"remove", "row"} => del[d].row.id < uuid
  BY <1>1 DEF Deletes, BucketRows, FileRows, DeleteKnows
<1>3. /\ del[d].bucket.id < uuid'
      /\ del[d].at \in {"remove", "row"} => del[d].row.id < uuid'
  BY ONLY <1>0, <1>2
<1>4. \A b \in buckets' : b.id = del[d].bucket.id => b.versioning = del[d].bucket.versioning
  BY <1>1, <1>2 DEF DeleteKnows
<1>5. ASSUME del[d].at \in {"remove", "row"}, NEW f \in files', f.id = del[d].row.id
      PROVE  /\ f.bucket = del[d].bucket.id /\ f.name = del[d].row.name
             /\ f.latest => del[d].row.latest
  <2>1. PICK g \in files : /\ g.id = f.id /\ g.bucket = f.bucket /\ g.name = f.name
                           /\ f.latest => g.latest
    BY <1>2, <1>5 DEF NoneBecomesLatest
  <2>2. QED
    BY <1>1, <1>5, <2>1 DEF DeleteKnows
<1>6. QED
  BY <1>3, <1>4, <1>5 DEF DeleteKnows

\* A row that is attended stays so, if it stays latest and nobody who attends it
\* leaves it
LEMMA AttendedStays ==
  ASSUME NEW f, NEW g, g.id = f.id, g.bucket = f.bucket, g.name = f.name, Attended(g),
         g.latest => f.latest,
         Uploading(g) => Uploading(f)', Promoting(g) => Promoting(f)',
         \A w \in Executors : Listed(w, g) => Listed(w, f)'
  PROVE  Attended(f)'
  BY DEF Attended

\* The steps of an upload
LEMMA UploadKeepsAttention ==
  ASSUME LatestContext, NEW u \in Uploaders, UploadStep(u),
         UNCHANGED <<mk, del, drop, taskVars>>
  PROVE  Attention'
<1> USE DEF LatestContext
<1>0. /\ UNCHANGED <<buckets, del, run>> /\ ~UploadAborts(u)
      /\ uuid' = uuid \/ uuid' = uuid + 1
      /\ uuid \in Nat /\ uuid' \in Nat
      /\ up \in [Uploaders -> Uploads \cup {Idle}]
  <2>1. ~UploadAborts(u) /\ UNCHANGED <<del, run>>
    BY DEF OneDeleter, UploadAborts, taskVars
  <2>2. UNCHANGED buckets /\ (uuid' = uuid \/ uuid' = uuid + 1)
    BY <2>1 DEF UploadStep, Upload, DemoteLatest, CheckFree, SaveFile, InsertRow, storeVars
  <2>3. QED
    BY <2>1, <2>2 DEF TypeOK, StoreTypeOK, RequestsTypeOK
<1>1. uuid <= uuid'
  BY ONLY <1>0
<1>2. AllLatest /\ RowsHaveBuckets /\ NewestAttended /\ OneRowPerId /\ Drawn
  BY DEF Attention, VersionedInv
<1>3. /\ \A f, g : g.bucket = f.bucket /\ g.name = f.name /\ g.id = f.id
           /\ Promoting(g) => Promoting(f)'
      /\ \A w \in Executors : \A f, g : g.id = f.id /\ Listed(w, g) => Listed(w, f)'
  BY <1>0 DEF Promoting, Listed
<1>4. CASE Upload(u) \/ CheckFree(u) \/ SaveFile(u)
  <2>1. UNCHANGED files
    BY <1>4 DEF Upload, CheckFree, SaveFile, storeVars
  <2>2. up[u] # Idle /\ up[u].at \in {"save", "insert"} =>
          /\ up'[u] # Idle /\ up'[u].at \in {"save", "insert"}
          /\ up'[u].bucket = up[u].bucket /\ up'[u].key = up[u].key
    BY <1>0, <1>4 DEF Upload, CheckFree, SaveFile, Uploads, Idle
  <2>3. \A v \in Uploaders \ {u} : up'[v] = up[v]
    BY <1>0, <1>4 DEF Upload, CheckFree, SaveFile, EndPart, BeginPart
  <2>4. \A f : Uploading(f) => Uploading(f)'
    BY <2>2, <2>3 DEF Uploading
  <2>5. NewestAttended'
    BY <1>2, <1>3, <2>1, <2>4, AttendedStays DEF NewestAttended, IsNewest, RowsOf
  <2>6. RowsStand /\ NoneBecomesLatest
    BY <2>1 DEF RowsStand, NoneBecomesLatest
  <2>7. Knows'
    BY <1>0, <1>1, <2>6, RunKnowsStays, DeleteKnowsStays DEF Knows
  <2>8. AllLatest' /\ RowsHaveBuckets'
    BY <1>0, <1>2, <2>1 DEF AllLatest, RowsHaveBuckets
  <2>9. QED
    BY <2>5, <2>7, <2>8 DEF Attention
<1>5. CASE DemoteLatest(u)
  <2>0. up[u] # Idle /\ up[u] \in Uploads /\ up[u].bucket.versioning
    BY <1>0, <1>5 DEF DemoteLatest, Idle
  <2>1. PICK flag \in BOOLEAN : flag = FALSE
    OBVIOUS
  <2>2. PICK rows : rows = LatestOf(u)
    OBVIOUS
  <2>3. SetLatest(rows, flag)
    BY <1>5, <2>1, <2>2 DEF DemoteLatest, OneDeleter
  <2>4. /\ \A f \in files' : \E g \in files :
             /\ f.id = g.id /\ f.bucket = g.bucket /\ f.name = g.name
             /\ f = g \/ (g \in rows /\ f = [g EXCEPT !.latest = flag])
        /\ \A g \in files : \E f \in files' :
             /\ f.id = g.id /\ f.bucket = g.bucket /\ f.name = g.name
    BY <2>3, SetLatestRows DEF TypeOK, StoreTypeOK
  <2>5. \A g \in files : ~[g EXCEPT !.latest = flag].latest
    BY <2>1 DEF TypeOK, StoreTypeOK, FileRows
  <2>6. RowsStand /\ NoneBecomesLatest
    BY <2>4, <2>5 DEF RowsStand, NoneBecomesLatest
  <2>7. Knows'
    BY <1>0, <1>1, <2>6, RunKnowsStays, DeleteKnowsStays DEF Knows
  <2>8. up'[u] # Idle /\ up'[u].at = "save" /\ up'[u].bucket = up[u].bucket
        /\ up'[u].key = up[u].key
    BY <1>0, <1>5, <2>0 DEF DemoteLatest, Uploads, Idle
  <2>9. \A v \in Uploaders \ {u} : up'[v] = up[v]
    BY <1>0, <1>5 DEF DemoteLatest
  <2>10. \A f, g : g.bucket = f.bucket /\ g.name = f.name /\ Uploading(g) => Uploading(f)'
    BY <2>8, <2>9 DEF Uploading
  <2>11. ASSUME NEW f \in files', IsNewest(f, RowsOf(f.bucket, f.name)')
         PROVE  Attended(f)'
    <3>1. PICK g \in files :
             /\ f.id = g.id /\ f.bucket = g.bucket /\ f.name = g.name
             /\ f = g \/ (g \in rows /\ f = [g EXCEPT !.latest = flag])
      BY <2>4
    <3>2. IsNewest(g, RowsOf(g.bucket, g.name))
      BY <2>4, <2>11, <3>1 DEF IsNewest, RowsOf
    <3>3. CASE g \in rows
      <4>1. f.bucket = up[u].bucket.id /\ f.name = up[u].key
        BY <2>2, <3>1, <3>3 DEF LatestOf, RowsOf
      <4>2. QED
        BY <2>8, <4>1 DEF Attended, Uploading
    <3>4. CASE f = g
      BY <1>2, <1>3, <2>10, <3>1, <3>2, <3>4, AttendedStays DEF NewestAttended
    <3>5. QED
      BY <3>1, <3>3, <3>4
  <2>12. ASSUME NEW b \in buckets', NEW f \in files', ~b.versioning, f.bucket = b.id
         PROVE  f.latest
    <3>1. PICK g \in files :
             /\ f.bucket = g.bucket
             /\ f = g \/ (g \in rows /\ f = [g EXCEPT !.latest = flag])
      BY <2>4
    <3>2. g \notin rows
      <4>1. b.id # up[u].bucket.id
        BY <1>0, <1>2, <2>0, <2>12 DEF OneRowPerId
      <4>2. QED
        BY <2>2, <2>12, <3>1, <4>1 DEF LatestOf, RowsOf
    <3>3. QED
      BY <1>0, <1>2, <2>12, <3>1, <3>2 DEF AllLatest
  <2>13. RowsHaveBuckets'
    BY <1>0, <1>2, <2>4 DEF RowsHaveBuckets
  <2>14. QED
    BY <2>7, <2>11, <2>12, <2>13 DEF Attention, NewestAttended, AllLatest
<1>6. CASE InsertRow(u)
  <2> DEFINE row == [id |-> uuid, bucket |-> up[u].bucket.id, name |-> up[u].key,
                   version |-> up[u].version, latest |-> TRUE, size |-> up[u].size]
  <2>1. /\ row.id = uuid /\ row.bucket = up[u].bucket.id /\ row.name = up[u].key
        /\ row.latest /\ InsertFile(row)
        /\ up[u] # Idle /\ up[u].at = "insert"
        /\ EndPart(u) \/ up' = [up EXCEPT ![u] = Idle]
    BY <1>6 DEF InsertRow, Idle
  <2> HIDE DEF row
  <2>2. /\ files \subseteq files' /\ files' \subseteq files \cup {row}
        /\ (\E b \in buckets : b.id = row.bucket) => row \in files'
        /\ row \in files' => row \in files \/ \E b \in buckets : b.id = row.bucket
    BY <2>1 DEF InsertFile
  <2>3. ~(row.id < uuid)
    BY ONLY <1>0, <2>1
  <2>4. RowsStand /\ NoneBecomesLatest
    BY <2>2, <2>3 DEF RowsStand, NoneBecomesLatest
  <2>5. Knows'
    BY <1>0, <1>1, <2>4, RunKnowsStays, DeleteKnowsStays DEF Knows
  <2>6. AllLatest' /\ RowsHaveBuckets'
    BY <1>0, <1>2, <2>1, <2>2 DEF AllLatest, RowsHaveBuckets
  <2>7. \A v \in Uploaders \ {u} : up'[v] = up[v]
    BY <1>0, <2>1 DEF EndPart, BeginPart
  <2>8. ASSUME NEW f \in files', IsNewest(f, RowsOf(f.bucket, f.name)')
        PROVE  Attended(f)'
    <3>1. CASE f = row
      BY <2>1, <3>1 DEF Attended
    <3>2. CASE f \in files /\ f # row
      <4>1. IsNewest(f, RowsOf(f.bucket, f.name))
        BY <2>2, <2>8, <3>2 DEF IsNewest, RowsOf
      <4>2. f.id \in Nat /\ f.id < uuid
        BY <3>2 DEF FileIds, TypeOK, StoreTypeOK, FileRows
      <4>3. ~(uuid <= f.id)
        BY ONLY <1>0, <4>2
      <4>4. ~(f.bucket = row.bucket /\ f.name = row.name)
        <5>1. ASSUME f.bucket = row.bucket, f.name = row.name
              PROVE  FALSE
          <6>1. row \in files'
            BY <1>2, <2>2, <3>2, <5>1 DEF RowsHaveBuckets
          <6>2. QED
            BY <2>1, <2>8, <4>3, <5>1, <6>1 DEF IsNewest, RowsOf
        <5>2. QED
          BY <5>1
      <4>5. Uploading(f) => Uploading(f)'
        BY <2>1, <2>7, <4>4 DEF Uploading
      <4>6. QED
        BY <1>2, <1>3, <3>2, <4>1, <4>5, AttendedStays DEF NewestAttended
    <3>3. QED
      BY <2>2, <3>1, <3>2
  <2>9. QED
    BY <2>5, <2>6, <2>8 DEF Attention, NewestAttended
<1>7. QED
  BY <1>0, <1>4, <1>5, <1>6 DEF UploadStep

\* The steps of the delete
LEMMA DeleteKeepsAttention ==
  ASSUME LatestContext, NEW d \in Deleters, DeleteStep(d),
         UNCHANGED <<up, mk, drop, taskVars>>
  PROVE  Attention'
<1> USE DEF LatestContext
<1>0. /\ UNCHANGED <<buckets, up, run, uuid>> /\ ~DeleteAborts(d)
      /\ \A e \in Deleters : e = d
      /\ del \in [Deleters -> Deletes \cup {Idle}]
      /\ del[d] \in Deletes \cup {Idle}
  <2>1. /\ ~DeleteAborts(d) /\ UNCHANGED <<up, run>> /\ \A e \in Deleters : e = d
    BY DEF OneDeleter, DeleteAborts, taskVars
  <2>2. UNCHANGED <<buckets, uuid>>
    BY <2>1 DEF DeleteStep, Delete, RemoveFile, DeleteRow, FindNewest, PromoteNewest,
                storeVars
  <2>3. QED
    BY <2>1, <2>2 DEF TypeOK, RequestsTypeOK
<1>1. uuid <= uuid'
  BY <1>0 DEF TypeOK, StoreTypeOK
<1>2. AllLatest /\ RowsHaveBuckets /\ NewestAttended /\ OneRowPerId /\ Drawn
      /\ DeleteKnows(del[d]) /\ \A w \in Executors : OlderListed(w)
  BY DEF Attention, VersionedInv, Knows
<1>3. /\ \A f, g : g.bucket = f.bucket /\ g.name = f.name /\ Uploading(g) => Uploading(f)'
      /\ \A w \in Executors : \A f, g : g.id = f.id /\ Listed(w, g) => Listed(w, f)'
  BY <1>0 DEF Uploading, Listed
<1>4. CASE Delete(d) \/ RemoveFile(d) \/ FindNewest(d)
  <2>1. UNCHANGED files
    BY <1>4 DEF Delete, RemoveFile, FindNewest, storeVars
  <2>2. RowsStand
    BY <2>1 DEF RowsStand
  <2>3. AllLatest' /\ RowsHaveBuckets'
    BY <1>0, <1>2, <2>1 DEF AllLatest, RowsHaveBuckets
  <2>4. DeleteKnows(del[d])'
    <3>1. CASE Delete(d)
      <4>1. PICK bucket \in buckets, f \in files :
              /\ f.bucket = bucket.id
              /\ del'[d] = [at |-> "remove", bucket |-> bucket, row |-> f, target |-> 0]
        BY <1>0, <3>1 DEF Delete, Owned, RowsOf
      <4>2. f.id < uuid' /\ \A g \in files' : g.id = f.id => g = f
        BY <1>0, <2>1 DEF FileIds
      <4>3. bucket.id < uuid' /\ \A b \in buckets' : b.id = bucket.id => b = bucket
        BY <1>0, <1>2 DEF Drawn, OneRowPerId
      <4>4. QED
        BY <4>1, <4>2, <4>3 DEF DeleteKnows
    <3>2. CASE RemoveFile(d)
      <4>1. del[d] # Idle /\ del[d].at = "remove" /\ del[d] \in Deletes
        BY <1>0, <3>2 DEF RemoveFile, Idle
      <4>2. /\ del'[d].at = "row" /\ del'[d].bucket = del[d].bucket
            /\ del'[d].row = del[d].row
        BY <1>0, <3>2, <4>1 DEF RemoveFile, Deletes
      <4>3. QED
        BY <1>0, <1>2, <2>1, <4>1, <4>2 DEF DeleteKnows
    <3>3. CASE FindNewest(d)
      <4>1. del[d] # Idle /\ del[d] \in Deletes
        BY <1>0, <3>3 DEF FindNewest, Idle
      <4>2. del'[d] = Idle \/ (del'[d].at = "promote" /\ del'[d].bucket = del[d].bucket)
        BY <1>0, <3>3, <4>1 DEF FindNewest, Deletes
      <4>3. QED
        BY <1>0, <1>2, <4>1, <4>2 DEF DeleteKnows
    <3>4. QED
      BY <1>4, <3>1, <3>2, <3>3
  <2>5. Knows'
    BY <1>0, <1>1, <2>2, <2>4, RunKnowsStays DEF Knows
  <2>6. ASSUME NEW f \in files, IsNewest(f, RowsOf(f.bucket, f.name)), Promoting(f)
        PROVE  Promoting(f)'
    <3>1. CASE Delete(d) \/ RemoveFile(d)
      BY <1>0, <2>6, <3>1 DEF Promoting, Delete, RemoveFile
    <3>2. CASE FindNewest(d)
      <4>1. /\ del[d] # Idle /\ del[d] \in Deletes /\ del[d].at = "newest"
            /\ f \in Remaining(d)
        BY <1>0, <2>6, <3>2 DEF FindNewest, Idle, Promoting, Remaining, RowsOf
      <4>2. PICK g \in files :
              /\ IsNewest(g, Remaining(d))
              /\ del' = [del EXCEPT ![d].at = "promote", ![d].target = g.id]
        BY <3>2, <4>1 DEF FindNewest
      <4>3. f.id = g.id
        <5>1. f.id <= g.id /\ g.id <= f.id
          BY <2>6, <4>1, <4>2 DEF IsNewest, Remaining, RowsOf, Promoting
        <5>2. f.id \in Nat /\ g.id \in Nat
          BY DEF TypeOK, StoreTypeOK, FileRows
        <5>3. QED
          BY ONLY <5>1, <5>2
      <4>4. /\ del'[d] # Idle /\ del'[d].at = "promote" /\ del'[d].target = g.id
            /\ del'[d].bucket = del[d].bucket /\ del'[d].row = del[d].row
        BY <1>0, <4>1, <4>2 DEF Deletes, Idle
      <4>5. QED
        BY <1>0, <2>6, <4>3, <4>4 DEF Promoting
    <3>3. QED
      BY <1>4, <3>1, <3>2
  <2>7. NewestAttended'
    BY <1>2, <1>3, <2>1, <2>6, AttendedStays DEF NewestAttended, IsNewest, RowsOf
  <2>8. QED
    BY <2>3, <2>5, <2>7 DEF Attention
<1>5. CASE DeleteRow(d)
  <2>1. /\ del[d] # Idle /\ del[d].at = "row" /\ del[d] \in Deletes
        /\ DropFile(del[d].row.id)
        /\ IF del[d].bucket.versioning /\ del[d].row.latest
           THEN del' = [del EXCEPT ![d].at = "newest"]
           ELSE del' = [del EXCEPT ![d] = Idle]
    BY <1>0, <1>5 DEF DeleteRow, Idle
  <2>2. /\ files' \subseteq files
        /\ \A f \in files' : f.id # del[d].row.id
        /\ \A f \in files \ files' : f.id = del[d].row.id
    BY <2>1 DEF DropFile
  <2>3. RowsStand
    BY <2>2 DEF RowsStand
  <2>4. AllLatest' /\ RowsHaveBuckets'
    BY <1>0, <1>2, <2>2 DEF AllLatest, RowsHaveBuckets
  <2>5. \/ del'[d] = Idle
        \/ /\ del'[d] # Idle /\ del'[d].at = "newest"
           /\ del'[d].bucket = del[d].bucket /\ del'[d].row = del[d].row
    BY <1>0, <2>1 DEF Deletes, Idle
  <2>6. DeleteKnows(del[d])'
    BY <1>0, <1>2, <2>1, <2>5 DEF DeleteKnows
  <2>7. Knows'
    BY <1>0, <1>1, <2>3, <2>6, RunKnowsStays DEF Knows
  <2>8. \A f : ~Promoting(f)
    BY <1>0, <2>1 DEF Promoting
  <2>9. ASSUME NEW f \in files', IsNewest(f, RowsOf(f.bucket, f.name)')
        PROVE  Attended(f)'
    <3>1. CASE IsNewest(f, RowsOf(f.bucket, f.name))
      BY <1>2, <1>3, <2>2, <2>8, <3>1, AttendedStays DEF NewestAttended
    <3>2. CASE ~IsNewest(f, RowsOf(f.bucket, f.name))
      <4>1. PICK g \in RowsOf(f.bucket, f.name) : ~(g.id <= f.id) /\ g \notin files'
        BY <2>2, <2>9, <3>2 DEF IsNewest, RowsOf
      <4>2. /\ g \in files /\ g.id = del[d].row.id
            /\ g.bucket = f.bucket /\ g.name = f.name
        BY <2>2, <4>1 DEF RowsOf
      <4>3. /\ f.bucket = del[d].bucket.id /\ f.name = del[d].row.name
            /\ g.latest => del[d].row.latest
        BY <1>2, <2>1, <4>2 DEF DeleteKnows
      <4>4. f.id <= g.id
        <5>1. f.id \in Nat /\ g.id \in Nat
          BY <2>2, <4>2 DEF TypeOK, StoreTypeOK, FileRows
        <5>2. QED
          BY ONLY <4>1, <5>1
      <4>5. CASE ~del[d].bucket.versioning
        <5>1. PICK b \in buckets : b.id = f.bucket
          BY <1>2, <2>2 DEF RowsHaveBuckets
        <5>2. ~b.versioning
          BY <1>2, <2>1, <4>3, <4>5, <5>1 DEF DeleteKnows
        <5>3. QED
          BY <1>2, <2>2, <5>1, <5>2 DEF AllLatest, Attended
      <4>6. CASE del[d].bucket.versioning /\ del[d].row.latest
        <5>1. del'[d] # Idle /\ del'[d].at = "newest"
              /\ del'[d].bucket = del[d].bucket /\ del'[d].row = del[d].row
          BY <1>0, <2>1, <4>6 DEF Deletes, Idle
        <5>2. QED
          BY <4>3, <5>1 DEF Attended, Promoting
      <4>7. CASE ~del[d].row.latest
        <5>1. IsNewest(g, RowsOf(g.bucket, g.name))
          <6>1. ASSUME NEW h \in RowsOf(g.bucket, g.name)
                PROVE  h.id <= g.id
            <7>1. h \in files' \/ h.id = del[d].row.id
              BY <2>2 DEF RowsOf
            <7>2. CASE h \in files'
              <8>1. h.id <= f.id
                BY <2>9, <4>2, <7>2 DEF IsNewest, RowsOf
              <8>2. h.id \in Nat /\ f.id \in Nat /\ g.id \in Nat
                BY <2>2, <4>2 DEF RowsOf, TypeOK, StoreTypeOK, FileRows
              <8>3. QED
                BY ONLY <4>4, <8>1, <8>2
            <7>3. CASE h.id = del[d].row.id
              <8>1. h.id = g.id /\ g.id \in Nat
                BY <4>2, <7>3 DEF TypeOK, StoreTypeOK, FileRows
              <8>2. QED
                BY ONLY <8>1
            <7>4. QED
              BY <7>1, <7>2, <7>3
          <6>2. QED
            BY <4>2, <6>1 DEF IsNewest, RowsOf
        <5>2. Uploading(g) \/ \E w \in Executors : Listed(w, g)
          BY <1>2, <2>8, <4>2, <4>3, <4>7, <5>1 DEF NewestAttended, Attended
        <5>3. CASE Uploading(g)
          BY <1>3, <4>2, <5>3 DEF Attended
        <5>4. CASE \E w \in Executors : Listed(w, g)
          <6>1. PICK w \in Executors : Listed(w, g)
            BY <5>4
          <6>2. Listed(w, f)
            BY <1>2, <2>2, <4>2, <4>4, <6>1 DEF OlderListed
          <6>3. QED
            BY <1>3, <6>2 DEF Attended
        <5>5. QED
          BY <5>2, <5>3, <5>4
      <4>8. QED
        BY <4>5, <4>6, <4>7
    <3>3. QED
      BY <3>1, <3>2
  <2>10. QED
    BY <2>4, <2>7, <2>9 DEF Attention, NewestAttended
<1>6. CASE PromoteNewest(d)
  <2>1. /\ del[d] # Idle /\ del[d].at = "promote" /\ del[d] \in Deletes
        /\ del'[d] = Idle
    BY <1>0, <1>6 DEF PromoteNewest, Idle
  <2>2. PICK flag \in BOOLEAN : flag = TRUE
    OBVIOUS
  <2>3. PICK rows : rows = {f \in files : f.id = del[d].target}
    OBVIOUS
  <2>4. SetLatest(rows, flag)
    BY <1>6, <2>2, <2>3 DEF PromoteNewest, OneDeleter
  <2>5. /\ \A f \in files' : \E g \in files :
             /\ f.id = g.id /\ f.bucket = g.bucket /\ f.name = g.name
             /\ (g \notin rows /\ f = g) \/ (g \in rows /\ f = [g EXCEPT !.latest = flag])
        /\ \A g \in files : \E f \in files' :
             /\ f.id = g.id /\ f.bucket = g.bucket /\ f.name = g.name
    BY <2>4, SetLatestRows DEF TypeOK, StoreTypeOK
  <2>6. \A g \in files : [g EXCEPT !.latest = flag].latest
    BY <2>2 DEF TypeOK, StoreTypeOK, FileRows
  <2>7. RowsStand
    BY <2>5 DEF RowsStand
  <2>8. AllLatest' /\ RowsHaveBuckets'
    <3>1. \A f \in files' : \E g \in files : f.bucket = g.bucket /\ (g.latest => f.latest)
      BY <2>5, <2>6
    <3>2. QED
      BY <1>0, <1>2, <3>1 DEF AllLatest, RowsHaveBuckets
  <2>9. Knows'
    BY <1>0, <1>1, <2>1, <2>7, RunKnowsStays DEF Knows, DeleteKnows
  <2>10. ASSUME NEW f \in files', IsNewest(f, RowsOf(f.bucket, f.name)')
         PROVE  Attended(f)'
    <3>1. PICK g \in files :
             /\ f.id = g.id /\ f.bucket = g.bucket /\ f.name = g.name
             /\ (g \notin rows /\ f = g) \/ (g \in rows /\ f = [g EXCEPT !.latest = flag])
      BY <2>5
    <3>2. IsNewest(g, RowsOf(g.bucket, g.name))
      BY <2>5, <2>10, <3>1 DEF IsNewest, RowsOf
    <3>3. CASE g \in rows
      BY <2>6, <3>1, <3>3 DEF Attended
    <3>4. CASE g \notin rows
      <4>1. ~Promoting(g)
        BY <1>0, <2>1, <2>3, <3>4 DEF Promoting
      <4>2. QED
        BY <1>2, <1>3, <3>1, <3>2, <3>4, <4>1, AttendedStays DEF NewestAttended
    <3>5. QED
      BY <3>3, <3>4
  <2>11. QED
    BY <2>8, <2>9, <2>10 DEF Attention, NewestAttended
<1>7. QED
  BY <1>0, <1>4, <1>5, <1>6 DEF DeleteStep

\* A step that leaves alone the uploads, the delete and the emptyings, and keeps
\* of every bucket all rows or none
LEMMA IdleStepKeepsAttention ==
  ASSUME LatestContext, UNCHANGED <<up, del, run>>, uuid <= uuid',
         files' \subseteq files,
         \A f \in files', g \in files : g.bucket = f.bucket => g \in files',
         \A b \in buckets' : b.id < uuid => b \in buckets,
         \A f \in files' : \E b \in buckets' : b.id = f.bucket
  PROVE  Attention'
<1> USE DEF LatestContext
<1>1. RowsStand /\ NoneBecomesLatest
  BY DEF RowsStand, NoneBecomesLatest
<1>2. Knows'
  BY <1>1, RunKnowsStays, DeleteKnowsStays DEF Knows
<1>3. RowsHaveBuckets'
  BY DEF RowsHaveBuckets
<1>4. \A b \in buckets', f \in files' : f.bucket = b.id => b \in buckets
  <2>1. \A f \in files : f.bucket < uuid
    BY DEF VersionedInv, Drawn
  <2>2. QED
    BY <2>1
<1>5. AllLatest'
  BY <1>4 DEF Attention, AllLatest
<1>6. ASSUME NEW f \in files', IsNewest(f, RowsOf(f.bucket, f.name)')
      PROVE  Attended(f)'
  <2>1. IsNewest(f, RowsOf(f.bucket, f.name))
    BY <1>6 DEF IsNewest, RowsOf
  <2>2. Attended(f)
    BY <2>1 DEF Attention, NewestAttended
  <2>3. QED
    BY <2>2 DEF Attended, Uploading, Promoting, Listed
<1>7. QED
  BY <1>2, <1>3, <1>5, <1>6 DEF Attention, NewestAttended

\* The steps of CreateBucket and DeleteBucket
LEMMA BucketKeepsAttention ==
  ASSUME LatestContext, UNCHANGED <<up, del, taskVars>>,
         (\E c \in Creators : CreateStep(c)) \/ (\E x \in Droppers : DropStep(x))
  PROVE  Attention'
<1> USE DEF LatestContext
<1>0. UNCHANGED run /\ RowsHaveBuckets
  BY DEF taskVars, Attention
<1>1. uuid \in Nat /\ (uuid' = uuid \/ uuid' = uuid + 1)
  BY DEF TypeOK, StoreTypeOK, CreateStep, Create, InsertBucketRow, CreateAborts, DropStep,
         Drop, CountFiles, DeleteBucketRow, DropAborts, storeVars
<1>2. uuid <= uuid'
  BY ONLY <1>1
<1>3. CASE \E c \in Creators : InsertBucketRow(c)
  <2>1. PICK row : InsertBucket(row) /\ row.id = uuid /\ UNCHANGED files
    BY <1>3 DEF InsertBucketRow
  <2>2. ~(row.id < uuid)
    BY ONLY <1>1, <2>1
  <2>3. buckets \subseteq buckets' /\ buckets' \subseteq buckets \cup {row}
    BY <2>1 DEF InsertBucket
  <2>4. QED
    BY <1>0, <1>2, <2>1, <2>2, <2>3, IdleStepKeepsAttention DEF RowsHaveBuckets
<1>4. CASE \E x \in Droppers : DeleteBucketRow(x)
  <2>1. PICK id : DropBucket(id)
    BY <1>4 DEF DeleteBucketRow
  <2>2. /\ files' = {f \in files : f.bucket # id}
        /\ buckets' = {b \in buckets : b.id # id}
    BY <2>1 DEF DropBucket
  <2>3. QED
    BY <1>0, <1>2, <2>2, IdleStepKeepsAttention DEF RowsHaveBuckets
<1>5. CASE \/ \E c \in Creators : Create(c) \/ CreateAborts(c)
           \/ \E x \in Droppers : Drop(x) \/ CountFiles(x) \/ DropAborts(x)
  <2>1. UNCHANGED <<buckets, files>>
    BY <1>5 DEF Create, CreateAborts, Drop, CountFiles, DropAborts, storeVars
  <2>2. QED
    BY <1>0, <1>2, <2>1, IdleStepKeepsAttention DEF RowsHaveBuckets
<1>6. QED
  BY <1>3, <1>4, <1>5 DEF CreateStep, DropStep

\* The steps of the requests for an emptying
LEMMA AskKeepsAttention ==
  ASSUME LatestContext, UNCHANGED requests, NEW q \in Requesters,
         Tasks!Ask(q) \/ Tasks!Serve(q) \/ Tasks!AskAborts(q)
  PROVE  Attention'
<1> USE DEF LatestContext
<1>0. ~Tasks!FindDest(q) /\ ~Tasks!CreateDest(q)
  BY DEF NoCopies, Tasks!FindDest, Tasks!CreateDest, EmptyAsks, Idle
<1>1. /\ UNCHANGED <<buckets, files, disk, run>>
      /\ uuid' = uuid \/ uuid' = uuid + 1
  BY <1>0 DEF Tasks!Ask, Tasks!Serve, Tasks!Enqueue, Tasks!Record, Tasks!AskAborts,
              Tasks!storeVars
<1>2. uuid \in Nat
  BY DEF TypeOK, StoreTypeOK
<1>3. uuid <= uuid'
  BY ONLY <1>1, <1>2
<1>4. QED
  BY <1>1, <1>3, IdleStepKeepsAttention DEF requests, Attention, RowsHaveBuckets

\* The steps of an emptying
LEMMA RunKeepsAttention ==
  ASSUME LatestContext, UNCHANGED requests, NEW w \in Executors,
         Tasks!Start(w) \/ Tasks!Work(w) \/ Tasks!Stops(w) \/ Tasks!TimesOut(w)
  PROVE  Attention'
<1> USE DEF LatestContext
<1>0. /\ UNCHANGED <<up, del>>
      /\ ~Tasks!Stops(w) /\ ~Tasks!TimesOut(w) /\ ~Tasks!Silent
      /\ run[w] \in EmptyRuns \cup {Idle} /\ RunKnows(run[w]) /\ OlderListed(w)
      /\ run \in [Executors -> EmptyRuns \cup {Idle}]
  BY DEF requests, Tasks!Stops, Tasks!TimesOut, Tasks!Silent, NoCopies, Attention, Knows
<1>1. ASSUME run[w].at \in {"source", "list", "file", "row", "progress", "ack"}
      PROVE  run[w] # Idle /\ run[w] \in EmptyRuns
  BY <1>0, <1>1 DEF Idle
<1>2. AllLatest /\ RowsHaveBuckets /\ NewestAttended
  BY DEF Attention
<1>3. \A f, g : /\ g.bucket = f.bucket /\ g.name = f.name /\ Uploading(g) => Uploading(f)'
                /\ g.id = f.id /\ g.bucket = f.bucket /\ g.name = f.name /\ Promoting(g)
                     => Promoting(f)'
  BY <1>0 DEF Uploading, Promoting
<1>4. CASE Tasks!DeleteRow(w)
  <2>1. /\ UNCHANGED <<buckets, uuid>> /\ DropFile(run[w].file.id)
        /\ run[w] # Idle /\ run[w].at = "row" /\ run[w] \in EmptyRuns
        /\ run' = [run EXCEPT ![w].at = "progress"]
    BY <1>0, <1>1, <1>4, SameStatements DEF Tasks!DeleteRow
  <2>2. /\ run'[w] # Idle /\ run'[w].at = "progress" /\ run'[w].file = run[w].file
        /\ run'[w].left = run[w].left
        /\ \A v \in Executors \ {w} : run'[v] = run[v]
    BY <1>0, <2>1 DEF EmptyRuns, Idle
  <2>3. /\ files' \subseteq files
        /\ \A f \in files' : f.id # run[w].file.id
        /\ \A f \in files \ files' : f.id = run[w].file.id
    BY <2>1 DEF DropFile
  <2>4. uuid <= uuid' /\ RowsStand /\ NoneBecomesLatest
    BY <2>1, <2>3 DEF RowsStand, NoneBecomesLatest, TypeOK, StoreTypeOK
  <2>5. \A v \in Executors : \A f : Listed(v, f)' <=> Listed(v, f)
    BY <2>1, <2>2 DEF Listed
  <2>6. RunKnows(run[w])' /\ OlderListed(w)'
    <3>1. RunKnows(run[w])'
      BY <1>0, <2>1, <2>2, <2>3 DEF RunKnows
    <3>2. OlderListed(w)'
      BY <1>0, <2>3, <2>5 DEF OlderListed
    <3>3. QED
      BY <3>1, <3>2
  <2>7. Knows'
    BY <1>0, <2>1, <2>2, <2>4, <2>6, RunKnowsStays, DeleteKnowsStays DEF Knows
  <2>8. AllLatest' /\ RowsHaveBuckets'
    BY <1>2, <2>1, <2>3 DEF AllLatest, RowsHaveBuckets
  <2>9. ASSUME NEW f \in files', IsNewest(f, RowsOf(f.bucket, f.name)')
        PROVE  Attended(f)'
    <3>1. CASE IsNewest(f, RowsOf(f.bucket, f.name))
      BY <1>2, <1>3, <2>3, <2>5, <3>1, AttendedStays DEF NewestAttended
    <3>2. CASE ~IsNewest(f, RowsOf(f.bucket, f.name))
      <4>1. PICK g \in RowsOf(f.bucket, f.name) : ~(g.id <= f.id) /\ g \notin files'
        BY <2>3, <2>9, <3>2 DEF IsNewest, RowsOf
      <4>2. g \in files /\ g.id = run[w].file.id /\ g.bucket = f.bucket
        BY <2>3, <4>1 DEF RowsOf
      <4>3. f.id <= g.id
        <5>1. f.id \in Nat /\ g.id \in Nat
          BY <2>3, <4>2 DEF TypeOK, StoreTypeOK, FileRows
        <5>2. QED
          BY ONLY <4>1, <5>1
      <4>4. Listed(w, g)
        BY <1>0, <2>1, <4>2 DEF Listed, RunKnows
      <4>5. Listed(w, f)
        BY <1>0, <2>3, <4>2, <4>3, <4>4 DEF OlderListed
      <4>6. QED
        BY <2>5, <4>5 DEF Attended
    <3>3. QED
      BY <3>1, <3>2
  <2>10. QED
    BY <2>7, <2>8, <2>9 DEF Attention, NewestAttended
<1>5. CASE \/ Tasks!Start(w) \/ Tasks!FindSource(w) \/ Tasks!ListFiles(w)
           \/ Tasks!RemoveFile(w) \/ Tasks!Progress(w) \/ Tasks!Finish(w)
           \/ Tasks!Acknowledge(w)
  <2>1. UNCHANGED <<buckets, files, uuid>>
    BY <1>5 DEF Tasks!Start, Tasks!FindSource, Tasks!ListFiles, Tasks!RemoveFile,
                Tasks!Progress, Tasks!Finish, Tasks!Acknowledge, Tasks!storeVars
  <2>2. uuid <= uuid' /\ RowsStand /\ NoneBecomesLatest
    BY <2>1 DEF RowsStand, NoneBecomesLatest, TypeOK, StoreTypeOK
  <2>3. \A v \in Executors \ {w} : run'[v] = run[v]
    <3>1. CASE Tasks!Start(w)
      <4>1. PICK s : run' = [run EXCEPT ![w] = s]
        BY <3>1, Zenon DEF Tasks!Start
      <4>2. QED
        BY <1>0, <4>1
    <3>2. CASE Tasks!FindSource(w)
      BY <1>0, <3>2 DEF Tasks!FindSource, Tasks!Fails
    <3>3. CASE Tasks!ListFiles(w) \/ Tasks!RemoveFile(w) \/ Tasks!Progress(w)
      BY <1>0, <3>3 DEF Tasks!ListFiles, Tasks!RemoveFile, Tasks!Progress
    <3>4. CASE Tasks!Finish(w) \/ Tasks!Acknowledge(w)
      BY <1>0, <3>4 DEF Tasks!Finish, Tasks!Acknowledge
    <3>5. QED
      BY <1>5, <3>1, <3>2, <3>3, <3>4
  <2>4. RunKnows(run[w])' /\ OlderListed(w)' /\ \A f \in files : Listed(w, f) => Listed(w, f)'
    <3>1. ASSUME run[w] # Idle => run[w].left = {},
                 run'[w] # Idle => run'[w].left = {} /\ run'[w].at \in {"source", "list", "ack"}
          PROVE  /\ RunKnows(run[w])' /\ OlderListed(w)'
                 /\ \A f \in files : Listed(w, f) => Listed(w, f)'
      BY <3>1 DEF RunKnows, OlderListed, Listed
    <3>2. CASE Tasks!Start(w)
      <4>1. PICK m \in queue :
              run' = [run EXCEPT ![w] =
                       [at |-> "source", job |-> m.job, late |-> FALSE,
                        bucket |-> Tasks!NoRow, dest |-> Tasks!NoRow, left |-> {},
                        total |-> 0, file |-> Tasks!NoRow, content |-> Torn]]
        BY <3>2, Zenon DEF Tasks!Start
      <4>2. run[w] = Idle /\ run'[w].at = "source" /\ run'[w].left = {}
        BY <1>0, <3>2, <4>1, SameStatements DEF Tasks!Start
      <4>3. QED
        BY <3>1, <4>2
    <3>3. CASE Tasks!FindSource(w)
      <4>1. run[w] # Idle /\ run[w] \in EmptyRuns /\ run[w].at = "source"
        BY <1>1, <3>3 DEF Tasks!FindSource
      <4>2. \/ run'[w] = Idle
            \/ \E b \in buckets : run'[w] = [run[w] EXCEPT !.bucket = b, !.at = "list"]
        BY <1>0, <3>3, <4>1, SameStatements
           DEF Tasks!FindSource, Tasks!Sources, Tasks!IsCopy, Tasks!Fails, EmptyRuns, EmptyJobs
      <4>3. run'[w] = Idle \/ (run'[w].left = {} /\ run'[w].at = "list")
        BY <1>0, <4>1, <4>2 DEF EmptyRuns, RunKnows
      <4>4. QED
        BY <1>0, <3>1, <4>1, <4>3 DEF RunKnows
    <3>4. CASE Tasks!ListFiles(w)
      <4>1. run[w] # Idle /\ run[w] \in EmptyRuns /\ run[w].at = "list" /\ run[w].left = {}
        BY <1>0, <1>1, <3>4 DEF Tasks!ListFiles, RunKnows
      <4>2. /\ run'[w] # Idle /\ run'[w].at = "file"
            /\ run'[w].left = FilesIn(run[w].bucket)
        BY <1>0, <3>4, <4>1, SameStatements DEF Tasks!ListFiles, EmptyRuns, Idle
      <4>3. RunKnows(run[w])'
        BY <2>1, <4>2 DEF RunKnows, FilesIn, FileIds
      <4>4. OlderListed(w)'
        <5>1. ASSUME NEW f \in files, NEW g \in files, f.bucket = g.bucket, Listed(w, g)'
              PROVE  Listed(w, f)'
          <6>1. g \in FilesIn(run[w].bucket)
            BY <4>2, <5>1 DEF Listed, FilesIn, FileIds
          <6>2. f \in FilesIn(run[w].bucket)
            BY <5>1, <6>1 DEF FilesIn
          <6>3. QED
            BY <4>2, <6>2 DEF Listed
        <5>2. QED
          BY <2>1, <5>1 DEF OlderListed
      <4>5. QED
        BY <4>1, <4>3, <4>4 DEF Listed
    <3>5. CASE Tasks!RemoveFile(w)
      <4>1. run[w] # Idle /\ run[w] \in EmptyRuns /\ run[w].at = "file"
        BY <1>1, <3>5 DEF Tasks!RemoveFile
      <4>2. PICK f \in run[w].left : run'[w] = [run[w] EXCEPT !.file = f, !.at = "row"]
        BY <1>0, <3>5 DEF Tasks!RemoveFile
      <4>3. /\ run'[w] # Idle /\ run'[w].at = "row" /\ run'[w].file = f
            /\ run'[w].left = run[w].left
        BY <4>1, <4>2 DEF EmptyRuns, Idle
      <4>4. \A g : Listed(w, g)' <=> Listed(w, g)
        BY <4>1, <4>3 DEF Listed
      <4>5. RunKnows(run[w])'
        BY <1>0, <2>1, <4>1, <4>3 DEF RunKnows
      <4>6. OlderListed(w)'
        BY <1>0, <2>1, <4>4 DEF OlderListed
      <4>7. QED
        BY <4>4, <4>5, <4>6
    <3>6. CASE Tasks!Progress(w)
      <4>1. run[w] # Idle /\ run[w] \in EmptyRuns /\ run[w].at = "progress"
        BY <1>1, <3>6 DEF Tasks!Progress
      <4>2. /\ run'[w] # Idle /\ run'[w].at = "file"
            /\ run'[w].left = run[w].left \ {run[w].file}
        BY <1>0, <3>6, <4>1 DEF Tasks!Progress, EmptyRuns, Idle
      <4>3. \A g \in files : Listed(w, g)' <=> Listed(w, g)
        BY <1>0, <4>1, <4>2 DEF Listed, RunKnows
      <4>4. RunKnows(run[w])'
        BY <1>0, <2>1, <4>1, <4>2 DEF RunKnows
      <4>5. OlderListed(w)'
        BY <1>0, <2>1, <4>3 DEF OlderListed
      <4>6. QED
        BY <4>3, <4>4, <4>5
    <3>7. CASE Tasks!Finish(w)
      <4>1. run[w] # Idle /\ run[w] \in EmptyRuns /\ run[w].at = "file" /\ run[w].left = {}
        BY <1>1, <3>7 DEF Tasks!Finish
      <4>2. run'[w].at = "ack" /\ run'[w].left = {}
        BY <1>0, <3>7, <4>1 DEF Tasks!Finish, EmptyRuns
      <4>3. QED
        BY <3>1, <4>1, <4>2
    <3>8. CASE Tasks!Acknowledge(w)
      <4>1. run[w] # Idle /\ run[w].left = {} /\ run'[w] = Idle
        BY <1>0, <1>1, <3>8, SameStatements DEF Tasks!Acknowledge, RunKnows
      <4>2. QED
        BY <3>1, <4>1
    <3>9. QED
      BY <1>5, <3>2, <3>3, <3>4, <3>5, <3>6, <3>7, <3>8
  <2>5. Knows'
    BY <1>0, <2>1, <2>2, <2>3, <2>4, RunKnowsStays, DeleteKnowsStays DEF Knows
  <2>6. \A v \in Executors : \A f \in files : Listed(v, f) => Listed(v, f)'
    BY <2>3, <2>4 DEF Listed
  <2>7. AllLatest' /\ RowsHaveBuckets'
    BY <1>2, <2>1 DEF AllLatest, RowsHaveBuckets
  <2>8. NewestAttended'
    BY <1>2, <1>3, <2>1, <2>6, AttendedStays DEF NewestAttended, IsNewest, RowsOf
  <2>9. QED
    BY <2>5, <2>7, <2>8 DEF Attention
<1>6. ~ (\/ Tasks!WorkerFindsDest(w) \/ Tasks!WorkerCreatesDest(w)
         \/ Tasks!ReadFile(w) \/ Tasks!WriteFile(w) \/ Tasks!InsertRow(w))
  <2>1. ASSUME \/ Tasks!WorkerFindsDest(w) \/ Tasks!WorkerCreatesDest(w)
               \/ Tasks!ReadFile(w) \/ Tasks!WriteFile(w) \/ Tasks!InsertRow(w)
        PROVE  /\ run[w].at \in {"dest", "create", "write"} \/ Tasks!IsCopy(run[w].job)
               /\ run[w].at \in {"dest", "create", "write", "file", "row"}
    BY <2>1 DEF Tasks!WorkerFindsDest, Tasks!WorkerCreatesDest, Tasks!ReadFile,
                Tasks!WriteFile, Tasks!InsertRow
  <2>2. QED
    BY <1>0, <2>1 DEF EmptyRuns, EmptyJobs, Tasks!IsCopy, Idle
<1>7. QED
  BY <1>0, <1>4, <1>5, <1>6 DEF Tasks!Work

\* No step breaks the invariant
LEMMA LatestKept ==
  ASSUME OnlyEmptyings, OneDeleter, TypeOK, TypeOK', NoCopies, NoCopies', VersionedInv,
         FileIds, FileIds', LatestInv, [SystemNext]_systemVars
  PROVE  LatestInv'
<1>1. CASE UNCHANGED systemVars
  <2>1. UNCHANGED <<buckets, files, uuid, up, del, run, faults>>
    BY <1>1 DEF systemVars
  <2>2. CASE faults # {}
    BY <2>1, <2>2 DEF LatestInv
  <2>3. CASE faults = {}
    <3>1. LatestContext
      BY <2>3 DEF LatestInv, LatestContext
    <3>2. uuid <= uuid'
      BY <2>1 DEF TypeOK, StoreTypeOK
    <3>3. QED
      BY <2>1, <3>1, <3>2, IdleStepKeepsAttention DEF LatestInv, Attention, RowsHaveBuckets,
                                                      LatestContext
  <2>4. QED
    BY <2>2, <2>3
<1>2. CASE SystemNext
  <2>1. UNCHANGED faults
    BY <1>2, FaultsStay
  <2>2. CASE faults # {}
    BY <2>1, <2>2 DEF LatestInv
  <2>3. CASE faults = {}
    <3>1. LatestContext
      BY <2>3 DEF LatestInv, LatestContext
    <3>2. CASE HandlerStep
      <4>1. CASE \E u \in Uploaders : UploadStep(u)
        <5>1. UNCHANGED <<mk, del, drop, taskVars>>
          BY <3>2, <4>1 DEF HandlerStep, UploadStep, Upload, DemoteLatest, CheckFree, SaveFile,
                            InsertRow, UploadAborts
        <5>2. QED
          BY <3>1, <4>1, <5>1, UploadKeepsAttention DEF LatestInv
      <4>2. CASE \E d \in Deleters : DeleteStep(d)
        <5>1. UNCHANGED <<up, mk, drop, taskVars>>
          BY <3>2, <4>2 DEF HandlerStep, DeleteStep, Delete, RemoveFile, DeleteRow, FindNewest,
                            PromoteNewest, DeleteAborts
        <5>2. QED
          BY <3>1, <4>2, <5>1, DeleteKeepsAttention DEF LatestInv
      <4>3. CASE (\E c \in Creators : CreateStep(c)) \/ (\E x \in Droppers : DropStep(x))
        <5>1. UNCHANGED <<up, del, taskVars>>
          BY <3>2, <4>3 DEF HandlerStep, CreateStep, Create, InsertBucketRow, CreateAborts,
                            DropStep, Drop, CountFiles, DeleteBucketRow, DropAborts
        <5>2. QED
          BY <3>1, <4>3, <5>1, BucketKeepsAttention DEF LatestInv
      <4>4. QED
        BY <3>2, <4>1, <4>2, <4>3 DEF HandlerStep, Next
    <3>3. CASE TaskStep
      <4>1. UNCHANGED requests /\ ~Tasks!DeleteEmptyBucket /\ ~Tasks!ShutsDown
        BY <2>3, <3>3 DEF TaskStep, Tasks!DeleteEmptyBucket, Tasks!ShutsDown
      <4>2. CASE \E q \in Requesters : Tasks!Ask(q) \/ Tasks!Serve(q) \/ Tasks!AskAborts(q)
        BY <3>1, <4>1, <4>2, AskKeepsAttention DEF LatestInv
      <4>3. CASE \E w \in Executors :
                   Tasks!Start(w) \/ Tasks!Work(w) \/ Tasks!Stops(w) \/ Tasks!TimesOut(w)
        BY <3>1, <4>1, <4>3, RunKeepsAttention DEF LatestInv
      <4>4. QED
        BY <3>3, <4>1, <4>2, <4>3 DEF TaskStep, Tasks!Next
    <3>4. QED
      BY <1>2, <3>2, <3>3 DEF SystemNext
  <2>4. QED
    BY <2>2, <2>3
<1>3. QED
  BY <1>1, <1>2

\* A name that has rows has a newest one: ids are natural numbers below uuid
LEMMA SomeNewest ==
  ASSUME TypeOK, FileIds, NEW f \in files
  PROVE  \E g \in files : IsNewest(g, RowsOf(f.bucket, f.name))
<1> DEFINE rows == RowsOf(f.bucket, f.name)
           ages == {uuid - g.id : g \in rows}
<1>0. \A g \in rows : g \in files /\ g.id \in Nat /\ g.id < uuid
  BY DEF RowsOf, FileIds, TypeOK, StoreTypeOK, FileRows
<1>1. uuid \in Nat
  BY DEF TypeOK, StoreTypeOK
<1>2. f \in rows
  BY DEF RowsOf
<1> HIDE DEF rows
<1>3. ages \subseteq Nat /\ ages # {}
  BY <1>0, <1>1, <1>2
<1>4. PICK R : R = OpToRel(<, Nat)
  BY Zenon
<1>5. IsWellFoundedOn(R, Nat)
  BY <1>4, NatLessThanWellFounded, Zenon
<1> HIDE DEF ages
<1>6. PICK age \in ages : \A other \in ages : <<other, age>> \notin R
  BY <1>3, <1>5, WFMin
<1>7. \A other \in ages : ~(other < age)
  BY <1>3, <1>4, <1>6 DEF OpToRel
<1>8. PICK g \in rows : age = uuid - g.id
  BY DEF ages
<1>9. ASSUME NEW h \in rows
      PROVE  h.id <= g.id
  <2>1. ~(uuid - h.id < uuid - g.id)
    BY <1>7, <1>8 DEF ages
  <2>2. h.id \in Nat /\ g.id \in Nat
    BY <1>0
  <2>3. QED
    BY ONLY <1>1, <2>1, <2>2
<1>10. g \in files /\ IsNewest(g, rows)
  BY <1>0, <1>9 DEF IsNewest
<1>11. QED
  BY <1>10 DEF rows

\* Whatever is uploaded while a bucket is emptied, by however many: the emptying
\* takes the latest version of a name from it only if the older ones are on its
\* list, too, or are about to get a latest one
THEOREM EmptyingLeavesALatest ==
  ASSUME OnlyEmptyings, OneDeleter
  PROVE  SystemSpec => []SomeLatestOrEmptying
<1>1. TypeOK /\ TypeOK' /\ NoCopies /\ FileIds /\ [SystemNext]_systemVars => FileIds'
  BY SystemStepEffect, IdsStayUnique
<1>2. TypeOK /\ TypeOK' /\ NoCopies /\ NoCopies' /\ VersionedInv /\ FileIds /\ FileIds'
        /\ LatestInv /\ [SystemNext]_systemVars => LatestInv'
  BY LatestKept
<1>3. SystemInit => LatestInv
  <2> SUFFICES ASSUME SystemInit PROVE LatestInv
    OBVIOUS
  <2>1. /\ \A d \in Deleters : del[d] = Idle
        /\ \A w \in Executors : run[w] = Idle
        /\ files = {} /\ buckets = {}
    BY SameStatements DEF SystemInit, Init, StoreInit, Tasks!TasksInit
  <2>2. QED
    BY <2>1 DEF LatestInv, Attention, AllLatest, RowsHaveBuckets, Knows, DeleteKnows, RunKnows,
                OlderListed, NewestAttended
<1>4. TypeOK /\ FileIds /\ LatestInv => SomeLatestOrEmptying
  <2> SUFFICES ASSUME TypeOK, FileIds, LatestInv, faults = {}, NEW f \in files
               PROVE  \/ \E g \in RowsOf(f.bucket, f.name) : g.latest
                      \/ \E w \in Executors : run[w] # Idle /\ \E g \in run[w].left : g.id = f.id
                      \/ \E u \in Uploaders : up[u] # Idle /\ up[u].at \in {"save", "insert"}
                            /\ up[u].bucket.id = f.bucket /\ up[u].key = f.name
                      \/ \E d \in Deleters : del[d] # Idle /\ del[d].at \in {"newest", "promote"}
                            /\ del[d].bucket.id = f.bucket /\ del[d].row.name = f.name
    BY DEF SomeLatestOrEmptying
  <2>1. PICK g \in files : IsNewest(g, RowsOf(f.bucket, f.name))
    BY SomeNewest
  <2>2. g \in RowsOf(f.bucket, f.name) /\ g.bucket = f.bucket /\ g.name = f.name /\ f.id <= g.id
    BY <2>1 DEF IsNewest, RowsOf
  <2>3. Attention
    BY DEF LatestInv
  <2>4. Attended(g)
    BY <2>1, <2>2, <2>3 DEF Attention, NewestAttended
  <2>5. CASE \E w \in Executors : Listed(w, g)
    <3>1. PICK w \in Executors : Listed(w, g)
      BY <2>5
    <3>2. Listed(w, f)
      BY <2>2, <2>3, <3>1 DEF Attention, Knows, OlderListed
    <3>3. QED
      BY <3>2 DEF Listed
  <2>6. CASE g.latest \/ Uploading(g) \/ Promoting(g)
    BY <2>2, <2>6 DEF Uploading, Promoting
  <2>7. QED
    BY <2>4, <2>5, <2>6 DEF Attended
<1>5. QED
  BY <1>1, <1>2, <1>3, <1>4, SystemStarts, SystemInvariant, PTL DEF SystemSpec
=============================================================================
