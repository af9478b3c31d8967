-------------------------------- MODULE System --------------------------------
(***************************************************************************)
(* The API server and the worker together: the handlers of ObjectStore and *)
(* the tasks of BucketTasks take their steps on the same tables and the    *)
(* same ./storage (docker-compose.yml mounts one volume in both), with no  *)
(* lock between them.                                                      *)
(***************************************************************************)
EXTENDS ObjectStoreRefinement

CONSTANTS NoDest, Targets, Requesters, Executors, MaxRetry, MaxRequeues,
          MaxTasks, FaultModes

VARIABLES
  tasks, queue, ask, run, faults,  \* BucketTasks'
  crossed   \* history: DeleteFile and an emptying have held the same row

Tasks == INSTANCE BucketTasks WITH Stock <- {}

taskVars == <<tasks, queue, ask, run, faults>>
systemVars == <<buckets, files, disk, uuid, up, del, mk, drop, tasks, queue, ask,
                run, faults, crossed>>

\* A DeleteFile and the worker both have read a row, and are about to remove it
Crossing ==
  \E d \in Deleters, w \in Executors :
    /\ del[d] # Idle /\ del[d].at \in {"remove", "row"}
    /\ run[w] # Idle /\ del[d].row \in run[w].left

Notice == crossed' = (crossed \/ Crossing')

SystemInit == Init /\ Tasks!TasksInit /\ crossed = FALSE

HandlerStep == Next /\ UNCHANGED taskVars /\ Notice

TaskStep == Tasks!Next /\ UNCHANGED requests /\ Notice

SystemNext == HandlerStep \/ TaskStep

SystemSpec == SystemInit /\ [][SystemNext]_systemVars

-----------------------------------------------------------------------------
(* Properties.  Of ObjectStore's, VersionedBlobsIntact, NoForeignContent and   *)
(* Refines hold of the two together: a bucket that is being emptied is to its  *)
(* clients one from which object after object is deleted, wherever the worker  *)
(* stops and begins again; and the emptying takes no content of a row it keeps.*)

Removing(f) ==
  \/ \E d \in Deleters : del[d] # Idle /\ del[d].at = "row" /\ del[d].row.id = f.id
  \/ \E w \in Executors : run[w] # Idle /\ run[w].at = "row" /\ run[w].file.id = f.id

\* An emptying does not take the file of an upload that comes after its list was
\* read: the name is not free before the row of the list is gone.  That is so
\* unless a DeleteFile has removed the same row, or the worker or a request has
\* failed between the file and the row
PlainBlobsUnlessCrossed ==
  faults = {} /\ ~crossed =>
    \A b \in buckets, f \in files :
      ~b.versioning /\ f.bucket = b.id => Serves(b, f) \/ Removing(f)

\* A name loses its latest version only if the emptying is to delete the others
SomeLatestOrEmptying ==
  faults = {} =>
    \A f \in files :
      \/ \E g \in RowsOf(f.bucket, f.name) : g.latest
      \/ \E w \in Executors : run[w] # Idle /\ \E g \in run[w].left : g.id = f.id
      \/ \E u \in Uploaders : up[u] # Idle /\ up[u].at \in {"save", "insert"}
            /\ up[u].bucket.id = f.bucket /\ up[u].key = f.name
      \/ \E d \in Deleters : del[d] # Idle /\ del[d].at \in {"newest", "promote"}
            /\ del[d].bucket.id = f.bucket /\ del[d].row.name = f.name

\* "bucket not found or you do not have permission" (handlers/
\* bucket_handlers.go): whatever an emptying deletes is in a bucket of the user
\* who asked for it
EmptiesOwnBucket ==
  [][\A w \in Executors :
       run[w] # Idle /\ run[w].at = "row" /\ run'[w] # run[w] =>
         \A f \in files \ files' : run[w].bucket.owner = run[w].job.user]_systemVars
=============================================================================
