-------------------------------- MODULE Store --------------------------------
(***************************************************************************)
(* The shared state of mini-s3-clone: the `buckets' and `files' tables of  *)
(* MySQL (db/mysql.go) and the ./storage directory that the server and the *)
(* worker mount (docker-compose.yml).  The module is passive: it defines   *)
(* what ONE SQL statement or ONE file-system call does, and the handlers   *)
(* are built from these.  gorm runs every statement in a transaction of    *)
(* its own, so each operator below is one atomic step.                     *)
(*                                                                         *)
(* A UUID is the next value of the counter `uuid'.  A file row takes its   *)
(* id in the same call that stamps created_at, so the order of ids is the  *)
(* order of created_at.                                                    *)
(***************************************************************************)
EXTENDS Naturals

CONSTANTS
  Names,    \* bucket names
  Keys,     \* file names
  Users,    \* user ids
  Sizes,    \* what an upload carries, told apart by the recorded size
  Torn      \* what a write that was cut short leaves in a file

ASSUME TornAssumption == Torn \notin Sizes

VARIABLES
  buckets,  \* the rows of table buckets
  files,    \* the rows of table files
  disk,     \* ./storage: the content of every file, by path
  uuid      \* the next fresh UUID

storeVars == <<buckets, files, disk, uuid>>

NoVersion == 0   \* the empty version_id

BucketRows == [id : Nat, name : Names, owner : Users, versioning : BOOLEAN]

FileRows == [id : Nat, bucket : Nat, name : Keys, version : Nat,
             latest : BOOLEAN, size : Sizes]

\* ./storage/<bucket>/<key>, or ./storage/<bucket>/<version>_<key>
Paths == Names \X Keys \X Nat

StoreTypeOK ==
  /\ buckets \subseteq BucketRows
  /\ files \subseteq FileRows
  /\ DOMAIN disk \subseteq Paths
  /\ disk \in [DOMAIN disk -> Sizes \cup {Torn}]
  /\ uuid \in Nat \ {0}

StoreInit ==
  /\ buckets = {}
  /\ files = {}
  /\ disk = [p \in {} |-> Torn]
  /\ uuid = 1

-----------------------------------------------------------------------------
(* Queries *)

\* WHERE bucket_name = ? AND user_id = ?, or the look-up and the owner test
Owned(user, name) == {b \in buckets : b.name = name /\ b.owner = user}

\* WHERE bucket_id = ? AND file_name = ?
RowsOf(bucketId, key) == {f \in files : f.bucket = bucketId /\ f.name = key}

\* ORDER BY created_at DESC LIMIT 1
IsNewest(f, rows) == f \in rows /\ \A g \in rows : g.id <= f.id

PlainPath(bucket, key) == <<bucket.name, key, NoVersion>>

\* versionedFileName, as the uploads and DownloadFile compute it.  With versioning,
\* uploads draw a version
BlobPath(bucket, key, version) ==
  IF bucket.versioning THEN <<bucket.name, key, version>>
                       ELSE PlainPath(bucket, key)

-----------------------------------------------------------------------------
(* Statements *)

\* bucket_name is UNIQUE: the INSERT of a taken name fails
InsertBucket(row) ==
  IF \E b \in buckets : b.name = row.name
  THEN UNCHANGED buckets
  ELSE buckets' = buckets \cup {row}

\* files.bucket_id references buckets ON DELETE CASCADE
DropBucket(id) ==
  /\ buckets' = {b \in buckets : b.id # id}
  /\ files' = {f \in files : f.bucket # id}

\* Mutant: a row of the name is replaced
InsertFileReplacing(row) ==
  IF \E b \in buckets : b.id = row.bucket
  THEN files' = (files \ RowsOf(row.bucket, row.name)) \cup {row}
  ELSE UNCHANGED files

\* and an INSERT whose bucket is gone fails
InsertFile(row) ==
  IF \E b \in buckets : b.id = row.bucket
  THEN files' = files \cup {row}
  ELSE UNCHANGED files

DropFile(id) == files' = {f \in files : f.id # id}

\* UPDATE files SET is_latest = flag on the rows of a set
SetLatest(rows, flag) ==
  files' = {IF f \in rows THEN [f EXCEPT !.latest = flag] ELSE f : f \in files}

-----------------------------------------------------------------------------
(* File-system calls *)

WriteBlob(path, content) ==
  disk' = [p \in DOMAIN disk \cup {path} |->
             IF p = path THEN content ELSE disk[p]]

\* os.Remove, a missing file being no error to the callers
RemoveBlob(path) == disk' = [p \in DOMAIN disk \ {path} |-> disk[p]]
=============================================================================
