----------------------------- MODULE ObjectStore -----------------------------
(***************************************************************************)
(* The bucket and file handlers of the API server (handlers/               *)
(* bucket_handlers.go, handlers/file_handlers.go).  fiber runs every       *)
(* request in a goroutine of its own and the handlers share no lock, so a  *)
(* handler is a sequence of steps - one per SQL statement or file-system   *)
(* call - that interleaves with those of every other request.              *)
(*                                                                         *)
(* A request slot of each kind keeps the handler's local variables: the    *)
(* bucket and file rows are what the handler READ, and may be stale.  A    *)
(* request refused before its first write (not found, forbidden, invalid)  *)
(* changes nothing and is a stuttering step.                               *)
(***************************************************************************)
EXTENDS Store

CONSTANTS
  Uploaders,  \* slots for UploadFile, UploadFilePresignedURL, UploadFileMultipart
  Deleters,   \* slots for DeleteFile
  Creators,   \* slots for CreateBucket
  Droppers,   \* slots for DeleteBucket
  MaxParts,   \* bound: the files of one multipart upload
  MaxUuid,    \* bound: no upload or bucket is begun once uuid exceeds it
  Serial,     \* TRUE: one request at a time
  Faults      \* "abort": a handler may stop, with an error response or by a
              \*    crash of the server, before any of its steps;
              \* "ignored": a statement whose error the code ignores may fail

ASSUME BoundsAssumption == MaxParts \in Nat \ {0} /\ MaxUuid \in Nat
ASSUME ModeAssumption == Serial \in BOOLEAN /\ Faults \subseteq {"abort", "ignored"}

VARIABLES up, del, mk, drop   \* the local state of the requests, by slot

requests == <<up, del, mk, drop>>
vars == <<buckets, files, disk, uuid, up, del, mk, drop>>

Idle == [at |-> "idle"]

Uploads == [at : {"mark", "save", "insert"}, bucket : BucketRows, key : Keys,
            version : Nat, size : Sizes, more : Nat]
Deletes == [at : {"remove", "row", "newest", "promote"}, bucket : BucketRows,
            row : FileRows, target : Nat]
Creates == [at : {"insert"}, name : Names, owner : Users, versioning : BOOLEAN]
Drops   == [at : {"count", "delete"}, bucket : BucketRows]

Quiet ==
  /\ \A u \in Uploaders : up[u] = Idle
  /\ \A d \in Deleters : del[d] = Idle
  /\ \A c \in Creators : mk[c] = Idle
  /\ \A x \in Droppers : drop[x] = Idle

\* A request may arrive
Arrives == Serial => Quiet

Abort == "abort" \in Faults
Ignored == "ignored" \in Faults

Init ==
  /\ StoreInit
  /\ up = [u \in Uploaders |-> Idle]
  /\ del = [d \in Deleters |-> Idle]
  /\ mk = [c \in Creators |-> Idle]
  /\ drop = [x \in Droppers |-> Idle]

-----------------------------------------------------------------------------
(* Uploads *)

\* The next file of the request: UploadFileMultipart loops, the others have one
BeginPart(u, bucket, more) ==
  \E key \in Keys, size \in Sizes :
    up' = [up EXCEPT ![u] =
             [at |-> "mark", bucket |-> bucket, key |-> key,
              version |-> NoVersion, size |-> size, more |-> more]]

\* Mutant: the loop runs once too often
EndPartPastLast(u) == BeginPart(u, up[u].bucket, up[u].more - 1)

EndPart(u) ==
  IF up[u].more = 0
  THEN up' = [up EXCEPT ![u] = Idle]
  ELSE BeginPart(u, up[u].bucket, up[u].more - 1)

\* The bucket is looked up once and its owner compared with the caller
Upload(u) ==
  /\ Arrives
  /\ uuid <= MaxUuid
  /\ up[u] = Idle
  /\ \E user \in Users, name \in Names, parts \in 1..MaxParts :
       \E bucket \in Owned(user, name) : BeginPart(u, bucket, parts - 1)
  /\ UNCHANGED <<storeVars, del, mk, drop>>

\* Mutant: the test of is_latest the wrong way round
LatestOfInverted(u) == {f \in RowsOf(up[u].bucket.id, up[u].key) : ~f.latest}

\* Mutant: file_name = ? left out of the WHERE
LatestOfBucket(u) == {f \in files : f.bucket = up[u].bucket.id /\ f.latest}

LatestOf(u) == {f \in RowsOf(up[u].bucket.id, up[u].key) : f.latest}

\* Versioning on: every latest row of the name stops being latest, and the
\* version id is drawn.  The error of the UPDATE is not looked at.
DemoteLatest(u) ==
  /\ up[u].at = "mark"
  /\ up[u].bucket.versioning
  /\ \/ SetLatest(LatestOf(u), FALSE)
     \/ Ignored /\ UNCHANGED files
  /\ up' = [up EXCEPT ![u].at = "save", ![u].version = uuid]
  /\ uuid' = uuid + 1
  /\ UNCHANGED <<buckets, disk, del, mk, drop>>

\* Versioning off: "file already exists" if the SELECT finds a row; an error
\* of the SELECT counts as no row.  UploadFilePresignedURL stores no version id,
\* the other two store one that the path of the blob does not use.
CheckFree(u) ==
  /\ up[u].at = "mark"
  /\ ~up[u].bucket.versioning
  /\ \/ /\ LatestOf(u) # {}
        /\ EndPart(u)
        /\ UNCHANGED uuid
     \/ /\ LatestOf(u) = {} \/ Ignored
        /\ \E version \in {NoVersion, uuid} :
             /\ up' = [up EXCEPT ![u].at = "save", ![u].version = version]
             /\ uuid' = IF version = uuid THEN uuid + 1 ELSE uuid
  /\ UNCHANGED <<buckets, files, disk, del, mk, drop>>

\* Mutant: the version id left out of the path
UploadPathPlain(u) == PlainPath(up[u].bucket, up[u].key)

UploadPath(u) == BlobPath(up[u].bucket, up[u].key, up[u].version)

SaveFile(u) ==
  /\ up[u].at = "save"
  /\ WriteBlob(UploadPath(u), up[u].size)
  /\ up' = [up EXCEPT ![u].at = "insert"]
  /\ UNCHANGED <<buckets, files, uuid, del, mk, drop>>

\* The row is created for the bucket id read at the start; 201, or 500 when
\* that bucket is gone.  Its id is drawn here.
InsertRow(u) ==
  /\ up[u].at = "insert"
  /\ InsertFile([id |-> uuid, bucket |-> up[u].bucket.id, name |-> up[u].key,
                 version |-> up[u].version, latest |-> TRUE,
                 size |-> up[u].size])
  /\ uuid' = uuid + 1
  /\ EndPart(u)
  /\ UNCHANGED <<buckets, disk, del, mk, drop>>

\* An error ends one file (a multipart upload goes on with the next), a crash
\* the request; SaveFile may leave a file cut short.  Nothing is rolled back.
UploadAborts(u) ==
  /\ Abort
  /\ up[u] # Idle
  /\ \/ up[u].at \in {"save", "insert"} /\ EndPart(u)
     \/ up' = [up EXCEPT ![u] = Idle]
  /\ \/ UNCHANGED disk
     \/ up[u].at = "save" /\ WriteBlob(UploadPath(u), Torn)
  /\ UNCHANGED <<buckets, files, uuid, del, mk, drop>>

-----------------------------------------------------------------------------
(* DeleteFile *)

\* The bucket and the row: the latest of the name, or the ?versionID= asked
\* for.  Between the two SELECTs only the row can change what happens next (a
\* row's bucket exists and bucket rows are never updated), so they are one step.
Delete(d) ==
  /\ Arrives
  /\ del[d] = Idle
  /\ \E user \in Users, name \in Names, key \in Keys :
       \E bucket \in Owned(user, name) : \E f \in RowsOf(bucket.id, key) :
         /\ f.latest \/ f.version # NoVersion
         /\ del' = [del EXCEPT ![d] = [at |-> "remove", bucket |-> bucket,
                                       row |-> f, target |-> 0]]
  /\ UNCHANGED <<storeVars, up, mk, drop>>

\* Mutant: the file of the version removed while its row is still there
RemoveFileOfVersion(d) ==
  /\ del[d].at = "remove"
  /\ RemoveBlob(BlobPath(del[d].bucket, del[d].row.name, del[d].row.version))
  /\ del' = [del EXCEPT ![d].at = "row"]
  /\ UNCHANGED <<buckets, files, uuid, up, mk, drop>>

\* Mutant: the file left on disk
RemoveFileSkipped(d) ==
  /\ del[d].at = "remove"
  /\ del' = [del EXCEPT ![d].at = "row"]
  /\ UNCHANGED <<storeVars, up, mk, drop>>

\* The path has no version, whatever the bucket
RemoveFile(d) ==
  /\ del[d].at = "remove"
  /\ RemoveBlob(PlainPath(del[d].bucket, del[d].row.name))
  /\ del' = [del EXCEPT ![d].at = "row"]
  /\ UNCHANGED <<buckets, files, uuid, up, mk, drop>>

DeleteRow(d) ==
  /\ del[d].at = "row"
  /\ DropFile(del[d].row.id)
  /\ del' = IF del[d].bucket.versioning /\ del[d].row.latest
            THEN [del EXCEPT ![d].at = "newest"]
            ELSE [del EXCEPT ![d] = Idle]
  /\ UNCHANGED <<buckets, disk, uuid, up, mk, drop>>

\* Mutant: the newest looked for among the latest rows
RemainingLatest(d) ==
  {f \in RowsOf(del[d].bucket.id, del[d].row.name) : f.latest}

Remaining(d) == RowsOf(del[d].bucket.id, del[d].row.name)

FindNewest(d) ==
  /\ del[d].at = "newest"
  /\ \/ Remaining(d) = {} /\ del' = [del EXCEPT ![d] = Idle]
     \/ \E f \in files :
          /\ IsNewest(f, Remaining(d))
          /\ del' = [del EXCEPT ![d].at = "promote", ![d].target = f.id]
  /\ UNCHANGED <<storeVars, up, mk, drop>>

\* UPDATE by primary key; its error is not looked at
PromoteNewest(d) ==
  /\ del[d].at = "promote"
  /\ \/ SetLatest({f \in files : f.id = del[d].target}, TRUE)
     \/ Ignored /\ UNCHANGED files
  /\ del' = [del EXCEPT ![d] = Idle]
  /\ UNCHANGED <<buckets, disk, uuid, up, mk, drop>>

DeleteAborts(d) ==
  /\ Abort
  /\ del[d] # Idle
  /\ del' = [del EXCEPT ![d] = Idle]
  /\ UNCHANGED <<storeVars, up, mk, drop>>

-----------------------------------------------------------------------------
(* CreateBucket *)

\* "bucket name already exists"; an error of the SELECT counts as no row
Create(c) ==
  /\ Arrives
  /\ uuid <= MaxUuid
  /\ mk[c] = Idle
  /\ \E user \in Users, name \in Names, versioning \in BOOLEAN :
       /\ Ignored \/ \A b \in buckets : b.name # name
       /\ mk' = [mk EXCEPT ![c] = [at |-> "insert", name |-> name,
                                   owner |-> user, versioning |-> versioning]]
  /\ UNCHANGED <<storeVars, up, del, drop>>

\* CreateBucketDir makes /storage/<name>, a directory nothing else uses
InsertBucketRow(c) ==
  /\ mk[c].at = "insert"
  /\ InsertBucket([id |-> uuid, name |-> mk[c].name, owner |-> mk[c].owner,
                   versioning |-> mk[c].versioning])
  /\ uuid' = uuid + 1
  /\ mk' = [mk EXCEPT ![c] = Idle]
  /\ UNCHANGED <<files, disk, up, del, drop>>

CreateAborts(c) ==
  /\ Abort
  /\ mk[c] # Idle
  /\ mk' = [mk EXCEPT ![c] = Idle]
  /\ UNCHANGED <<storeVars, up, del, drop>>

-----------------------------------------------------------------------------
(* DeleteBucket *)

Drop(x) ==
  /\ Arrives
  /\ drop[x] = Idle
  /\ \E user \in Users, name \in Names : \E bucket \in Owned(user, name) :
       drop' = [drop EXCEPT ![x] = [at |-> "count", bucket |-> bucket]]
  /\ UNCHANGED <<storeVars, up, del, mk>>

FilesIn(bucket) == {f \in files : f.bucket = bucket.id}

\* Mutant: the COUNT not compared with 0
CountFilesUnchecked(x) ==
  /\ drop[x].at = "count"
  /\ drop' = [drop EXCEPT ![x].at = "delete"]
  /\ UNCHANGED <<storeVars, up, del, mk>>

\* "bucket is not empty"; if the COUNT fails, fileCount keeps its zero
CountFiles(x) ==
  /\ drop[x].at = "count"
  /\ \/ FilesIn(drop[x].bucket) # {} /\ drop' = [drop EXCEPT ![x] = Idle]
     \/ /\ FilesIn(drop[x].bucket) = {} \/ Ignored
        /\ drop' = [drop EXCEPT ![x].at = "delete"]
  /\ UNCHANGED <<storeVars, up, del, mk>>

\* The directory of the bucket stays
DeleteBucketRow(x) ==
  /\ drop[x].at = "delete"
  /\ DropBucket(drop[x].bucket.id)
  /\ drop' = [drop EXCEPT ![x] = Idle]
  /\ UNCHANGED <<disk, uuid, up, del, mk>>

DropAborts(x) ==
  /\ Abort
  /\ drop[x] # Idle
  /\ drop' = [drop EXCEPT ![x] = Idle]
  /\ UNCHANGED <<storeVars, up, del, mk>>

-----------------------------------------------------------------------------
(* Downloads: the contents each handler may answer with, none being a 404.  *)
(* They change no state.                                                    *)

Asked(bucket, key, version) ==
  {f \in RowsOf(bucket.id, key) :
     IF version # NoVersion THEN f.version = version ELSE f.latest}

Contents(paths) == {disk[p] : p \in paths \cap DOMAIN disk}

Download(bucket, key, version) ==
  Contents({BlobPath(bucket, key, f.version) : f \in Asked(bucket, key, version)})

\* <version>_<key> in every bucket; no upload stores a file under "_<key>"
PresignedDownload(bucket, key, version) ==
  Contents({<<bucket.name, key, f.version>> :
              f \in {g \in Asked(bucket, key, version) : g.version # NoVersion}})

-----------------------------------------------------------------------------
UploadStep(u) ==
  \/ Upload(u) \/ DemoteLatest(u) \/ CheckFree(u) \/ SaveFile(u)
  \/ InsertRow(u) \/ UploadAborts(u)

DeleteStep(d) ==
  \/ Delete(d) \/ RemoveFile(d) \/ DeleteRow(d) \/ FindNewest(d)
  \/ PromoteNewest(d) \/ DeleteAborts(d)

CreateStep(c) == Create(c) \/ InsertBucketRow(c) \/ CreateAborts(c)

DropStep(x) == Drop(x) \/ CountFiles(x) \/ DeleteBucketRow(x) \/ DropAborts(x)

Next ==
  \/ \E u \in Uploaders : UploadStep(u)
  \/ \E d \in Deleters : DeleteStep(d)
  \/ \E c \in Creators : CreateStep(c)
  \/ \E x \in Droppers : DropStep(x)

Spec == Init /\ [][Next]_vars

-----------------------------------------------------------------------------
(* Properties *)

RequestsTypeOK ==
  /\ up \in [Uploaders -> Uploads \cup {Idle}]
  /\ del \in [Deleters -> Deletes \cup {Idle}]
  /\ mk \in [Creators -> Creates \cup {Idle}]
  /\ drop \in [Droppers -> Drops \cup {Idle}]

\* Every table, file and local variable keeps its type
TypeOK == StoreTypeOK /\ RequestsTypeOK

Serves(bucket, f) ==
  LET path == BlobPath(bucket, f.name, f.version)
  IN  path \in DOMAIN disk /\ disk[path] = f.size

\* DownloadFile serves every version of a versioned bucket that has a row, with
\* the content of the upload that created the row: whatever uploads, deletes,
\* bucket deletions and re-creations overlap, and wherever they abort
VersionedBlobsIntact ==
  \A b \in buckets, f \in files :
    b.versioning /\ f.bucket = b.id => Serves(b, f)

\* The uploads that write, or have written, a version of an object
Versions(u) ==
  up[u] # Idle /\ up[u].at \in {"save", "insert"} /\ up[u].bucket.versioning

\* Every UUID in use was drawn before
Drawn ==
  /\ \A b \in buckets : b.id < uuid
  /\ \A f \in files : f.bucket < uuid /\ f.version < uuid
  /\ \A u \in Uploaders : up[u] # Idle =>
       up[u].bucket.id < uuid /\ up[u].version < uuid

\* A bucket id stands for one row for ever, also in a request that read it
OneRowPerId ==
  /\ \A b, c \in buckets : b.id = c.id => b = c
  /\ \A u \in Uploaders, b \in buckets :
       up[u] # Idle /\ b.id = up[u].bucket.id => b = up[u].bucket

\* No two uploads, finished or not, write one version
OwnVersion ==
  \A u \in Uploaders : Versions(u) =>
    /\ up[u].version # NoVersion
    /\ \A f \in files : f.version # up[u].version
    /\ \A w \in Uploaders \ {u} :
         up[w] # Idle => up[w].version # up[u].version

\* The blob of a version is complete before its row is inserted
BlobFirst ==
  \A u \in Uploaders : Versions(u) /\ up[u].at = "insert" =>
    UploadPath(u) \in DOMAIN disk /\ disk[UploadPath(u)] = up[u].size

\* No version has the path that DeleteFile removes
NamedVersions ==
  \A b \in buckets, f \in files :
    b.versioning /\ f.bucket = b.id => f.version # NoVersion

\* Why VersionedBlobsIntact holds: with these it is kept by every step of every
\* handler, whatever the others have done since it read its bucket
VersionedInv ==
  Drawn /\ OneRowPerId /\ OwnVersion /\ BlobFirst /\ NamedVersions
    /\ VersionedBlobsIntact

\* The same in an unversioned bucket, but for the row a DeleteFile is removing
PlainBlobsIntact ==
  \A b \in buckets, f \in files :
    ~b.versioning /\ f.bucket = b.id =>
      \/ Serves(b, f)
      \/ \E d \in Deleters : del[d] # Idle /\ del[d].at = "row" /\ del[d].row.id = f.id

\* What DownloadFile finds under an unversioned name is what that row's upload
\* stored, never the content of another upload or of one cut short
NoForeignContent ==
  \A b \in buckets, f \in files :
    /\ ~b.versioning /\ f.bucket = b.id
    /\ PlainPath(b, f.name) \in DOMAIN disk
    => Serves(b, f)

\* "file already exists" (handlers/file_handlers.go): an unversioned bucket has
\* one row for a name
UniqueName ==
  \A b \in buckets : ~b.versioning =>
    \A f, g \in files :
      f.bucket = b.id /\ g.bucket = b.id /\ f.name = g.name => f = g

\* "true for the latest version of the file" (sql/schema.sql): of the rows of a
\* name at most one is the latest
AtMostOneLatest ==
  \A f, g \in files :
    f.latest /\ g.latest /\ f.bucket = g.bucket /\ f.name = g.name => f = g

\* "marks latest version" (db/mysql.go): a name that has rows has a latest one, or
\* a handler is about to give it one
SomeLatest ==
  \A f \in files :
    \/ \E g \in RowsOf(f.bucket, f.name) : g.latest
    \/ \E u \in Uploaders : up[u] # Idle /\ up[u].at \in {"save", "insert"}
          /\ up[u].bucket.id = f.bucket /\ up[u].key = f.name
    \/ \E d \in Deleters : del[d] # Idle /\ del[d].at \in {"newest", "promote"}
          /\ del[d].bucket.id = f.bucket /\ del[d].row.name = f.name

\* In a server that handles one request at a time, the handlers of uploads and
\* deletes keep DownloadFile on the newest remaining upload of a name
GetReturnsNewest ==
  Quiet => \A b \in buckets, key \in Keys :
    Download(b, key, NoVersion) =
      {f.size : f \in {g \in files : IsNewest(g, RowsOf(b.id, key))}}

\* ... and leave no file behind in an unversioned bucket
PlainFilesHaveRows ==
  Quiet => \A path \in DOMAIN disk : path[3] = NoVersion =>
    \E b \in buckets, f \in files :
      b.name = path[1] /\ f.bucket = b.id /\ f.name = path[2]

\* "file deleted successfully" (handlers/file_handlers.go): the same in a
\* versioned one
VersionedFilesHaveRows ==
  Quiet => \A path \in DOMAIN disk : path[3] # NoVersion =>
    \E b \in buckets, f \in files :
      b.name = path[1] /\ f.bucket = b.id /\ f.name = path[2] /\ f.version = path[3]

\* A presigned URL gives what DownloadFile gives
PresignedServes ==
  Quiet => \A b \in buckets, key \in Keys :
    PresignedDownload(b, key, NoVersion) = Download(b, key, NoVersion)

\* "bucket is not empty" (handlers/bucket_handlers.go): no step removes a bucket
\* that has file rows, which would go with it
DropOnlyEmpty ==
  [][\A b \in buckets \ buckets' : FilesIn(b) = {}]_vars
=============================================================================
