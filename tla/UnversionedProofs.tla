--------------------------- MODULE UnversionedProofs ---------------------------
(***************************************************************************)
(* Theorems about the unversioned buckets of ObjectStore.  The handlers    *)
(* check that a name is free and write its file and its row later, with no *)
(* lock: two uploads can both find it free.  That, and an error of the     *)
(* SELECT that the code ignores, is all that goes wrong: without them a    *)
(* name has one row and the content of its upload, whatever deletes,       *)
(* bucket creations and bucket deletions overlap the upload, and wherever  *)
(* any of them stops.                                                      *)
(***************************************************************************)
EXTENDS ObjectStoreProofs

SoleUploader == \A u, w \in Uploaders : u = w

-----------------------------------------------------------------------------
(* The inductive invariant *)

BucketNames == \A b, c \in buckets : b.name = c.name => b = c

\* CheckFree looks at the latest rows only: in an unversioned bucket, all are
AllLatest ==
  \A b \in buckets, f \in files : ~b.versioning /\ f.bucket = b.id => f.latest

\* A bucket that has taken the name of the bucket an upload has read is empty:
\* there is nobody else to fill it
NewBucketEmpty ==
  \A u \in Uploaders, b \in buckets :
    up[u] # Idle /\ b.name = up[u].bucket.name /\ b.id # up[u].bucket.id =>
      \A f \in files : f.bucket # b.id

\* The upload that writes, or has written, the file of an unversioned name
Plain(u) ==
  up[u] # Idle /\ up[u].at \in {"save", "insert"} /\ ~up[u].bucket.versioning

\* ... has no row that its file could be taken from, also in a bucket that has
\* taken the name of its bucket
NameFree ==
  \A u \in Uploaders : Plain(u) =>
    \A b \in buckets, f \in files :
      ~b.versioning /\ b.name = up[u].bucket.name /\ f.bucket = b.id =>
        f.name # up[u].key

\* ... and what it wrote stays, unless it is removed
OwnContent ==
  \A u \in Uploaders :
    Plain(u) /\ up[u].at = "insert" /\ UploadPath(u) \in DOMAIN disk =>
      disk[UploadPath(u)] = up[u].size

PlainInv ==
  BucketNames /\ AllLatest /\ NewBucketEmpty /\ NameFree /\ OwnContent
    /\ UniqueName /\ NoForeignContent

\* What its proof takes from ObjectStoreProofs
PlainTypeInv == TypeOK /\ TypeOK' /\ VersionedInv

-----------------------------------------------------------------------------
(* The steps that write nothing *)

\* Most steps leave the rows of unversioned buckets alone, or remove some ...
PlainRowsKept ==
  \A b \in buckets, f \in files' : ~b.versioning /\ f.bucket = b.id => f \in files

\* ... and remove files from the disk, or none
DiskShrinks ==
  \A path \in DOMAIN disk' : path \in DOMAIN disk /\ disk'[path] = disk[path]

\* Such a step keeps the invariant
LEMMA WritelessKeepsPlain ==
  ASSUME PlainTypeInv, PlainInv, buckets' \subseteq buckets, SlotsKept, RowsKept,
         PlainRowsKept, DiskShrinks
  PROVE  PlainInv'
<1> USE DEF PlainTypeInv, PlainInv
<1>0. ASSUME NEW u \in Uploaders, Plain(u)'
      PROVE  up'[u] = up[u] /\ Plain(u)
  BY <1>0 DEF SlotsKept, SlotKept, Plain, Idle
<1>1. BucketNames' /\ AllLatest'
  BY DEF BucketNames, AllLatest, PlainRowsKept
<1>2. NewBucketEmpty'
  BY DEF NewBucketEmpty, BucketNames, RowsKept, SlotsKept, SlotKept
<1>3. NameFree'
  BY <1>0 DEF NameFree, PlainRowsKept
<1>4. OwnContent'
  <2> SUFFICES ASSUME NEW u \in Uploaders, Plain(u)', up'[u].at = "insert",
                      UploadPath(u)' \in DOMAIN disk'
               PROVE  disk'[UploadPath(u)'] = up'[u].size
    BY DEF OwnContent
  <2>1. up'[u] = up[u] /\ Plain(u) /\ UploadPath(u)' = UploadPath(u)
    BY <1>0 DEF UploadPath
  <2>2. QED
    BY <2>1 DEF OwnContent, DiskShrinks
<1>5. UniqueName'
  BY DEF UniqueName, PlainRowsKept
<1>6. NoForeignContent'
  BY DEF NoForeignContent, Serves, BlobPath, PlainPath, PlainRowsKept, DiskShrinks
<1>7. QED
  BY <1>1, <1>2, <1>3, <1>4, <1>5, <1>6

-----------------------------------------------------------------------------
(* The steps of an upload that write *)

\* Demoting the latest rows of a versioned bucket
LEMMA DemoteKeepsPlain ==
  ASSUME SoleUploader, PlainTypeInv, PlainInv, NEW u \in Uploaders, DemoteLatest(u)
  PROVE  PlainInv'
<1> USE DEF PlainTypeInv, PlainInv
<1>0. /\ up[u] \in Uploads
      /\ up'[u] = [up[u] EXCEPT !.at = "save", !.version = uuid]
  BY DEF DemoteLatest, TypeOK, RequestsTypeOK, Idle
<1>1. /\ up[u] # Idle /\ up[u].bucket.versioning
      /\ UNCHANGED <<buckets, disk>>
      /\ \A w \in Uploaders : w = u
  BY DEF DemoteLatest, Idle, SoleUploader
<1>2. up'[u].bucket = up[u].bucket /\ ~Plain(u)'
  <2>1. up'[u].bucket = up[u].bucket
    BY ONLY <1>0, SavingUpload
  <2>2. QED
    BY <1>1, <2>1 DEF Plain
<1>3. RowsKept
  BY SetLatestKeepsRows DEF DemoteLatest, RowsKept
<1>4. PlainRowsKept
  <2>1. CASE SetLatest(LatestOf(u), FALSE)
    <3> SUFFICES ASSUME NEW b \in buckets, NEW f \in files', ~b.versioning,
                        f.bucket = b.id
                 PROVE  f \in files
      BY <1>1 DEF PlainRowsKept
    <3>1. PICK g \in files :
            f = IF g \in LatestOf(u) THEN [g EXCEPT !.latest = FALSE] ELSE g
      BY <2>1 DEF SetLatest
    <3>2. f.bucket = g.bucket
      BY <3>1 DEF TypeOK, StoreTypeOK, FileRows
    <3>3. g \notin LatestOf(u)
      BY <1>1, <3>2 DEF LatestOf, RowsOf, VersionedInv, OneRowPerId
    <3>4. QED
      BY <3>1, <3>3
  <2>2. CASE UNCHANGED files
    BY <2>2 DEF PlainRowsKept
  <2>3. QED
    BY <2>1, <2>2 DEF DemoteLatest
<1>5. BucketNames' /\ AllLatest' /\ UniqueName' /\ NoForeignContent'
  BY <1>1, <1>4 DEF BucketNames, AllLatest, UniqueName, NoForeignContent, Serves,
                    PlainRowsKept
<1>6. NewBucketEmpty'
  BY <1>1, <1>2, <1>3 DEF NewBucketEmpty, RowsKept
<1>7. NameFree' /\ OwnContent'
  BY <1>1, <1>2 DEF NameFree, OwnContent
<1>8. QED
  BY <1>5, <1>6, <1>7

\* Finding a name free, the SELECT having been answered
LEMMA FreeKeepsPlain ==
  ASSUME SoleUploader, PlainTypeInv, PlainInv, NEW u \in Uploaders,
         up[u].at = "mark", ~up[u].bucket.versioning, LatestOf(u) = {},
         NEW version \in Nat,
         up' = [up EXCEPT ![u].at = "save", ![u].version = version],
         UNCHANGED <<buckets, files, disk>>
  PROVE  PlainInv'
<1> USE DEF PlainTypeInv, PlainInv
<1>0. /\ up[u] \in Uploads
      /\ up'[u] = [up[u] EXCEPT !.at = "save", !.version = version]
  BY DEF TypeOK, RequestsTypeOK, Idle
<1>1. up[u] # Idle /\ \A w \in Uploaders : w = u
  BY DEF Idle, SoleUploader
<1>2. up'[u].bucket = up[u].bucket /\ up'[u].at = "save" /\ up'[u].key = up[u].key
  BY ONLY <1>0 DEF Uploads
<1>3. BucketNames' /\ AllLatest' /\ UniqueName' /\ NoForeignContent'
  BY DEF BucketNames, AllLatest, UniqueName, NoForeignContent, Serves
<1>4. NewBucketEmpty' /\ OwnContent'
  BY ONLY <1>1, <1>2, PlainInv, UNCHANGED <<buckets, files, disk>>
     DEF PlainInv, NewBucketEmpty, OwnContent
<1>5. NameFree'
  <2>1. ASSUME NEW b \in buckets, NEW f \in files, ~b.versioning,
               b.name = up[u].bucket.name, f.bucket = b.id
        PROVE  f.name # up[u].key
    <3>1. CASE b.id = up[u].bucket.id
      BY <2>1, <3>1 DEF AllLatest, LatestOf, RowsOf
    <3>2. CASE b.id # up[u].bucket.id
      BY <1>1, <2>1, <3>2 DEF NewBucketEmpty
    <3>3. QED
      BY <3>1, <3>2
  <2>2. QED
    BY ONLY <1>1, <1>2, <2>1, UNCHANGED <<buckets, files>> DEF NameFree
<1>6. QED
  BY <1>3, <1>4, <1>5

\* No row of an unversioned bucket has the path an upload writes to
LEMMA WriteMissesRows ==
  ASSUME PlainTypeInv, PlainInv, NEW u \in Uploaders, up[u].at = "save",
         NEW b \in buckets, NEW f \in files, ~b.versioning, f.bucket = b.id
  PROVE  PlainPath(b, f.name) # UploadPath(u)
<1> USE DEF PlainTypeInv, PlainInv
<1>1. up[u] # Idle
  BY DEF Idle
<1>2. CASE up[u].bucket.versioning
  <2>1. UploadPath(u)[3] # NoVersion
    BY <1>1, <1>2, VersionPath DEF UploadPath, VersionedInv, OwnVersion, Versions
  <2>2. QED
    BY <2>1 DEF PlainPath
<1>3. CASE ~up[u].bucket.versioning
  BY <1>1, <1>3 DEF NameFree, Plain, UploadPath, BlobPath, PlainPath
<1>4. QED
  BY <1>2, <1>3

\* Writing to that path, all of the content or part of it
LEMMA WriteKeepsPlain ==
  ASSUME PlainTypeInv, PlainInv, NEW u \in Uploaders, up[u].at = "save",
         NEW content, WriteBlob(UploadPath(u), content), UNCHANGED <<buckets, files>>
  PROVE  BucketNames' /\ AllLatest' /\ UniqueName' /\ NoForeignContent'
<1> USE DEF PlainTypeInv, PlainInv
<1>1. BucketNames' /\ AllLatest' /\ UniqueName'
  BY DEF BucketNames, AllLatest, UniqueName
<1>2. NoForeignContent'
  <2> SUFFICES ASSUME NEW b \in buckets, NEW f \in files, ~b.versioning,
                      f.bucket = b.id, PlainPath(b, f.name) \in DOMAIN disk'
               PROVE  Serves(b, f)'
    BY DEF NoForeignContent
  <2>1. PlainPath(b, f.name) # UploadPath(u)
    BY WriteMissesRows
  <2>2. QED
    BY <2>1 DEF NoForeignContent, Serves, BlobPath, WriteBlob
<1>3. QED
  BY <1>1, <1>2

\* Writing the file of an upload
LEMMA SaveKeepsPlain ==
  ASSUME SoleUploader, PlainTypeInv, PlainInv, NEW u \in Uploaders, SaveFile(u)
  PROVE  PlainInv'
<1> USE DEF PlainTypeInv, PlainInv
<1>0. up[u] \in Uploads /\ up'[u] = [up[u] EXCEPT !.at = "insert"]
  BY DEF SaveFile, TypeOK, RequestsTypeOK, Idle
<1>1. /\ up[u] # Idle /\ up[u].at = "save"
      /\ WriteBlob(UploadPath(u), up[u].size)
      /\ UNCHANGED <<buckets, files>>
      /\ \A w \in Uploaders : w = u
  BY DEF SaveFile, Idle, SoleUploader
<1>2. /\ up'[u].bucket = up[u].bucket /\ up'[u].version = up[u].version
      /\ up'[u].key = up[u].key /\ up'[u].size = up[u].size
  BY ONLY <1>0, SavedUpload
<1>3. BucketNames' /\ AllLatest' /\ UniqueName' /\ NoForeignContent'
  BY <1>1, WriteKeepsPlain
<1>4. NewBucketEmpty' /\ NameFree'
  BY ONLY <1>1, <1>2, PlainInv DEF PlainInv, NewBucketEmpty, NameFree, Plain
<1>5. OwnContent'
  <2>1. UploadPath(u)' = UploadPath(u)
    BY <1>2 DEF UploadPath
  <2>2. disk'[UploadPath(u)'] = up'[u].size
    BY <1>1, <1>2, <2>1 DEF WriteBlob
  <2>3. QED
    BY <1>1, <2>2 DEF OwnContent
<1>6. QED
  BY <1>3, <1>4, <1>5

\* Inserting the row of a file, whose name no row has
LEMMA InsertKeepsPlain ==
  ASSUME SoleUploader, PlainTypeInv, PlainInv, NEW u \in Uploaders, InsertRow(u)
  PROVE  PlainInv'
<1> DEFINE row == [id |-> uuid, bucket |-> up[u].bucket.id, name |-> up[u].key,
                   version |-> up[u].version, latest |-> TRUE, size |-> up[u].size]
<1> USE DEF PlainTypeInv, PlainInv
<1>1. /\ up[u] # Idle /\ up[u].at = "insert" /\ InsertFile(row) /\ EndPart(u)
      /\ UNCHANGED <<buckets, disk>>
      /\ \A w \in Uploaders : w = u
  BY DEF InsertRow, Idle, SoleUploader
<1>2. /\ row.bucket = up[u].bucket.id /\ row.name = up[u].key /\ row.latest
      /\ row.version = up[u].version /\ row.size = up[u].size
  OBVIOUS
<1> HIDE DEF row
<1>3. files' \subseteq files \cup {row}
  BY <1>1 DEF InsertFile
<1>4. SlotsKept
  BY <1>1, EndPartKeepsSlots
<1>5. up'[u] = Idle \/ (up'[u].at = "mark" /\ up'[u].bucket = up[u].bucket)
  BY <1>1 DEF EndPart, BeginPart, TypeOK, RequestsTypeOK
<1>6. ~Plain(u)'
  BY <1>5 DEF Plain
<1>7. BucketNames' /\ AllLatest' /\ NameFree' /\ OwnContent'
  BY <1>1, <1>2, <1>3, <1>6 DEF BucketNames, AllLatest, NameFree, OwnContent
<1>8. NewBucketEmpty'
  BY <1>1, <1>2, <1>3, <1>5 DEF NewBucketEmpty
<1>9. ASSUME NEW b \in buckets, ~b.versioning, row.bucket = b.id
      PROVE  /\ b = up[u].bucket /\ Plain(u)
             /\ \A f \in files : f.bucket = b.id => f.name # row.name
  <2>1. b = up[u].bucket
    BY <1>1, <1>2, <1>9 DEF VersionedInv, OneRowPerId
  <2>2. QED
    BY <1>1, <1>2, <1>9, <2>1 DEF NameFree, Plain
<1>10. UniqueName'
  BY <1>1, <1>3, <1>9 DEF UniqueName
<1>11. NoForeignContent'
  <2> SUFFICES ASSUME NEW b \in buckets, NEW f \in files', ~b.versioning,
                      f.bucket = b.id, PlainPath(b, f.name) \in DOMAIN disk
               PROVE  Serves(b, f)
    BY <1>1 DEF NoForeignContent, Serves
  <2>1. CASE f = row
    BY <1>1, <1>2, <1>9, <2>1 DEF OwnContent, UploadPath, BlobPath, PlainPath, Serves
  <2>2. QED
    BY <1>3, <2>1 DEF NoForeignContent
<1>12. QED
  BY <1>7, <1>8, <1>10, <1>11

\* Stopping while the file is written
LEMMA TornKeepsPlain ==
  ASSUME SoleUploader, PlainTypeInv, PlainInv, NEW u \in Uploaders, UploadAborts(u)
  PROVE  PlainInv'
<1> USE DEF PlainTypeInv, PlainInv
<1>1. /\ up[u] # Idle /\ SlotsKept /\ UNCHANGED <<buckets, files>>
      /\ \A w \in Uploaders : w = u
  BY EndPartKeepsSlots DEF UploadAborts, SoleUploader
<1>2. up'[u] = Idle \/ (up'[u].at = "mark" /\ up'[u].bucket = up[u].bucket)
  BY DEF UploadAborts, EndPart, BeginPart, TypeOK, RequestsTypeOK
<1>3. CASE UNCHANGED disk
  <2>1. RowsKept /\ PlainRowsKept /\ DiskShrinks
    BY <1>1, <1>3 DEF RowsKept, PlainRowsKept, DiskShrinks
  <2>2. QED
    BY <1>1, <2>1, WritelessKeepsPlain
<1>4. CASE up[u].at = "save" /\ WriteBlob(UploadPath(u), Torn)
  <2>1. BucketNames' /\ AllLatest' /\ UniqueName' /\ NoForeignContent'
    BY <1>1, <1>4, WriteKeepsPlain
  <2>2. NewBucketEmpty'
    BY <1>1, <1>2 DEF NewBucketEmpty
  <2>3. NameFree' /\ OwnContent'
    BY <1>1, <1>2 DEF NameFree, OwnContent, Plain
  <2>4. QED
    BY <2>1, <2>2, <2>3
<1>5. QED
  BY <1>3, <1>4 DEF UploadAborts

-----------------------------------------------------------------------------
(* Every step *)

\* The steps of an upload
LEMMA UploadStepKeepsPlain ==
  ASSUME SoleUploader, ~Ignored, PlainTypeInv, PlainInv, NEW u \in Uploaders,
         UploadStep(u)
  PROVE  PlainInv'
<1> USE DEF storeVars
<1>1. CASE Upload(u)
  <2>1. SlotsKept
    BY <1>1 DEF Upload, Owned, BeginPart, SlotsKept, SlotKept, PlainTypeInv, TypeOK,
                RequestsTypeOK
  <2>2. RowsKept /\ PlainRowsKept /\ DiskShrinks
    BY <1>1 DEF Upload, RowsKept, PlainRowsKept, DiskShrinks
  <2>3. QED
    BY <1>1, <2>1, <2>2, WritelessKeepsPlain DEF Upload
<1>2. CASE DemoteLatest(u)
  BY <1>2, DemoteKeepsPlain
<1>3. CASE CheckFree(u)
  <2>1. up[u] # Idle /\ RowsKept /\ PlainRowsKept /\ DiskShrinks
    BY <1>3 DEF CheckFree, Idle, RowsKept, PlainRowsKept, DiskShrinks
  <2>2. CASE EndPart(u)
    <3>1. SlotsKept
      BY <2>1, <2>2, EndPartKeepsSlots DEF PlainTypeInv
    <3>2. QED
      BY <1>3, <2>1, <3>1, WritelessKeepsPlain DEF CheckFree
  <2>3. CASE /\ LatestOf(u) = {}
             /\ \E version \in {NoVersion, uuid} :
                  up' = [up EXCEPT ![u].at = "save", ![u].version = version]
    <3>1. NoVersion \in Nat /\ uuid \in Nat
      BY DEF PlainTypeInv, TypeOK, StoreTypeOK, NoVersion
    <3>2. QED
      BY <1>3, <2>3, <3>1, FreeKeepsPlain DEF CheckFree
  <2>4. QED
    BY <1>3, <2>2, <2>3 DEF CheckFree
<1>4. CASE SaveFile(u)
  BY <1>4, SaveKeepsPlain
<1>5. CASE InsertRow(u)
  BY <1>5, InsertKeepsPlain
<1>6. CASE UploadAborts(u)
  BY <1>6, TornKeepsPlain
<1>7. QED
  BY <1>1, <1>2, <1>3, <1>4, <1>5, <1>6 DEF UploadStep

\* The steps of DeleteFile: a row of an unversioned bucket it promotes is
\* latest already
LEMMA DeleteStepKeepsPlain ==
  ASSUME PlainTypeInv, PlainInv, NEW d \in Deleters, DeleteStep(d)
  PROVE  PlainInv'
<1> USE DEF storeVars
<1>1. SlotsKept /\ UNCHANGED buckets
  BY DEF DeleteStep, Delete, RemoveFile, DeleteRow, FindNewest, PromoteNewest,
         DeleteAborts, SlotsKept, SlotKept
<1>2. RowsKept /\ PlainRowsKept
  <2>1. CASE DeleteRow(d)
    BY <2>1 DEF DeleteRow, DropFile, RowsKept, PlainRowsKept
  <2>2. CASE PromoteNewest(d)
    <3>1. CASE UNCHANGED files
      BY <3>1 DEF RowsKept, PlainRowsKept
    <3>2. CASE SetLatest({f \in files : f.id = del[d].target}, TRUE)
      <4>1. RowsKept
        BY <3>2, SetLatestKeepsRows DEF PlainTypeInv
      <4>2. ASSUME NEW f \in files, f.latest = TRUE
            PROVE  [f EXCEPT !.latest = TRUE] = f
        BY <4>2 DEF PlainTypeInv, TypeOK, StoreTypeOK, FileRows
      <4>3. ASSUME NEW f \in files
            PROVE  [f EXCEPT !.latest = TRUE].bucket = f.bucket
        BY DEF PlainTypeInv, TypeOK, StoreTypeOK, FileRows
      <4>4. ASSUME NEW b \in buckets, NEW f \in files', ~b.versioning,
                   f.bucket = b.id
            PROVE  f \in files
        <5>1. PICK g \in files : f = g \/ f = [g EXCEPT !.latest = TRUE]
          BY <3>2 DEF SetLatest
        <5>2. g.bucket = b.id
          BY <4>3, <4>4, <5>1
        <5>3. g.latest \in BOOLEAN /\ g.latest
          BY <4>4, <5>2 DEF PlainInv, AllLatest, PlainTypeInv, TypeOK, StoreTypeOK,
                            FileRows
        <5>4. QED
          BY <4>2, <5>1, <5>3
      <4>5. QED
        BY <4>1, <4>4 DEF PlainRowsKept
    <3>3. QED
      BY <2>2, <3>1, <3>2 DEF PromoteNewest
  <2>3. CASE Delete(d) \/ RemoveFile(d) \/ FindNewest(d) \/ DeleteAborts(d)
    BY <2>3 DEF Delete, RemoveFile, FindNewest, DeleteAborts, RowsKept, PlainRowsKept
  <2>4. QED
    BY <2>1, <2>2, <2>3 DEF DeleteStep
<1>3. DiskShrinks
  BY DEF DeleteStep, Delete, RemoveFile, RemoveBlob, DeleteRow, FindNewest,
         PromoteNewest, DeleteAborts, DiskShrinks
<1>4. QED
  BY <1>1, <1>2, <1>3, WritelessKeepsPlain

\* The steps of CreateBucket and DeleteBucket: a new bucket is empty
LEMMA BucketStepKeepsPlain ==
  ASSUME PlainTypeInv, PlainInv,
         (\E c \in Creators : CreateStep(c)) \/ (\E x \in Droppers : DropStep(x))
  PROVE  PlainInv'
<1>1. CASE \E c \in Creators : InsertBucketRow(c)
  <2> USE DEF PlainTypeInv, PlainInv
  <2>1. PICK row : /\ InsertBucket(row) /\ row.id = uuid
                   /\ UNCHANGED <<files, disk, up>>
    BY <1>1 DEF InsertBucketRow
  <2>2. /\ buckets' \subseteq buckets \cup {row}
        /\ buckets' # buckets => \A b \in buckets : b.name # row.name
    BY <2>1 DEF InsertBucket
  <2>3. \A f \in files : f.bucket # row.id
    BY <2>1 DEF VersionedInv, Drawn, TypeOK, StoreTypeOK, FileRows
  <2>4. BucketNames'
    BY <2>1, <2>2 DEF BucketNames
  <2>5. AllLatest' /\ NewBucketEmpty' /\ NameFree' /\ UniqueName'
    BY <2>1, <2>2, <2>3 DEF AllLatest, NewBucketEmpty, NameFree, Plain, UniqueName
  <2>6. OwnContent' /\ NoForeignContent'
    BY <2>1, <2>2, <2>3 DEF OwnContent, Plain, UploadPath, NoForeignContent, Serves
  <2>7. QED
    BY <2>4, <2>5, <2>6
<1>2. CASE \/ \E c \in Creators : Create(c) \/ CreateAborts(c)
           \/ \E x \in Droppers : DropStep(x)
  <2>1. /\ buckets' \subseteq buckets /\ files' \subseteq files
        /\ UNCHANGED <<disk, up>>
    BY <1>2 DEF Create, CreateAborts, DropStep, Drop, CountFiles, DeleteBucketRow,
                DropAborts, DropBucket, storeVars
  <2>2. SlotsKept /\ RowsKept /\ PlainRowsKept /\ DiskShrinks
    BY <2>1 DEF SlotsKept, SlotKept, RowsKept, PlainRowsKept, DiskShrinks
  <2>3. QED
    BY <2>1, <2>2, WritelessKeepsPlain
<1>3. QED
  BY <1>1, <1>2 DEF CreateStep

\* No step breaks the invariant ...
LEMMA NextKeepsPlain ==
  ASSUME SoleUploader, ~Ignored, PlainTypeInv, PlainInv, [Next]_vars
  PROVE  PlainInv'
<1>1. CASE Next
  BY <1>1, UploadStepKeepsPlain, DeleteStepKeepsPlain, BucketStepKeepsPlain DEF Next
<1>2. CASE UNCHANGED vars
  <2>1. /\ buckets' \subseteq buckets /\ SlotsKept /\ RowsKept /\ PlainRowsKept
        /\ DiskShrinks
    BY <1>2 DEF vars, SlotsKept, SlotKept, RowsKept, PlainRowsKept, DiskShrinks
  <2>2. QED
    BY <2>1, WritelessKeepsPlain
<1>3. QED
  BY <1>1, <1>2

\* ... so it holds in every reachable state
LEMMA PlainInvariant ==
  ASSUME SoleUploader, ~Ignored
  PROVE  Spec => [](TypeOK /\ VersionedInv /\ PlainInv)
<1>1. Init => PlainInv
  BY DEF Init, StoreInit, PlainInv, BucketNames, AllLatest, NewBucketEmpty, NameFree,
         OwnContent, UniqueName, NoForeignContent, Plain
<1>2. TypeOK /\ TypeOK' /\ VersionedInv /\ PlainInv /\ [Next]_vars => PlainInv'
  BY NextKeepsPlain DEF PlainTypeInv
<1>3. QED
  BY <1>1, <1>2, TypeCorrect, VersionedInvariant, PTL DEF Spec

\* While no two uploads overlap, DownloadFile finds nothing but its upload's
\* content under a name without versioning
THEOREM OwnContentOnly ==
  ASSUME SoleUploader, ~Ignored
  PROVE  Spec => []NoForeignContent
<1>1. PlainInv => NoForeignContent
  BY DEF PlainInv
<1>2. QED
  BY <1>1, PlainInvariant, PTL
=============================================================================
