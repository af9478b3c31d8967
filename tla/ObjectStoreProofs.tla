-------------------------- MODULE ObjectStoreProofs ---------------------------
(***************************************************************************)
(* Theorems about ObjectStore, for any names, keys, sizes, request slots,  *)
(* bounds and faults: type correctness, and VersionedBlobsIntact by the    *)
(* inductive invariant VersionedInv.                                       *)
(***************************************************************************)
EXTENDS ObjectStore, TLAPS

-----------------------------------------------------------------------------
(* Type correctness *)

\* Starting a file of an upload keeps the type of the upload slots ...
LEMMA BeginPartType ==
  ASSUME up \in [Uploaders -> Uploads \cup {Idle}],
         NEW u \in Uploaders, NEW b \in BucketRows, NEW more \in Nat,
         BeginPart(u, b, more)
  PROVE  up' \in [Uploaders -> Uploads \cup {Idle}]
  BY DEF BeginPart, Uploads, Idle, NoVersion

\* ... and so does ending a file of it
LEMMA EndPartType ==
  ASSUME up \in [Uploaders -> Uploads \cup {Idle}],
         NEW u \in Uploaders, up[u] # Idle, EndPart(u)
  PROVE  up' \in [Uploaders -> Uploads \cup {Idle}]
<1>1. up[u] \in Uploads
  OBVIOUS
<1>2. CASE up[u].more = 0
  BY <1>2 DEF EndPart
<1>3. CASE up[u].more # 0
  <2>1. /\ up[u].bucket \in BucketRows
        /\ up[u].more - 1 \in Nat
        /\ BeginPart(u, up[u].bucket, up[u].more - 1)
    BY <1>1, <1>3 DEF EndPart, Uploads
  <2>2. QED
    BY <2>1, BeginPartType
<1>4. QED
  BY <1>2, <1>3

\* Setting is_latest keeps the type of the rows
LEMMA SetLatestType ==
  ASSUME files \subseteq FileRows, NEW rows, NEW flag \in BOOLEAN,
         SetLatest(rows, flag)
  PROVE  files' \subseteq FileRows
  BY DEF SetLatest, FileRows

\* Writing a file keeps the type of the disk
LEMMA WriteBlobType ==
  ASSUME DOMAIN disk \subseteq Paths,
         disk \in [DOMAIN disk -> Sizes \cup {Torn}],
         NEW path \in Paths, NEW content \in Sizes \cup {Torn},
         WriteBlob(path, content)
  PROVE  /\ DOMAIN disk' \subseteq Paths
         /\ disk' \in [DOMAIN disk' -> Sizes \cup {Torn}]
  BY DEF WriteBlob

\* Removing a file keeps the type of the disk
LEMMA RemoveBlobType ==
  ASSUME DOMAIN disk \subseteq Paths,
         disk \in [DOMAIN disk -> Sizes \cup {Torn}],
         NEW path, RemoveBlob(path)
  PROVE  /\ DOMAIN disk' \subseteq Paths
         /\ disk' \in [DOMAIN disk' -> Sizes \cup {Torn}]
  BY DEF RemoveBlob

\* The path an upload writes to is a path of the storage directory
LEMMA UploadPathType ==
  ASSUME TypeOK, NEW u \in Uploaders, up[u] # Idle
  PROVE  UploadPath(u) \in Paths
  BY DEF TypeOK, RequestsTypeOK, UploadPath, BlobPath, PlainPath, Paths,
         Uploads, BucketRows, NoVersion

\* The steps of an upload keep TypeOK
LEMMA UploadStepType ==
  ASSUME TypeOK, NEW u \in Uploaders, UploadStep(u)
  PROVE  TypeOK'
<1> USE DEF TypeOK, RequestsTypeOK, StoreTypeOK, storeVars
<1>1. CASE Upload(u)
  <2>1. PICK b \in buckets, more \in Nat : BeginPart(u, b, more)
    BY <1>1 DEF Upload, Owned, BoundsAssumption
  <2>2. up' \in [Uploaders -> Uploads \cup {Idle}]
    BY <2>1, BeginPartType
  <2>3. QED
    BY <1>1, <2>2 DEF Upload
<1>2. CASE DemoteLatest(u)
  <2>1. files' \subseteq FileRows
    BY <1>2, SetLatestType DEF DemoteLatest
  <2>2. up' \in [Uploaders -> Uploads \cup {Idle}] /\ uuid' \in Nat \ {0}
    <3>1. up[u] \in Uploads
      BY <1>2 DEF DemoteLatest, Idle
    <3>2. [up[u] EXCEPT !.at = "save", !.version = uuid] \in Uploads
      BY <3>1 DEF Uploads
    <3>3. up' = [up EXCEPT ![u] = [up[u] EXCEPT !.at = "save", !.version = uuid]]
      BY <1>2 DEF DemoteLatest
    <3>4. QED
      BY <1>2, <3>2, <3>3 DEF DemoteLatest
  <2>3. QED
    BY <1>2, <2>1, <2>2 DEF DemoteLatest
<1>3. CASE CheckFree(u)
  <2>1. up[u] # Idle
    BY <1>3 DEF CheckFree, Idle
  <2>2. up' \in [Uploaders -> Uploads \cup {Idle}] /\ uuid' \in Nat \ {0}
    <3>1. CASE EndPart(u) /\ UNCHANGED uuid
      BY <3>1, <2>1, EndPartType
    <3>2. CASE \E version \in {NoVersion, uuid} :
             /\ up' = [up EXCEPT ![u].at = "save", ![u].version = version]
             /\ uuid' = IF version = uuid THEN uuid + 1 ELSE uuid
      <4>1. PICK version \in {NoVersion, uuid} :
              /\ up' = [up EXCEPT ![u].at = "save", ![u].version = version]
              /\ uuid' = IF version = uuid THEN uuid + 1 ELSE uuid
        BY <3>2
      <4>2. version \in Nat /\ uuid' \in Nat \ {0}
        BY <4>1 DEF NoVersion
      <4>3. [up[u] EXCEPT !.at = "save", !.version = version] \in Uploads
        BY <2>1, <4>2 DEF Uploads
      <4>4. up' = [up EXCEPT ![u] =
                     [up[u] EXCEPT !.at = "save", !.version = version]]
        BY <4>1
      <4>5. QED
        BY <4>2, <4>3, <4>4
    <3>3. QED
      BY <1>3, <3>1, <3>2 DEF CheckFree
  <2>3. QED
    BY <1>3, <2>2 DEF CheckFree
<1>4. CASE SaveFile(u)
  <2>1. up[u] # Idle /\ up[u] \in Uploads
    BY <1>4 DEF SaveFile, Idle
  <2>2. UploadPath(u) \in Paths /\ up[u].size \in Sizes
    BY <2>1, UploadPathType DEF Uploads
  <2>3. DOMAIN disk' \subseteq Paths /\ disk' \in [DOMAIN disk' -> Sizes \cup {Torn}]
    BY <1>4, <2>2, WriteBlobType DEF SaveFile
  <2>4. up' \in [Uploaders -> Uploads \cup {Idle}]
    BY <1>4, <2>1 DEF SaveFile, Uploads
  <2>5. QED
    BY <1>4, <2>3, <2>4 DEF SaveFile
<1>5. CASE InsertRow(u)
  <2>1. up[u] # Idle /\ up[u] \in Uploads
    BY <1>5 DEF InsertRow, Idle
  <2>2. up' \in [Uploaders -> Uploads \cup {Idle}]
    BY <1>5, <2>1, EndPartType DEF InsertRow
  <2>3. files' \subseteq FileRows
    <3>1. [id |-> uuid, bucket |-> up[u].bucket.id, name |-> up[u].key,
           version |-> up[u].version, latest |-> TRUE, size |-> up[u].size]
             \in FileRows
      BY <2>1 DEF FileRows, Uploads, BucketRows
    <3>2. QED
      BY <1>5, <3>1 DEF InsertRow, InsertFile
  <2>4. QED
    BY <1>5, <2>2, <2>3 DEF InsertRow
<1>6. CASE UploadAborts(u)
  <2>1. up[u] # Idle
    BY <1>6 DEF UploadAborts
  <2>2. up' \in [Uploaders -> Uploads \cup {Idle}]
    BY <1>6, <2>1, EndPartType DEF UploadAborts
  <2>3. DOMAIN disk' \subseteq Paths /\ disk' \in [DOMAIN disk' -> Sizes \cup {Torn}]
    BY <1>6, <2>1, UploadPathType, WriteBlobType DEF UploadAborts
  <2>4. QED
    BY <1>6, <2>2, <2>3 DEF UploadAborts
<1>7. QED
  BY <1>1, <1>2, <1>3, <1>4, <1>5, <1>6 DEF UploadStep

\* The steps of DeleteFile keep TypeOK
LEMMA DeleteStepType ==
  ASSUME TypeOK, NEW d \in Deleters, DeleteStep(d)
  PROVE  TypeOK'
<1> USE DEF TypeOK, RequestsTypeOK, StoreTypeOK, storeVars
<1>1. CASE Delete(d)
  <2>1. PICK b \in buckets, f \in files :
          del' = [del EXCEPT ![d] = [at |-> "remove", bucket |-> b,
                                     row |-> f, target |-> 0]]
    BY <1>1 DEF Delete, Owned, RowsOf
  <2>2. del' \in [Deleters -> Deletes \cup {Idle}]
    BY <2>1 DEF Deletes
  <2>3. QED
    BY <1>1, <2>2 DEF Delete
<1>2. CASE RemoveFile(d)
  <2>1. del' \in [Deleters -> Deletes \cup {Idle}]
    BY <1>2 DEF RemoveFile, Deletes, Idle
  <2>2. DOMAIN disk' \subseteq Paths /\ disk' \in [DOMAIN disk' -> Sizes \cup {Torn}]
    BY <1>2, RemoveBlobType DEF RemoveFile
  <2>3. QED
    BY <1>2, <2>1, <2>2 DEF RemoveFile
<1>3. CASE DeleteRow(d)
  <2>1. del' \in [Deleters -> Deletes \cup {Idle}]
    BY <1>3 DEF DeleteRow, Deletes, Idle
  <2>2. files' \subseteq FileRows
    BY <1>3 DEF DeleteRow, DropFile
  <2>3. QED
    BY <1>3, <2>1, <2>2 DEF DeleteRow
<1>4. CASE FindNewest(d)
  <2>1. del' \in [Deleters -> Deletes \cup {Idle}]
    BY <1>4 DEF FindNewest, Deletes, Idle, FileRows
  <2>2. QED
    BY <1>4, <2>1 DEF FindNewest
<1>5. CASE PromoteNewest(d)
  <2>1. files' \subseteq FileRows
    BY <1>5, SetLatestType DEF PromoteNewest
  <2>2. QED
    BY <1>5, <2>1 DEF PromoteNewest
<1>6. CASE DeleteAborts(d)
  BY <1>6 DEF DeleteAborts
<1>7. QED
  BY <1>1, <1>2, <1>3, <1>4, <1>5, <1>6 DEF DeleteStep

\* The steps of CreateBucket keep TypeOK
LEMMA CreateStepType ==
  ASSUME TypeOK, NEW c \in Creators, CreateStep(c)
  PROVE  TypeOK'
<1> USE DEF TypeOK, RequestsTypeOK, StoreTypeOK, storeVars
<1>1. CASE Create(c)
  <2>1. mk' \in [Creators -> Creates \cup {Idle}]
    BY <1>1 DEF Create, Creates
  <2>2. QED
    BY <1>1, <2>1 DEF Create
<1>2. CASE InsertBucketRow(c)
  <2>1. mk[c] \in Creates
    BY <1>2 DEF InsertBucketRow, Idle
  <2>2. buckets' \subseteq BucketRows
    BY <1>2, <2>1 DEF InsertBucketRow, InsertBucket, Creates, BucketRows
  <2>3. QED
    BY <1>2, <2>2 DEF InsertBucketRow
<1>3. CASE CreateAborts(c)
  BY <1>3 DEF CreateAborts
<1>4. QED
  BY <1>1, <1>2, <1>3 DEF CreateStep

\* The steps of DeleteBucket keep TypeOK
LEMMA DropStepType ==
  ASSUME TypeOK, NEW x \in Droppers, DropStep(x)
  PROVE  TypeOK'
<1> USE DEF TypeOK, RequestsTypeOK, StoreTypeOK, storeVars
<1>1. CASE Drop(x)
  BY <1>1 DEF Drop, Drops, Owned
<1>2. CASE CountFiles(x)
  BY <1>2 DEF CountFiles, Drops, Idle
<1>3. CASE DeleteBucketRow(x)
  BY <1>3 DEF DeleteBucketRow, DropBucket
<1>4. CASE DropAborts(x)
  BY <1>4 DEF DropAborts
<1>5. QED
  BY <1>1, <1>2, <1>3, <1>4 DEF DropStep

\* ... and of all of them
LEMMA NextKeepsType ==
  ASSUME TypeOK, [Next]_vars
  PROVE  TypeOK'
<1>1. CASE Next
  BY <1>1, UploadStepType, DeleteStepType, CreateStepType, DropStepType DEF Next
<1>2. CASE UNCHANGED vars
  BY <1>2 DEF vars, TypeOK, StoreTypeOK, RequestsTypeOK
<1>3. QED
  BY <1>1, <1>2

\* In every reachable state the tables, the disk and the local variables of
\* the handlers have their types
THEOREM TypeCorrect == Spec => []TypeOK
<1>1. Init => TypeOK
  BY DEF Init, StoreInit, TypeOK, StoreTypeOK, RequestsTypeOK
<1>2. TypeOK /\ [Next]_vars => TypeOK'
  BY NextKeepsType
<1>3. QED
  BY <1>1, <1>2, PTL DEF Spec

-----------------------------------------------------------------------------
(* Versions of an object keep their content *)

\* What most steps do, seen from VersionedInv: a slot is left alone, ends its
\* file, or starts one in a bucket that it or the table holds ...
SlotKept(u) ==
  \/ up'[u] = up[u]
  \/ up'[u] = Idle
  \/ /\ up'[u].at = "mark"
     /\ up'[u].version = NoVersion
     /\ up'[u].bucket \in buckets \/ (up[u] # Idle /\ up'[u].bucket = up[u].bucket)

SlotsKept == \A u \in Uploaders : SlotKept(u)

\* ... rows change in nothing but is_latest ...
RowsKept ==
  \A f \in files' : \E g \in files :
    /\ f.bucket = g.bucket /\ f.name = g.name
    /\ f.version = g.version /\ f.size = g.size

\* ... and no version is written or removed
VersionsKept ==
  \A path \in DOMAIN disk : path[3] # NoVersion =>
    path \in DOMAIN disk' /\ disk'[path] = disk[path]

HarmlessStep ==
  /\ buckets' \subseteq buckets
  /\ uuid' \in Nat /\ uuid <= uuid'
  /\ SlotsKept
  /\ RowsKept
  /\ VersionsKept

\* An upload that ends a file holds no version any more
LEMMA EndPartKeepsSlots ==
  ASSUME TypeOK, NEW u \in Uploaders, up[u] # Idle,
         EndPart(u) \/ up' = [up EXCEPT ![u] = Idle]
  PROVE  SlotsKept /\ ~Versions(u)'
  BY DEF TypeOK, RequestsTypeOK, EndPart, BeginPart, SlotsKept, SlotKept,
         Versions, Idle

\* Setting is_latest is all that an UPDATE of rows does
LEMMA SetLatestKeepsRows ==
  ASSUME TypeOK, NEW rows, NEW flag, SetLatest(rows, flag)
  PROVE  RowsKept
  BY DEF SetLatest, RowsKept, TypeOK, StoreTypeOK, FileRows

\* The path of a version ends in its version id
LEMMA VersionPath ==
  ASSUME NEW b, NEW key, NEW version, b.versioning
  PROVE  /\ BlobPath(b, key, version) = <<b.name, key, version>>
         /\ BlobPath(b, key, version)[3] = version
  BY DEF BlobPath

\* Such a step keeps the invariant
LEMMA HarmlessKeepsInv ==
  ASSUME TypeOK, TypeOK', VersionedInv, HarmlessStep
  PROVE  VersionedInv'
<1> USE DEF VersionedInv, HarmlessStep
<1>0. ASSUME NEW u \in Uploaders, Versions(u)'
      PROVE  up'[u] = up[u] /\ Versions(u)
  BY <1>0 DEF SlotsKept, SlotKept, Versions, Idle
<1>1. Drawn'
  <2>1. \A b \in buckets' : b.id < uuid'
    BY DEF Drawn, TypeOK, StoreTypeOK, BucketRows
  <2>2. \A f \in files' : f.bucket < uuid' /\ f.version < uuid'
    BY DEF Drawn, RowsKept, TypeOK, StoreTypeOK, FileRows
  <2>3. ASSUME NEW u \in Uploaders, up'[u] # Idle
        PROVE  up'[u].bucket.id < uuid' /\ up'[u].version < uuid'
    BY <2>3 DEF Drawn, SlotsKept, SlotKept, TypeOK, StoreTypeOK,
                RequestsTypeOK, BucketRows, Uploads, NoVersion
  <2>4. QED
    BY <2>1, <2>2, <2>3 DEF Drawn
<1>2. OneRowPerId'
  BY DEF OneRowPerId, SlotsKept, SlotKept
<1>3. OwnVersion'
  <2> SUFFICES ASSUME NEW u \in Uploaders, Versions(u)'
               PROVE  /\ up'[u].version # NoVersion
                      /\ \A f \in files' : f.version # up'[u].version
                      /\ \A w \in Uploaders \ {u} :
                           up'[w] # Idle => up'[w].version # up'[u].version
    BY DEF OwnVersion
  <2>1. up'[u] = up[u] /\ Versions(u)
    BY <1>0
  <2>2. QED
    BY <2>1 DEF OwnVersion, RowsKept, SlotsKept, SlotKept
<1>4. BlobFirst'
  <2> SUFFICES ASSUME NEW u \in Uploaders, Versions(u)', up'[u].at = "insert"
               PROVE  /\ UploadPath(u)' \in DOMAIN disk'
                      /\ disk'[UploadPath(u)'] = up'[u].size
    BY DEF BlobFirst
  <2>1. up'[u] = up[u] /\ Versions(u)
    BY <1>0
  <2>2. UploadPath(u)' = UploadPath(u) /\ UploadPath(u)[3] # NoVersion
    BY <2>1, VersionPath DEF UploadPath, Versions, OwnVersion
  <2>3. QED
    BY <2>1, <2>2 DEF BlobFirst, VersionsKept
<1>5. NamedVersions'
  BY DEF NamedVersions, RowsKept
<1>6. VersionedBlobsIntact'
  <2> SUFFICES ASSUME NEW b \in buckets', NEW f \in files',
                      b.versioning, f.bucket = b.id
               PROVE  Serves(b, f)'
    BY DEF VersionedBlobsIntact
  <2>1. PICK g \in files : /\ f.bucket = g.bucket /\ f.name = g.name
                          /\ f.version = g.version /\ f.size = g.size
    BY DEF RowsKept
  <2>2. Serves(b, g) /\ g.version # NoVersion
    BY <2>1 DEF VersionedBlobsIntact, NamedVersions
  <2>3. BlobPath(b, f.name, f.version) = BlobPath(b, g.name, g.version)
        /\ BlobPath(b, g.name, g.version)[3] # NoVersion
    BY <2>1, <2>2, VersionPath
  <2>4. QED
    BY <2>1, <2>2, <2>3 DEF Serves, VersionsKept
<1>7. QED
  BY <1>1, <1>2, <1>3, <1>4, <1>5, <1>6

\* A write to a path that is no version, or the path of a version still being
\* uploaded, leaves every other version alone
LEMMA WriteKeepsOthers ==
  ASSUME TypeOK, VersionedInv, NEW u \in Uploaders, up[u].at = "save",
         NEW content, WriteBlob(UploadPath(u), content)
  PROVE  /\ \A path \in DOMAIN disk : path # UploadPath(u) =>
              path \in DOMAIN disk' /\ disk'[path] = disk[path]
         /\ UploadPath(u) \in DOMAIN disk' /\ disk'[UploadPath(u)] = content
         /\ \A b \in buckets, f \in files : b.versioning /\ f.bucket = b.id =>
              BlobPath(b, f.name, f.version) # UploadPath(u)
         /\ \A w \in Uploaders \ {u} : Versions(w) => UploadPath(w) # UploadPath(u)
<1>1. UploadPath(u)[3] = IF up[u].bucket.versioning THEN up[u].version ELSE NoVersion
  BY DEF UploadPath, BlobPath, PlainPath
<1>2. up[u] # Idle /\ (up[u].bucket.versioning => Versions(u))
  BY DEF Versions, Idle
<1>3. ASSUME NEW b \in buckets, NEW f \in files, b.versioning, f.bucket = b.id
      PROVE  BlobPath(b, f.name, f.version) # UploadPath(u)
  <2>1. BlobPath(b, f.name, f.version)[3] = f.version /\ f.version # NoVersion
    BY <1>3, VersionPath DEF VersionedInv, NamedVersions
  <2>2. QED
    BY <1>1, <1>2, <2>1 DEF VersionedInv, OwnVersion
<1>4. ASSUME NEW w \in Uploaders \ {u}, Versions(w)
      PROVE  UploadPath(w) # UploadPath(u)
  <2>1. UploadPath(w)[3] = up[w].version
    BY <1>4, VersionPath DEF UploadPath, Versions
  <2>2. up[w].version # NoVersion /\ up[w].version # up[u].version
    BY <1>2, <1>4 DEF VersionedInv, OwnVersion
  <2>3. QED
    BY <1>1, <2>1, <2>2
<1>5. QED
  BY <1>3, <1>4 DEF WriteBlob

\* The fields that drawing a version id leaves alone ...
LEMMA SavingUpload ==
  ASSUME NEW r \in Uploads, NEW version
  PROVE  LET s == [r EXCEPT !.at = "save", !.version = version]
         IN  s.at = "save" /\ s.version = version /\ s.bucket = r.bucket
  BY DEF Uploads

\* ... those that storing a file leaves alone
LEMMA SavedUpload ==
  ASSUME NEW r \in Uploads
  PROVE  LET s == [r EXCEPT !.at = "insert"]
         IN  /\ s.at = "insert" /\ s.version = r.version /\ s.bucket = r.bucket
             /\ s.key = r.key /\ s.size = r.size
  BY DEF Uploads

\* Drawing the version id of an upload
LEMMA DrawKeepsInv ==
  ASSUME TypeOK, TypeOK', VersionedInv, NEW u \in Uploaders,
         up[u].at = "mark", NEW version \in {NoVersion, uuid},
         up[u].bucket.versioning => version = uuid,
         up' = [up EXCEPT ![u].at = "save", ![u].version = version],
         uuid' = IF version = uuid THEN uuid + 1 ELSE uuid,
         RowsKept, UNCHANGED <<buckets, disk>>
  PROVE  VersionedInv'
<1> USE DEF VersionedInv
<1>1. /\ up[u] \in Uploads /\ up[u] # Idle
      /\ up'[u] = [up[u] EXCEPT !.at = "save", !.version = version]
      /\ \A w \in Uploaders \ {u} : up'[w] = up[w]
  BY DEF TypeOK, RequestsTypeOK, Idle
<1>2. /\ up'[u].at = "save" /\ up'[u].version = version
      /\ up'[u].bucket = up[u].bucket /\ up[u] # Idle
      /\ \A w \in Uploaders \ {u} : up'[w] = up[w]
  BY ONLY <1>1, SavingUpload
<1>3. uuid \in Nat \ {0} /\ uuid <= uuid' /\ version < uuid'
  BY DEF TypeOK, StoreTypeOK, NoVersion
<1>4. Drawn'
  <2>1. \A b \in buckets' : b.id < uuid'
    BY <1>3 DEF Drawn, TypeOK, StoreTypeOK, BucketRows
  <2>2. \A f \in files' : f.bucket < uuid' /\ f.version < uuid'
    BY <1>3 DEF Drawn, RowsKept, TypeOK, StoreTypeOK, FileRows
  <2>3. ASSUME NEW w \in Uploaders, up'[w] # Idle
        PROVE  up'[w].bucket.id < uuid' /\ up'[w].version < uuid'
    BY <1>1, <1>2, <1>3, <2>3 DEF Drawn, TypeOK, RequestsTypeOK, Uploads, BucketRows
  <2>4. QED
    BY <2>1, <2>2, <2>3 DEF Drawn
<1>5. OneRowPerId'
  <2>1. ASSUME NEW w \in Uploaders, NEW b \in buckets,
               up'[w] # Idle, b.id = up'[w].bucket.id
        PROVE  b = up'[w].bucket
    <3>1. CASE w = u
      BY <1>2, <2>1, <3>1 DEF OneRowPerId
    <3>2. CASE w # u
      BY <1>2, <2>1, <3>2 DEF OneRowPerId
    <3>3. QED
      BY <3>1, <3>2
  <2>2. QED
    BY <2>1 DEF OneRowPerId
<1>6. OwnVersion'
  <2> SUFFICES ASSUME NEW w \in Uploaders, Versions(w)'
               PROVE  /\ up'[w].version # NoVersion
                      /\ \A f \in files' : f.version # up'[w].version
                      /\ \A v \in Uploaders \ {w} :
                           up'[v] # Idle => up'[v].version # up'[w].version
    BY DEF OwnVersion
  <2>1. CASE w = u
    <3>1. up'[w].version = uuid
      BY <1>2, <2>1 DEF Versions
    <3>2. \A f \in files' : f.version # uuid
      BY <1>3 DEF Drawn, RowsKept, TypeOK, StoreTypeOK, FileRows
    <3>3. \A v \in Uploaders \ {u} : up'[v] # Idle => up'[v].version # uuid
      BY <1>1, <1>3 DEF Drawn, TypeOK, RequestsTypeOK, Uploads
    <3>4. QED
      BY <1>3, <2>1, <3>1, <3>2, <3>3 DEF NoVersion
  <2>2. CASE w # u
    <3>1. up'[w] = up[w] /\ Versions(w)
      BY <1>1, <2>2 DEF Versions
    <3>2. up[w].version # version
      BY <1>3, <3>1 DEF Drawn, OwnVersion, Versions, TypeOK, RequestsTypeOK, Uploads
    <3>3. \A f \in files' : f.version # up[w].version
      BY <3>1 DEF OwnVersion, RowsKept
    <3>4. ASSUME NEW v \in Uploaders \ {w}, up'[v] # Idle
          PROVE  up'[v].version # up[w].version
      <4>1. CASE v = u
        BY <1>2, <3>2, <4>1
      <4>2. CASE v # u
        BY <1>2, <3>1, <3>4, <4>2 DEF OwnVersion
      <4>3. QED
        BY <4>1, <4>2
    <3>5. QED
      BY <3>1, <3>3, <3>4 DEF OwnVersion
  <2>3. QED
    BY <2>1, <2>2
<1>7. BlobFirst'
  <2> SUFFICES ASSUME NEW w \in Uploaders, Versions(w)', up'[w].at = "insert"
               PROVE  /\ UploadPath(w)' \in DOMAIN disk'
                      /\ disk'[UploadPath(w)'] = up'[w].size
    BY DEF BlobFirst
  <2>1. up'[w] = up[w]
    BY <1>1, <1>2
  <2>2. QED
    BY <2>1 DEF BlobFirst, Versions, UploadPath
<1>8. NamedVersions'
  BY DEF NamedVersions, RowsKept
<1>9. VersionedBlobsIntact'
  <2> SUFFICES ASSUME NEW b \in buckets, NEW f \in files',
                      b.versioning, f.bucket = b.id
               PROVE  Serves(b, f)'
    BY DEF VersionedBlobsIntact
  <2>1. QED
    BY DEF VersionedBlobsIntact, RowsKept, Serves
<1>10. QED
  BY <1>4, <1>5, <1>6, <1>7, <1>8, <1>9

\* Writing the blob of an upload
LEMMA SaveKeepsInv ==
  ASSUME TypeOK, TypeOK', VersionedInv, NEW u \in Uploaders, SaveFile(u)
  PROVE  VersionedInv'
<1> USE DEF VersionedInv
<1>1. /\ up[u] \in Uploads /\ up[u] # Idle /\ up[u].at = "save"
      /\ up'[u] = [up[u] EXCEPT !.at = "insert"]
      /\ \A w \in Uploaders \ {u} : up'[w] = up[w]
      /\ WriteBlob(UploadPath(u), up[u].size)
      /\ UNCHANGED <<buckets, files, uuid>>
  BY DEF SaveFile, TypeOK, RequestsTypeOK, Idle
<1>2. /\ up'[u].bucket = up[u].bucket /\ up'[u].version = up[u].version
      /\ up'[u].key = up[u].key /\ up'[u].size = up[u].size
      /\ up[u] # Idle /\ up[u].at = "save"
      /\ \A w \in Uploaders \ {u} : up'[w] = up[w]
  BY ONLY <1>1, SavedUpload
<1>kept. \A w \in Uploaders :
        /\ up'[w].bucket = up[w].bucket /\ up'[w].version = up[w].version
        /\ up'[w].key = up[w].key /\ up'[w].size = up[w].size
        /\ up'[w] # Idle => up[w] # Idle
  BY ONLY <1>2
<1>3. Drawn' /\ OneRowPerId' /\ NamedVersions'
  BY <1>1, <1>kept DEF Drawn, OneRowPerId, NamedVersions
<1>4. \A w \in Uploaders : Versions(w)' => Versions(w)
  BY <1>2 DEF Versions
<1>5. OwnVersion'
  <2> SUFFICES ASSUME NEW w \in Uploaders, Versions(w)'
               PROVE  /\ up'[w].version # NoVersion
                      /\ \A f \in files' : f.version # up'[w].version
                      /\ \A v \in Uploaders \ {w} :
                           up'[v] # Idle => up'[v].version # up'[w].version
    BY DEF OwnVersion
  <2>1. Versions(w)
    BY <1>4
  <2>2. QED
    BY <1>1, <1>kept, <2>1 DEF OwnVersion
<1>6. BlobFirst'
  <2> SUFFICES ASSUME NEW w \in Uploaders, Versions(w)', up'[w].at = "insert"
               PROVE  /\ UploadPath(w)' \in DOMAIN disk'
                      /\ disk'[UploadPath(w)'] = up'[w].size
    BY DEF BlobFirst
  <2>1. UploadPath(w)' = UploadPath(w)
    BY <1>kept DEF UploadPath
  <2>2. CASE w = u
    <3>1. UploadPath(u) \in DOMAIN disk' /\ disk'[UploadPath(u)] = up[u].size
      BY <1>1, WriteKeepsOthers
    <3>2. QED
      BY <1>kept, <2>1, <2>2, <3>1
  <2>3. CASE w # u
    <3>1. Versions(w) /\ up[w].at = "insert" /\ UploadPath(w) # UploadPath(u)
      BY <1>1, <1>2, <1>4, <2>3, WriteKeepsOthers
    <3>2. QED
      BY <1>1, <1>kept, <2>1, <3>1, WriteKeepsOthers DEF BlobFirst
  <2>4. QED
    BY <2>2, <2>3
<1>7. VersionedBlobsIntact'
  BY <1>1, WriteKeepsOthers DEF VersionedBlobsIntact, Serves
<1>8. QED
  BY <1>3, <1>5, <1>6, <1>7

\* Inserting the row of an upload, whose blob is in place
LEMMA InsertKeepsInv ==
  ASSUME TypeOK, TypeOK', VersionedInv, NEW u \in Uploaders, InsertRow(u)
  PROVE  VersionedInv'
<1> DEFINE row == [id |-> uuid, bucket |-> up[u].bucket.id, name |-> up[u].key,
                   version |-> up[u].version, latest |-> TRUE, size |-> up[u].size]
<1> USE DEF VersionedInv
<1>1. /\ up[u] \in Uploads /\ up[u] # Idle /\ up[u].at = "insert"
      /\ InsertFile(row) /\ uuid' = uuid + 1 /\ uuid \in Nat /\ EndPart(u)
      /\ UNCHANGED <<buckets, disk>>
  BY DEF InsertRow, TypeOK, StoreTypeOK, RequestsTypeOK, Idle
<1>2. /\ row.bucket = up[u].bucket.id /\ row.name = up[u].key
      /\ row.version = up[u].version /\ row.size = up[u].size
  OBVIOUS
<1> HIDE DEF row
<1>3. files' \subseteq files \cup {row}
  BY <1>1 DEF InsertFile
<1>4. SlotsKept /\ ~Versions(u)'
  BY <1>1, EndPartKeepsSlots
<1>5. ASSUME NEW w \in Uploaders, Versions(w)'
      PROVE  w # u /\ up'[w] = up[w] /\ Versions(w)
  BY <1>4, <1>5 DEF SlotsKept, SlotKept, Versions, Idle
<1>6. Drawn'
  <2>1. \A b \in buckets' : b.id < uuid'
    BY <1>1 DEF Drawn, TypeOK, StoreTypeOK, BucketRows
  <2>2. \A f \in files' : f.bucket < uuid' /\ f.version < uuid'
    BY <1>1, <1>2, <1>3 DEF Drawn, TypeOK, StoreTypeOK, FileRows, Uploads, BucketRows
  <2>3. ASSUME NEW w \in Uploaders, up'[w] # Idle
        PROVE  up'[w].bucket.id < uuid' /\ up'[w].version < uuid'
    BY <1>1, <1>4, <2>3 DEF Drawn, SlotsKept, SlotKept, TypeOK, StoreTypeOK,
                            RequestsTypeOK, BucketRows, Uploads, NoVersion
  <2>4. QED
    BY <2>1, <2>2, <2>3 DEF Drawn
<1>7. OneRowPerId'
  BY <1>1, <1>4 DEF OneRowPerId, SlotsKept, SlotKept
<1>8. OwnVersion'
  <2> SUFFICES ASSUME NEW w \in Uploaders, Versions(w)'
               PROVE  /\ up'[w].version # NoVersion
                      /\ \A f \in files' : f.version # up'[w].version
                      /\ \A v \in Uploaders \ {w} :
                           up'[v] # Idle => up'[v].version # up'[w].version
    BY DEF OwnVersion
  <2>1. w # u /\ up'[w] = up[w] /\ Versions(w)
    BY <1>5
  <2>2. \A f \in files' : f.version # up'[w].version
    BY <1>1, <1>2, <1>3, <2>1 DEF OwnVersion
  <2>3. QED
    BY <1>4, <2>1, <2>2 DEF OwnVersion, SlotsKept, SlotKept
<1>9. BlobFirst'
  BY <1>1, <1>5 DEF BlobFirst, UploadPath
<1>10. NamedVersions'
  <2> SUFFICES ASSUME NEW b \in buckets, NEW f \in files',
                      b.versioning, f.bucket = b.id
               PROVE  f.version # NoVersion
    BY <1>1 DEF NamedVersions
  <2>1. CASE f = row
    <3>1. b = up[u].bucket
      BY <1>1, <1>2, <2>1 DEF OneRowPerId
    <3>2. QED
      BY <1>1, <1>2, <2>1, <3>1 DEF Versions, OwnVersion
  <2>2. QED
    BY <1>3, <2>1 DEF NamedVersions
<1>11. VersionedBlobsIntact'
  <2> SUFFICES ASSUME NEW b \in buckets, NEW f \in files',
                      b.versioning, f.bucket = b.id
               PROVE  Serves(b, f)
    BY <1>1 DEF VersionedBlobsIntact, Serves
  <2>1. CASE f = row
    <3>1. b = up[u].bucket
      BY <1>1, <1>2, <2>1 DEF OneRowPerId
    <3>2. QED
      BY <1>1, <1>2, <2>1, <3>1 DEF Versions, BlobFirst, UploadPath, Serves
  <2>2. QED
    BY <1>3, <2>1 DEF VersionedBlobsIntact
<1>12. QED
  BY <1>6, <1>7, <1>8, <1>9, <1>10, <1>11

\* An upload that stops while it saves leaves part of a file nobody refers to
LEMMA TornKeepsInv ==
  ASSUME TypeOK, TypeOK', VersionedInv, NEW u \in Uploaders, UploadAborts(u)
  PROVE  VersionedInv'
<1> USE DEF VersionedInv
<1>1. /\ up[u] # Idle /\ SlotsKept /\ ~Versions(u)'
      /\ UNCHANGED <<buckets, files, uuid>>
  BY EndPartKeepsSlots DEF UploadAborts
<1>2. CASE UNCHANGED disk
  <2>1. HarmlessStep
    BY <1>1, <1>2 DEF HarmlessStep, RowsKept, VersionsKept, TypeOK, StoreTypeOK
  <2>2. QED
    BY <2>1, HarmlessKeepsInv
<1>3. CASE up[u].at = "save" /\ WriteBlob(UploadPath(u), Torn)
  <2>1. ASSUME NEW w \in Uploaders, Versions(w)'
        PROVE  w # u /\ up'[w] = up[w] /\ Versions(w)
    BY <1>1, <2>1 DEF SlotsKept, SlotKept, Versions, Idle
  <2>2. Drawn'
    BY <1>1 DEF Drawn, SlotsKept, SlotKept, TypeOK, StoreTypeOK, RequestsTypeOK,
                BucketRows, Uploads, NoVersion
  <2>3. OneRowPerId'
    BY <1>1 DEF OneRowPerId, SlotsKept, SlotKept
  <2>4. OwnVersion'
    BY <1>1, <2>1 DEF OwnVersion, SlotsKept, SlotKept
  <2>5. BlobFirst'
    <3> SUFFICES ASSUME NEW w \in Uploaders, Versions(w)', up'[w].at = "insert"
                 PROVE  /\ UploadPath(w)' \in DOMAIN disk'
                        /\ disk'[UploadPath(w)'] = up'[w].size
      BY DEF BlobFirst
    <3>1. w # u /\ up'[w] = up[w] /\ Versions(w)
      BY <2>1
    <3>2. UploadPath(w)' = UploadPath(w)
      BY <3>1 DEF UploadPath
    <3>3. UploadPath(w) # UploadPath(u) /\ UploadPath(w) \in DOMAIN disk
          /\ disk[UploadPath(w)] = up[w].size
      BY <1>3, <3>1, WriteKeepsOthers DEF BlobFirst
    <3>4. QED
      BY <1>3, <3>1, <3>2, <3>3, WriteKeepsOthers
  <2>6. NamedVersions'
    BY <1>1 DEF NamedVersions
  <2>7. VersionedBlobsIntact'
    BY <1>1, <1>3, WriteKeepsOthers DEF VersionedBlobsIntact, Serves
  <2>8. QED
    BY <2>2, <2>3, <2>4, <2>5, <2>6, <2>7
<1>4. QED
  BY <1>2, <1>3 DEF UploadAborts

\* Inserting a bucket, under an id no row and no request has seen
LEMMA NewBucketKeepsInv ==
  ASSUME TypeOK, TypeOK', VersionedInv, NEW c \in Creators, InsertBucketRow(c)
  PROVE  VersionedInv'
<1> DEFINE row == [id |-> uuid, name |-> mk[c].name, owner |-> mk[c].owner,
                   versioning |-> mk[c].versioning]
<1> USE DEF VersionedInv
<1>1. /\ InsertBucket(row) /\ uuid' = uuid + 1 /\ uuid \in Nat
      /\ UNCHANGED <<files, disk, up>>
  BY DEF InsertBucketRow, TypeOK, StoreTypeOK
<1>2. row.id = uuid
  OBVIOUS
<1> HIDE DEF row
<1>3. buckets' \subseteq buckets \cup {row}
  BY <1>1 DEF InsertBucket
<1>4. \A f \in files : f.bucket # row.id
  BY <1>1, <1>2 DEF Drawn
<1>5. Drawn'
  BY <1>1, <1>2, <1>3 DEF Drawn, TypeOK, StoreTypeOK, RequestsTypeOK, BucketRows,
                          FileRows, Uploads
<1>6. OneRowPerId'
  <2>1. \A b \in buckets : b.id # row.id
    BY <1>1, <1>2 DEF Drawn
  <2>2. \A u \in Uploaders : up[u] # Idle => up[u].bucket.id # row.id
    BY <1>1, <1>2 DEF Drawn
  <2>3. QED
    BY <1>1, <1>3, <2>1, <2>2 DEF OneRowPerId
<1>7. OwnVersion' /\ BlobFirst'
  BY <1>1 DEF OwnVersion, BlobFirst, Versions, UploadPath
<1>8. NamedVersions' /\ VersionedBlobsIntact'
  BY <1>1, <1>3, <1>4 DEF NamedVersions, VersionedBlobsIntact, Serves
<1>9. QED
  BY <1>5, <1>6, <1>7, <1>8

\* The steps of an upload keep the invariant
LEMMA UploadStepKeepsInv ==
  ASSUME TypeOK, TypeOK', VersionedInv, NEW u \in Uploaders, UploadStep(u)
  PROVE  VersionedInv'
<1> USE DEF TypeOK, StoreTypeOK, storeVars
<1>1. CASE Upload(u)
  <2>1. SlotsKept
    BY <1>1 DEF Upload, Owned, BeginPart, SlotsKept, SlotKept, RequestsTypeOK
  <2>2. HarmlessStep
    BY <1>1, <2>1 DEF Upload, HarmlessStep, RowsKept, VersionsKept
  <2>3. QED
    BY <2>2, HarmlessKeepsInv
<1>2. CASE DemoteLatest(u)
  <2>1. RowsKept
    BY <1>2, SetLatestKeepsRows DEF DemoteLatest, RowsKept
  <2>2. QED
    BY <1>2, <2>1, DrawKeepsInv DEF DemoteLatest
<1>3. CASE CheckFree(u)
  <2>1. up[u] # Idle /\ RowsKept
    BY <1>3 DEF CheckFree, Idle, RowsKept
  <2>2. CASE EndPart(u) /\ UNCHANGED uuid
    <3>1. HarmlessStep
      BY <1>3, <2>1, <2>2, EndPartKeepsSlots DEF CheckFree, HarmlessStep, VersionsKept
    <3>2. QED
      BY <3>1, HarmlessKeepsInv
  <2>3. CASE \E version \in {NoVersion, uuid} :
               /\ up' = [up EXCEPT ![u].at = "save", ![u].version = version]
               /\ uuid' = IF version = uuid THEN uuid + 1 ELSE uuid
    BY <1>3, <2>1, <2>3, DrawKeepsInv DEF CheckFree
  <2>4. QED
    BY <1>3, <2>2, <2>3 DEF CheckFree
<1>4. CASE SaveFile(u)
  BY <1>4, SaveKeepsInv
<1>5. CASE InsertRow(u)
  BY <1>5, InsertKeepsInv
<1>6. CASE UploadAborts(u)
  BY <1>6, TornKeepsInv
<1>7. QED
  BY <1>1, <1>2, <1>3, <1>4, <1>5, <1>6 DEF UploadStep

\* Of the steps of DeleteFile only RemoveFile touches the disk, at a path that
\* is no version's
LEMMA DeleteStepKeepsInv ==
  ASSUME TypeOK, TypeOK', VersionedInv, NEW d \in Deleters, DeleteStep(d)
  PROVE  VersionedInv'
<1> USE DEF TypeOK, StoreTypeOK, storeVars
<1>1. SlotsKept /\ UNCHANGED <<buckets, uuid>>
  BY DEF DeleteStep, Delete, RemoveFile, DeleteRow, FindNewest, PromoteNewest,
         DeleteAborts, SlotsKept, SlotKept
<1>2. RowsKept
  <2>1. CASE DeleteRow(d)
    BY <2>1 DEF DeleteRow, DropFile, RowsKept
  <2>2. CASE PromoteNewest(d)
    BY <2>2, SetLatestKeepsRows DEF PromoteNewest, RowsKept
  <2>3. CASE Delete(d) \/ RemoveFile(d) \/ FindNewest(d) \/ DeleteAborts(d)
    BY <2>3 DEF Delete, RemoveFile, FindNewest, DeleteAborts, RowsKept
  <2>4. QED
    BY <2>1, <2>2, <2>3 DEF DeleteStep
<1>3. VersionsKept
  <2>1. CASE RemoveFile(d)
    <3>1. RemoveBlob(PlainPath(del[d].bucket, del[d].row.name))
      BY <2>1 DEF RemoveFile
    <3>2. QED
      BY <3>1 DEF RemoveBlob, PlainPath, VersionsKept
  <2>2. CASE UNCHANGED disk
    BY <2>2 DEF VersionsKept
  <2>3. QED
    BY <2>1, <2>2 DEF DeleteStep, Delete, DeleteRow, FindNewest, PromoteNewest,
                      DeleteAborts
<1>4. HarmlessStep
  BY <1>1, <1>2, <1>3 DEF HarmlessStep
<1>5. QED
  BY <1>4, HarmlessKeepsInv

\* The steps of CreateBucket and DeleteBucket keep the invariant
LEMMA BucketStepKeepsInv ==
  ASSUME TypeOK, TypeOK', VersionedInv,
         (\E c \in Creators : CreateStep(c)) \/ (\E x \in Droppers : DropStep(x))
  PROVE  VersionedInv'
<1>1. CASE \E c \in Creators : InsertBucketRow(c)
  BY <1>1, NewBucketKeepsInv
<1>2. CASE \/ \E c \in Creators : Create(c) \/ CreateAborts(c)
           \/ \E x \in Droppers : DropStep(x)
  <2>1. /\ buckets' \subseteq buckets /\ files' \subseteq files
        /\ UNCHANGED <<disk, uuid, up>>
    BY <1>2 DEF Create, CreateAborts, DropStep, Drop, CountFiles, DeleteBucketRow,
                DropAborts, DropBucket, storeVars
  <2>2. HarmlessStep
    BY <2>1 DEF HarmlessStep, SlotsKept, SlotKept, RowsKept, VersionsKept, TypeOK,
                StoreTypeOK
  <2>3. QED
    BY <2>2, HarmlessKeepsInv
<1>3. QED
  BY <1>1, <1>2 DEF CreateStep

\* No step breaks the invariant ...
LEMMA NextKeepsVersioned ==
  ASSUME TypeOK, TypeOK', VersionedInv, [Next]_vars
  PROVE  VersionedInv'
<1>1. CASE Next
  BY <1>1, UploadStepKeepsInv, DeleteStepKeepsInv, BucketStepKeepsInv DEF Next
<1>2. CASE UNCHANGED vars
  <2>1. HarmlessStep
    BY <1>2 DEF vars, HarmlessStep, SlotsKept, SlotKept, RowsKept, VersionsKept,
                TypeOK, StoreTypeOK
  <2>2. QED
    BY <2>1, HarmlessKeepsInv
<1>3. QED
  BY <1>1, <1>2

\* ... so it holds in every reachable state
THEOREM VersionedInvariant == Spec => []VersionedInv
<1>1. Init => VersionedInv
  BY DEF Init, StoreInit, VersionedInv, Drawn, OneRowPerId, OwnVersion, Versions,
         BlobFirst, NamedVersions, VersionedBlobsIntact
<1>2. TypeOK /\ TypeOK' /\ VersionedInv /\ [Next]_vars => VersionedInv'
  BY NextKeepsVersioned
<1>3. QED
  BY <1>1, <1>2, TypeCorrect, PTL DEF Spec

\* Every row of a versioned bucket is served with the content its upload
\* carried, in every interleaving of any number of handlers, with any faults
THEOREM VersionsIntact == Spec => []VersionedBlobsIntact
<1>1. VersionedInv => VersionedBlobsIntact
  BY DEF VersionedInv
<1>2. QED
  BY <1>1, VersionedInvariant, PTL
=============================================================================
