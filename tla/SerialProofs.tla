----------------------------- MODULE SerialProofs -----------------------------
(***************************************************************************)
(* Theorems about ObjectStore when the server handles one request at a     *)
(* time and no statement fails: what the handlers, each of them a sequence *)
(* of statements and file-system calls, achieve when nothing comes between *)
(* them.  Every request begins and ends in a store where the latest row of *)
(* a name is its newest, and the files of unversioned buckets are those of *)
(* its rows; the invariant says how far a request has got from one such    *)
(* store to the next.                                                      *)
(***************************************************************************)
EXTENDS UnversionedProofs

OneByOne == Serial /\ Faults = {}

-----------------------------------------------------------------------------
(* The inductive invariant *)

\* At most one request is in progress
OneRequest ==
  /\ \A u \in Uploaders : up[u] # Idle =>
       /\ \A w \in Uploaders \ {u} : up[w] = Idle
       /\ \A d \in Deleters : del[d] = Idle
       /\ \A c \in Creators : mk[c] = Idle
       /\ \A x \in Droppers : drop[x] = Idle
  /\ \A d \in Deleters : del[d] # Idle =>
       /\ \A e \in Deleters \ {d} : del[e] = Idle
       /\ \A c \in Creators : mk[c] = Idle
       /\ \A x \in Droppers : drop[x] = Idle
  /\ \A c \in Creators : mk[c] # Idle =>
       /\ \A a \in Creators \ {c} : mk[a] = Idle
       /\ \A x \in Droppers : drop[x] = Idle
  /\ \A x \in Droppers : drop[x] # Idle =>
       \A y \in Droppers \ {x} : drop[y] = Idle

FileIds ==
  /\ \A f \in files : f.id < uuid
  /\ \A f, g \in files : f.id = g.id => f = g

\* The latest row of a name is the newest ...
LatestIsNewest ==
  \A f \in files : f.latest => IsNewest(f, RowsOf(f.bucket, f.name))

\* ... and the newest the latest, but for the name of an upload that has
\* demoted the latest row, or of a delete that has deleted it
Demoted(f) ==
  \/ \E u \in Uploaders :
       Versions(u) /\ f.bucket = up[u].bucket.id /\ f.name = up[u].key
  \/ \E d \in Deleters :
       /\ del[d] # Idle /\ del[d].at \in {"newest", "promote"}
       /\ f.bucket = del[d].bucket.id /\ f.name = del[d].row.name

NewestIsLatest ==
  \A f \in files :
    IsNewest(f, RowsOf(f.bucket, f.name)) /\ ~Demoted(f) => f.latest

\* A row of an unversioned bucket has its file, but for the one being deleted
PlainServed ==
  \A b \in buckets, f \in files :
    /\ ~b.versioning /\ f.bucket = b.id
    /\ \A d \in Deleters : del[d] # Idle /\ del[d].at = "row" => f # del[d].row
    => Serves(b, f)

\* A file without version has a row, but for the one being uploaded
PlainHasRow ==
  \A path \in DOMAIN disk :
    /\ path[3] = NoVersion
    /\ \A u \in Uploaders : Plain(u) /\ up[u].at = "insert" => path # UploadPath(u)
    => \E b \in buckets, f \in files :
         /\ ~b.versioning /\ b.name = path[1]
         /\ f.bucket = b.id /\ f.name = path[2]

\* What an upload has found and done so far
UploadAlone ==
  \A u \in Uploaders : up[u] # Idle =>
    /\ up[u].bucket \in buckets
    /\ Versions(u) => LatestOf(u) = {}
    /\ Plain(u) => RowsOf(up[u].bucket.id, up[u].key) = {}
    /\ Plain(u) /\ up[u].at = "insert" =>
         UploadPath(u) \in DOMAIN disk /\ disk[UploadPath(u)] = up[u].size

\* ... a delete ...
DeleteAlone ==
  \A d \in Deleters : del[d] # Idle =>
    /\ del[d].bucket \in buckets
    /\ del[d].at \in {"remove", "row"} =>
         del[d].row \in files /\ del[d].row.bucket = del[d].bucket.id
    /\ del[d].at = "row" /\ ~del[d].bucket.versioning =>
         PlainPath(del[d].bucket, del[d].row.name) \notin DOMAIN disk
    /\ del[d].at \in {"newest", "promote"} =>
         del[d].bucket.versioning /\ \A f \in Remaining(d) : ~f.latest
    /\ del[d].at = "promote" =>
         \E f \in files : f.id = del[d].target /\ IsNewest(f, Remaining(d))

\* ... and a bucket deletion
DropAlone ==
  \A x \in Droppers : drop[x] # Idle /\ drop[x].at = "delete" =>
    FilesIn(drop[x].bucket) = {}

Rows == BucketNames /\ FileIds /\ AllLatest /\ UniqueName /\ LatestIsNewest

Progress == UploadAlone /\ DeleteAlone /\ DropAlone

Steady == Rows /\ NewestIsLatest /\ PlainServed /\ PlainHasRow /\ Progress

SerialInv == OneRequest /\ Steady

\* What its proof takes from ObjectStoreProofs
SerialTypeInv == OneByOne /\ TypeOK /\ TypeOK' /\ VersionedInv /\ VersionedInv'

-----------------------------------------------------------------------------
(* One request at a time *)

OnlyUpload(u) ==
  /\ \A w \in Uploaders \ {u} : up[w] = Idle
  /\ \A d \in Deleters : del[d] = Idle
  /\ \A c \in Creators : mk[c] = Idle
  /\ \A x \in Droppers : drop[x] = Idle

OnlyDelete(d) ==
  /\ \A u \in Uploaders : up[u] = Idle
  /\ \A e \in Deleters \ {d} : del[e] = Idle
  /\ \A c \in Creators : mk[c] = Idle
  /\ \A x \in Droppers : drop[x] = Idle

OnlyCreate(c) ==
  /\ \A u \in Uploaders : up[u] = Idle
  /\ \A d \in Deleters : del[d] = Idle
  /\ \A a \in Creators \ {c} : mk[a] = Idle
  /\ \A x \in Droppers : drop[x] = Idle

OnlyDrop(x) ==
  /\ \A u \in Uploaders : up[u] = Idle
  /\ \A d \in Deleters : del[d] = Idle
  /\ \A c \in Creators : mk[c] = Idle
  /\ \A y \in Droppers \ {x} : drop[y] = Idle

\* While a request takes a step there is no other, before the step or after it
LEMMA UploadIsAlone ==
  ASSUME OneByOne, TypeOK, OneRequest, NEW u \in Uploaders, UploadStep(u)
  PROVE  OnlyUpload(u) /\ OnlyUpload(u)' /\ OneRequest'
<1>1. up[u] # Idle \/ Quiet
  <2>1. CASE Upload(u)
    BY <2>1 DEF Upload, Arrives, OneByOne
  <2>2. CASE up[u].at # "idle" \/ up[u] # Idle
    BY <2>2 DEF Idle
  <2>3. QED
    BY <2>1, <2>2 DEF UploadStep, DemoteLatest, CheckFree, SaveFile, InsertRow,
                      UploadAborts
<1>2. OnlyUpload(u)
  BY <1>1 DEF OneRequest, Quiet, OnlyUpload
<1>3. /\ UNCHANGED <<del, mk, drop>>
      /\ \A w \in Uploaders \ {u} : up'[w] = up[w]
  BY DEF UploadStep, Upload, DemoteLatest, CheckFree, SaveFile, InsertRow,
         UploadAborts, EndPart, BeginPart, TypeOK, RequestsTypeOK
<1>4. OnlyUpload(u)'
  BY <1>2, <1>3 DEF OnlyUpload
<1>5. QED
  BY <1>2, <1>4 DEF OnlyUpload, OneRequest

LEMMA DeleteIsAlone ==
  ASSUME OneByOne, TypeOK, OneRequest, NEW d \in Deleters, DeleteStep(d)
  PROVE  OnlyDelete(d) /\ OnlyDelete(d)' /\ OneRequest'
<1>1. del[d] # Idle \/ Quiet
  <2>1. CASE Delete(d)
    BY <2>1 DEF Delete, Arrives, OneByOne
  <2>2. CASE del[d].at # "idle" \/ del[d] # Idle
    BY <2>2 DEF Idle
  <2>3. QED
    BY <2>1, <2>2 DEF DeleteStep, RemoveFile, DeleteRow, FindNewest, PromoteNewest,
                      DeleteAborts
<1>2. OnlyDelete(d)
  BY <1>1 DEF OneRequest, Quiet, OnlyDelete
<1>3. /\ UNCHANGED <<up, mk, drop>>
      /\ \A e \in Deleters \ {d} : del'[e] = del[e]
  BY DEF DeleteStep, Delete, RemoveFile, DeleteRow, FindNewest, PromoteNewest,
         DeleteAborts, TypeOK, RequestsTypeOK
<1>4. OnlyDelete(d)'
  BY <1>2, <1>3 DEF OnlyDelete
<1>5. QED
  BY <1>2, <1>4 DEF OnlyDelete, OneRequest

LEMMA CreateIsAlone ==
  ASSUME OneByOne, TypeOK, OneRequest, NEW c \in Creators, CreateStep(c)
  PROVE  OnlyCreate(c) /\ OnlyCreate(c)' /\ OneRequest'
<1>1. mk[c] # Idle \/ Quiet
  BY DEF CreateStep, Create, Arrives, OneByOne, InsertBucketRow, CreateAborts, Idle
<1>2. OnlyCreate(c)
  BY <1>1 DEF OneRequest, Quiet, OnlyCreate
<1>3. /\ UNCHANGED <<up, del, drop>>
      /\ \A a \in Creators \ {c} : mk'[a] = mk[a]
  BY DEF CreateStep, Create, InsertBucketRow, CreateAborts, TypeOK, RequestsTypeOK
<1>4. OnlyCreate(c)'
  BY <1>2, <1>3 DEF OnlyCreate
<1>5. QED
  BY <1>2, <1>4 DEF OnlyCreate, OneRequest

LEMMA DropIsAlone ==
  ASSUME OneByOne, TypeOK, OneRequest, NEW x \in Droppers, DropStep(x)
  PROVE  OnlyDrop(x) /\ OnlyDrop(x)' /\ OneRequest'
<1>1. drop[x] # Idle \/ Quiet
  BY DEF DropStep, Drop, Arrives, OneByOne, CountFiles, DeleteBucketRow, DropAborts,
         Idle
<1>2. OnlyDrop(x)
  BY <1>1 DEF OneRequest, Quiet, OnlyDrop
<1>3. /\ UNCHANGED <<up, del, mk>>
      /\ \A y \in Droppers \ {x} : drop'[y] = drop[y]
  BY DEF DropStep, Drop, CountFiles, DeleteBucketRow, DropAborts, TypeOK,
         RequestsTypeOK
<1>4. OnlyDrop(x)'
  BY <1>2, <1>3 DEF OnlyDrop
<1>5. QED
  BY <1>2, <1>4 DEF OnlyDrop, OneRequest

-----------------------------------------------------------------------------
(* The steps of an upload *)

\* A step that leaves the tables and the files alone, ...
LEMMA ReadKeepsSteady ==
  ASSUME Steady, UNCHANGED <<buckets, files, disk>>, uuid' \in Nat, uuid \in Nat,
         uuid <= uuid', files \subseteq FileRows, Progress',
         \A f \in files : Demoted(f) => Demoted(f)',
         \A d \in Deleters : del[d] # Idle /\ del[d].at = "row" => del'[d] = del[d],
         \A u \in Uploaders : Plain(u) /\ up[u].at = "insert" => up'[u] = up[u]
  PROVE  Steady'
<1> USE DEF Steady
<1>1. Rows'
  BY DEF Rows, BucketNames, FileIds, AllLatest, UniqueName, LatestIsNewest, IsNewest,
         RowsOf, FileRows
<1>2. NewestIsLatest'
  BY DEF NewestIsLatest, IsNewest, RowsOf
<1>3. PlainServed'
  BY DEF PlainServed, Serves
<1>4. PlainHasRow'
  BY DEF PlainHasRow, Plain, UploadPath
<1>5. QED
  BY <1>1, <1>2, <1>3, <1>4

\* ... as at the beginning of a file and when it is refused
LEMMA BeginKeepsSteady ==
  ASSUME SerialTypeInv, Steady, NEW u \in Uploaders, OnlyUpload(u), OnlyUpload(u)',
         UNCHANGED storeVars, ~Versions(u), ~Plain(u), ~Versions(u)', ~Plain(u)',
         up'[u] # Idle => up'[u].bucket \in buckets
  PROVE  Steady'
<1> USE DEF SerialTypeInv, TypeOK, StoreTypeOK, storeVars
<1>1. Progress'
  BY DEF OnlyUpload, Progress, UploadAlone, DeleteAlone, DropAlone
<1>2. \A f \in files : ~Demoted(f)
  BY DEF OnlyUpload, Demoted, Versions
<1>3. \A w \in Uploaders : ~Plain(w)
  BY DEF OnlyUpload, Plain
<1>4. \A d \in Deleters : del[d] = Idle
  BY DEF OnlyUpload
<1>5. QED
  BY <1>1, <1>2, <1>3, <1>4, ReadKeepsSteady

\* Finding a name free
LEMMA FreeKeepsSteady ==
  ASSUME SerialTypeInv, Steady, NEW u \in Uploaders, OnlyUpload(u), OnlyUpload(u)',
         up[u].at = "mark", ~up[u].bucket.versioning, LatestOf(u) = {},
         NEW version,
         up' = [up EXCEPT ![u].at = "save", ![u].version = version],
         UNCHANGED <<buckets, files, disk>>, uuid <= uuid'
  PROVE  Steady'
<1> USE DEF SerialTypeInv, TypeOK, StoreTypeOK
<1>0. /\ up[u] \in Uploads
      /\ up'[u] = [up[u] EXCEPT !.at = "save", !.version = version]
  BY DEF RequestsTypeOK, Idle
<1>1. up'[u].bucket = up[u].bucket /\ up'[u].at = "save" /\ up'[u].key = up[u].key
  BY ONLY <1>0 DEF Uploads
<1>2. up[u] # Idle /\ up[u].bucket \in buckets
  BY DEF Idle, Steady, Progress, UploadAlone
<1>3. RowsOf(up[u].bucket.id, up[u].key) = {}
  BY <1>2 DEF Steady, Rows, AllLatest, LatestOf, RowsOf
<1>4. Progress'
  <2>1. ~Versions(u)' /\ ~(up'[u].at = "insert") /\ up'[u].bucket \in buckets
    BY <1>1, <1>2 DEF Versions
  <2>2. RowsOf(up[u].bucket.id, up[u].key)' = {}
    BY <1>1, <1>3 DEF RowsOf
  <2>3. UploadAlone'
    BY ONLY <1>1, <2>1, <2>2, OnlyUpload(u)', UNCHANGED buckets
       DEF OnlyUpload, UploadAlone
  <2>4. QED
    BY <2>3 DEF OnlyUpload, Progress, DeleteAlone, DropAlone
<1>5. \A f \in files : ~Demoted(f)
  BY DEF OnlyUpload, Demoted, Versions
<1>6. \A w \in Uploaders : ~Plain(w)
  BY DEF OnlyUpload, Plain
<1>7. \A d \in Deleters : del[d] = Idle
  BY DEF OnlyUpload
<1>8. QED
  BY <1>4, <1>5, <1>6, <1>7, ReadKeepsSteady

\* An UPDATE of is_latest leaves the rows otherwise as they are
LEMMA SetLatestRows ==
  ASSUME files \subseteq FileRows, NEW rows, NEW flag \in BOOLEAN,
         SetLatest(rows, flag)
  PROVE  /\ \A f \in files' : \E g \in files :
              /\ f = IF g \in rows THEN [g EXCEPT !.latest = flag] ELSE g
              /\ f.id = g.id /\ f.bucket = g.bucket /\ f.name = g.name
              /\ f.version = g.version /\ f.size = g.size
         /\ \A g \in files : \E f \in files' :
              /\ f = IF g \in rows THEN [g EXCEPT !.latest = flag] ELSE g
              /\ f.id = g.id /\ f.bucket = g.bucket /\ f.name = g.name
              /\ f.version = g.version /\ f.size = g.size
<1>1. ASSUME NEW g \in files
      PROVE  LET f == IF g \in rows THEN [g EXCEPT !.latest = flag] ELSE g
             IN  /\ f.id = g.id /\ f.bucket = g.bucket /\ f.name = g.name
                 /\ f.version = g.version /\ f.size = g.size
  BY DEF FileRows
<1>2. QED
  BY <1>1 DEF SetLatest

\* ... in particular their order
LEMMA SetLatestOrder ==
  ASSUME files \subseteq FileRows, NEW rows, NEW flag \in BOOLEAN,
         SetLatest(rows, flag), NEW f \in files', NEW g \in files,
         f.id = g.id, f.bucket = g.bucket, f.name = g.name
  PROVE  IsNewest(g, RowsOf(g.bucket, g.name)) <=> IsNewest(f, RowsOf(f.bucket, f.name)')
  BY SetLatestRows DEF IsNewest, RowsOf

\* Demoting the latest row of a versioned name
LEMMA DemoteKeepsSteady ==
  ASSUME SerialTypeInv, Steady, NEW u \in Uploaders, OnlyUpload(u), OnlyUpload(u)',
         DemoteLatest(u)
  PROVE  Steady'
<1> USE DEF SerialTypeInv, TypeOK, StoreTypeOK
<1>0. /\ up[u] \in Uploads
      /\ up'[u] = [up[u] EXCEPT !.at = "save", !.version = uuid]
  BY DEF DemoteLatest, RequestsTypeOK, Idle
<1>1. /\ SetLatest(LatestOf(u), FALSE) /\ uuid' = uuid + 1
      /\ UNCHANGED <<buckets, disk>>
      /\ up[u] # Idle /\ up[u].at = "mark" /\ up[u].bucket.versioning
      /\ up[u].bucket \in buckets
  <2>1. ~Ignored
    BY DEF Ignored, OneByOne
  <2>2. up[u] # Idle
    BY DEF DemoteLatest, Idle
  <2>3. up[u].bucket \in buckets
    BY <2>2 DEF Steady, Progress, UploadAlone
  <2>4. QED
    BY ONLY <2>1, <2>2, <2>3, DemoteLatest(u) DEF DemoteLatest
<1>rows. \A f \in files' : \E g \in files :
           /\ f = IF g \in LatestOf(u) THEN [g EXCEPT !.latest = FALSE] ELSE g
           /\ f.id = g.id /\ f.bucket = g.bucket /\ f.name = g.name
  <2>1. ASSUME NEW g \in files
        PROVE  LET f == IF g \in LatestOf(u) THEN [g EXCEPT !.latest = FALSE] ELSE g
               IN  f.id = g.id /\ f.bucket = g.bucket /\ f.name = g.name
    BY DEF FileRows
  <2>2. QED
    BY ONLY <1>1, <2>1 DEF SetLatest
<1>2. /\ up'[u].bucket = up[u].bucket /\ up'[u].at = "save" /\ up'[u].key = up[u].key
      /\ up'[u] # Idle
  <2>1. /\ up'[u].bucket = up[u].bucket /\ up'[u].at = "save"
        /\ up'[u].key = up[u].key
    BY ONLY <1>0 DEF Uploads
  <2>2. QED
    BY <2>1 DEF Idle
<1>3. \A f \in files' : \E g \in files :
        /\ f.id = g.id /\ f.bucket = g.bucket /\ f.name = g.name
        /\ g \notin LatestOf(u) => f = g
        /\ g \in LatestOf(u) => ~f.latest
  <2>1. ASSUME NEW g \in files, NEW f, f = [g EXCEPT !.latest = FALSE]
        PROVE  ~f.latest
    BY <2>1 DEF FileRows
  <2>2. ASSUME NEW f \in files', NEW g \in files,
               f = IF g \in LatestOf(u) THEN [g EXCEPT !.latest = FALSE] ELSE g
        PROVE  (g \notin LatestOf(u) => f = g) /\ (g \in LatestOf(u) => ~f.latest)
    <3>1. CASE g \in LatestOf(u)
      BY ONLY <2>1, <2>2, <3>1
    <3>2. CASE g \notin LatestOf(u)
      BY ONLY <2>2, <3>2
    <3>3. QED
      BY <3>1, <3>2
  <2>3. QED
    BY ONLY <1>rows, <2>2, Zenon
<1>4. \A g \in files : g \notin LatestOf(u) => g \in files'
  BY <1>1 DEF SetLatest
<1>5. \A b \in buckets, g \in files :
        ~b.versioning /\ g.bucket = b.id => g \notin LatestOf(u)
  BY <1>1 DEF LatestOf, RowsOf, VersionedInv, OneRowPerId
<1>6. Rows'
  <2> USE DEF Steady, Rows
  <2>1. BucketNames'
    BY <1>1 DEF BucketNames
  <2>2. FileIds'
    <3>1. \A f \in files' : f.id < uuid'
      BY <1>1, <1>3 DEF FileIds, FileRows
    <3>2. ASSUME NEW f \in files', NEW h \in files', f.id = h.id
          PROVE  f = h
      <4>1. PICK g \in files :
              /\ f = IF g \in LatestOf(u) THEN [g EXCEPT !.latest = FALSE] ELSE g
              /\ f.id = g.id
        BY ONLY <1>rows
      <4>2. PICK k \in files :
              /\ h = IF k \in LatestOf(u) THEN [k EXCEPT !.latest = FALSE] ELSE k
              /\ h.id = k.id
        BY ONLY <1>rows
      <4>3. g = k
        BY <3>2, <4>1, <4>2 DEF FileIds
      <4>4. QED
        BY <4>1, <4>2, <4>3
    <3>3. QED
      BY <3>1, <3>2 DEF FileIds
  <2>3. AllLatest' /\ UniqueName'
    BY <1>1, <1>3, <1>5 DEF AllLatest, UniqueName
  <2>4. LatestIsNewest'
    <3> SUFFICES ASSUME NEW f \in files', f.latest
                 PROVE  IsNewest(f, RowsOf(f.bucket, f.name)')
      BY DEF LatestIsNewest
    <3>1. PICK g \in files :
            /\ f.id = g.id /\ f.bucket = g.bucket /\ f.name = g.name
            /\ g \notin LatestOf(u) => f = g
            /\ g \in LatestOf(u) => ~f.latest
      BY <1>3
    <3>2. IsNewest(g, RowsOf(g.bucket, g.name))
      BY <3>1 DEF LatestIsNewest
    <3>3. QED
      BY <1>1, <3>1, <3>2, SetLatestOrder
  <2>5. QED
    BY <2>1, <2>2, <2>3, <2>4
<1>7. NewestIsLatest'
  <2> SUFFICES ASSUME NEW f \in files', IsNewest(f, RowsOf(f.bucket, f.name)'),
                      ~Demoted(f)'
               PROVE  f.latest
    BY DEF NewestIsLatest
  <2>1. PICK g \in files :
          /\ f.id = g.id /\ f.bucket = g.bucket /\ f.name = g.name
          /\ g \notin LatestOf(u) => f = g
    BY <1>3
  <2>2. Versions(u)'
    BY ONLY <1>1, <1>2 DEF Versions
  <2>3. ~(f.bucket = up[u].bucket.id /\ f.name = up[u].key)
    BY <1>2, <2>2 DEF Demoted
  <2>4. g \notin LatestOf(u)
    BY <2>1, <2>3 DEF LatestOf, RowsOf
  <2>5. IsNewest(g, RowsOf(g.bucket, g.name))
    BY <1>1, <2>1, SetLatestOrder
  <2>6. ~Demoted(g)
    BY <1>1 DEF Demoted, Versions, OnlyUpload
  <2>7. QED
    BY <2>1, <2>4, <2>5, <2>6 DEF Steady, NewestIsLatest
<1>8. PlainServed'
  <2>1. \A b \in buckets, f \in files' : ~b.versioning /\ f.bucket = b.id => f \in files
    BY <1>3, <1>5
  <2>2. \A d \in Deleters : del[d] = Idle
    BY DEF OnlyUpload
  <2>3. QED
    BY <1>1, <2>1, <2>2 DEF Steady, PlainServed, Serves
<1>9. PlainHasRow'
  <2>1. \A w \in Uploaders : ~Plain(w)
    BY <1>1 DEF OnlyUpload, Plain
  <2>2. QED
    BY <1>1, <1>4, <1>5, <2>1 DEF Steady, PlainHasRow
<1>10. Progress'
  <2>1. LatestOf(u)' = {}
    <3>1. ASSUME NEW f \in files', f.bucket = up[u].bucket.id, f.name = up[u].key
          PROVE  ~f.latest
      BY <1>3, <3>1 DEF LatestOf, RowsOf
    <3>2. QED
      BY <1>2, <3>1 DEF LatestOf, RowsOf
  <2>2. UploadAlone'
    BY ONLY <1>1, <1>2, <2>1, OnlyUpload(u)' DEF OnlyUpload, UploadAlone, Plain
  <2>3. QED
    BY <2>2 DEF OnlyUpload, Progress, DeleteAlone, DropAlone
<1>11. QED
  BY <1>6, <1>7, <1>8, <1>9, <1>10 DEF Steady

\* Writing the file of an upload, at a path no row of an unversioned bucket has
LEMMA SaveKeepsSteady ==
  ASSUME SerialTypeInv, Steady, NEW u \in Uploaders, OnlyUpload(u), OnlyUpload(u)',
         SaveFile(u)
  PROVE  Steady'
<1> USE DEF SerialTypeInv, TypeOK, StoreTypeOK
<1>0. up[u] \in Uploads /\ up'[u] = [up[u] EXCEPT !.at = "insert"]
  BY DEF SaveFile, RequestsTypeOK, Idle
<1>1. /\ up[u] # Idle /\ up[u].at = "save" /\ up[u].bucket \in buckets
      /\ WriteBlob(UploadPath(u), up[u].size)
      /\ UNCHANGED <<buckets, files, uuid>>
  BY DEF SaveFile, Idle, Steady, Progress, UploadAlone
<1>2. /\ up'[u].bucket = up[u].bucket /\ up'[u].version = up[u].version
      /\ up'[u].key = up[u].key /\ up'[u].size = up[u].size
      /\ up'[u].at = "insert" /\ up'[u] # Idle
  <2>1. /\ up'[u].bucket = up[u].bucket /\ up'[u].version = up[u].version
        /\ up'[u].key = up[u].key /\ up'[u].size = up[u].size
        /\ up'[u].at = "insert"
    BY ONLY <1>0, SavedUpload
  <2>2. QED
    BY <2>1 DEF Idle
<1>3. /\ Versions(u)' <=> Versions(u)
      /\ Plain(u)' <=> Plain(u)
      /\ UploadPath(u)' = UploadPath(u)
  BY ONLY <1>1, <1>2 DEF Versions, Plain, UploadPath
<1>4. Versions(u) => UploadPath(u)[3] # NoVersion
  BY VersionPath DEF UploadPath, VersionedInv, OwnVersion, Versions
<1>5. up[u].bucket.versioning => Versions(u)
  BY <1>1 DEF Versions
<1>6. Rows'
  BY <1>1 DEF Steady, Rows, BucketNames, FileIds, AllLatest, UniqueName,
              LatestIsNewest, IsNewest, RowsOf
<1>7. NewestIsLatest'
  <2> SUFFICES ASSUME NEW f \in files, IsNewest(f, RowsOf(f.bucket, f.name)),
                      ~Demoted(f)'
               PROVE  f.latest
    BY <1>1 DEF NewestIsLatest, IsNewest, RowsOf
  <2>1. ~Demoted(f)
    BY <1>2, <1>3 DEF Demoted, OnlyUpload, Versions
  <2>2. QED
    BY <2>1 DEF Steady, NewestIsLatest
<1>8. PlainServed'
  <2> SUFFICES ASSUME NEW b \in buckets, NEW f \in files, ~b.versioning,
                      f.bucket = b.id
               PROVE  Serves(b, f)'
    BY <1>1 DEF PlainServed
  <2>1. Serves(b, f)
    BY DEF Steady, PlainServed, OnlyUpload
  <2>2. PlainPath(b, f.name) # UploadPath(u)
    <3>1. CASE up[u].bucket.versioning
      BY <1>4, <1>5, <3>1 DEF PlainPath
    <3>2. CASE ~up[u].bucket.versioning
      <4>1. RowsOf(up[u].bucket.id, up[u].key) = {}
        BY <1>1, <3>2 DEF Steady, Progress, UploadAlone, Plain
      <4>2. f \notin RowsOf(up[u].bucket.id, up[u].key)
        BY <4>1
      <4>3. b.name = up[u].bucket.name => b = up[u].bucket
        BY <1>1 DEF Steady, Rows, BucketNames
      <4>4. QED
        BY <3>2, <4>2, <4>3 DEF RowsOf, UploadPath, BlobPath, PlainPath
    <3>3. QED
      BY <3>1, <3>2
  <2>3. QED
    BY <1>1, <2>1, <2>2 DEF Serves, BlobPath, WriteBlob
<1>9. PlainHasRow'
  <2> SUFFICES ASSUME NEW path \in DOMAIN disk', path[3] = NoVersion,
                      Plain(u)' => path # UploadPath(u)
               PROVE  \E b \in buckets, f \in files :
                        /\ ~b.versioning /\ b.name = path[1]
                        /\ f.bucket = b.id /\ f.name = path[2]
    BY <1>1, <1>2, <1>3 DEF PlainHasRow
  <2>1. path # UploadPath(u)
    BY <1>1, <1>3, <1>4 DEF Plain, Versions
  <2>2. path \in DOMAIN disk
    BY <1>1, <2>1 DEF WriteBlob
  <2>3. \A w \in Uploaders : ~(Plain(w) /\ up[w].at = "insert")
    BY <1>1 DEF OnlyUpload, Plain
  <2>4. QED
    BY <2>2, <2>3 DEF Steady, PlainHasRow
<1>10. Progress'
  <2>1. LatestOf(u)' = LatestOf(u)
    BY <1>1, <1>2 DEF LatestOf, RowsOf
  <2>2. RowsOf(up[u].bucket.id, up[u].key)' = RowsOf(up[u].bucket.id, up[u].key)
    BY <1>1, <1>2 DEF RowsOf
  <2>3. UploadPath(u)' \in DOMAIN disk' /\ disk'[UploadPath(u)'] = up'[u].size
    BY <1>1, <1>2, <1>3 DEF WriteBlob
  <2>4. /\ Versions(u) => LatestOf(u) = {}
        /\ Plain(u) => RowsOf(up[u].bucket.id, up[u].key) = {}
    BY <1>1 DEF Steady, Progress, UploadAlone
  <2>5. UploadAlone'
    BY ONLY <1>1, <1>2, <1>3, <2>1, <2>2, <2>3, <2>4, OnlyUpload(u)'
       DEF OnlyUpload, UploadAlone
  <2>6. QED
    BY <2>5 DEF OnlyUpload, Progress, DeleteAlone, DropAlone
<1>11. QED
  BY <1>6, <1>7, <1>8, <1>9, <1>10 DEF Steady

\* Inserting its row, the newest and the latest of its name
LEMMA InsertKeepsSteady ==
  ASSUME SerialTypeInv, Steady, NEW u \in Uploaders, OnlyUpload(u), OnlyUpload(u)',
         InsertRow(u)
  PROVE  Steady'
<1> DEFINE row == [id |-> uuid, bucket |-> up[u].bucket.id, name |-> up[u].key,
                   version |-> up[u].version, latest |-> TRUE, size |-> up[u].size]
<1> USE DEF SerialTypeInv, TypeOK, StoreTypeOK
<1>1. /\ up[u] # Idle /\ up[u].at = "insert" /\ up[u].bucket \in buckets
      /\ InsertFile(row) /\ uuid' = uuid + 1 /\ EndPart(u)
      /\ UNCHANGED <<buckets, disk>>
  BY DEF InsertRow, Idle, Steady, Progress, UploadAlone
<1>2. /\ row.bucket = up[u].bucket.id /\ row.name = up[u].key /\ row.latest
      /\ row.version = up[u].version /\ row.size = up[u].size /\ row.id = uuid
  OBVIOUS
<1> HIDE DEF row
<1>3. files' = files \cup {row}
  BY <1>1, <1>2 DEF InsertFile
<1>4. up'[u] = Idle \/ (up'[u].at = "mark" /\ up'[u].bucket = up[u].bucket)
  BY <1>1 DEF EndPart, BeginPart, RequestsTypeOK
<1>5. ~Versions(u)' /\ ~Plain(u)'
  BY <1>4 DEF Versions, Plain
<1>6. /\ \A f \in files : f.id < row.id /\ f.id \in Nat
      /\ uuid \in Nat
  BY <1>2 DEF Steady, Rows, FileIds, FileRows
<1>7. \A f \in files : f.bucket = row.bucket /\ f.name = row.name => ~f.latest
  <2> SUFFICES ASSUME NEW f \in files, f.bucket = row.bucket, f.name = row.name
               PROVE  ~f.latest
    OBVIOUS
  <2>1. LatestOf(u) = {} \/ RowsOf(up[u].bucket.id, up[u].key) = {}
    BY <1>1 DEF Steady, Progress, UploadAlone, Versions, Plain
  <2>2. QED
    BY <1>2, <2>1 DEF LatestOf, RowsOf
<1>8. ASSUME NEW b \in buckets, ~b.versioning, row.bucket = b.id
      PROVE  /\ b = up[u].bucket /\ Plain(u)
             /\ \A f \in files : f.bucket = b.id => f.name # row.name
             /\ Serves(b, row)
  <2>1. b = up[u].bucket
    BY <1>1, <1>2, <1>8 DEF VersionedInv, OneRowPerId
  <2>2. Plain(u)
    BY <1>1, <1>8, <2>1 DEF Plain
  <2>3. \A f \in files : f.bucket = b.id => f.name # row.name
    BY <1>1, <1>2, <1>8, <2>2 DEF Steady, Progress, UploadAlone, RowsOf
  <2>4. UploadPath(u) \in DOMAIN disk /\ disk[UploadPath(u)] = up[u].size
    BY <1>1, <2>2 DEF Steady, Progress, UploadAlone
  <2>5. QED
    BY <1>2, <1>8, <2>1, <2>2, <2>3, <2>4 DEF Serves, UploadPath, BlobPath
<1>9. Rows'
  <2>1. BucketNames' /\ AllLatest' /\ UniqueName'
    BY <1>1, <1>2, <1>3, <1>8 DEF Steady, Rows, BucketNames, AllLatest, UniqueName
  <2>2. FileIds'
    BY <1>1, <1>2, <1>3, <1>6 DEF Steady, Rows, FileIds
  <2>3. LatestIsNewest'
    BY <1>2, <1>3, <1>6, <1>7 DEF Steady, Rows, LatestIsNewest, IsNewest, RowsOf
  <2>4. QED
    BY <2>1, <2>2, <2>3 DEF Rows
<1>10. NewestIsLatest'
  <2> SUFFICES ASSUME NEW f \in files, IsNewest(f, RowsOf(f.bucket, f.name)')
               PROVE  f.latest
    BY <1>2, <1>3 DEF NewestIsLatest
  <2>1. ~(f.bucket = row.bucket /\ f.name = row.name)
    BY <1>2, <1>3, <1>6 DEF IsNewest, RowsOf
  <2>2. IsNewest(f, RowsOf(f.bucket, f.name)) /\ ~Demoted(f)
    BY <1>2, <1>3, <2>1 DEF IsNewest, RowsOf, Demoted, OnlyUpload, Versions
  <2>3. QED
    BY <2>2 DEF Steady, NewestIsLatest
<1>11. PlainServed'
  <2>1. \A d \in Deleters : del[d] = Idle
    BY DEF OnlyUpload
  <2>2. QED
    BY <1>1, <1>3, <1>8, <2>1 DEF Steady, PlainServed, Serves
<1>12. PlainHasRow'
  <2> SUFFICES ASSUME NEW path \in DOMAIN disk, path[3] = NoVersion
               PROVE  \E b \in buckets, f \in files' :
                        /\ ~b.versioning /\ b.name = path[1]
                        /\ f.bucket = b.id /\ f.name = path[2]
    BY <1>1 DEF PlainHasRow
  <2>1. CASE Plain(u) /\ path = UploadPath(u)
    <3>1. /\ ~up[u].bucket.versioning /\ up[u].bucket.name = path[1]
          /\ up[u].key = path[2]
      BY <2>1 DEF Plain, UploadPath, BlobPath, PlainPath
    <3>2. QED
      BY <1>1, <1>2, <1>3, <3>1
  <2>2. CASE ~(Plain(u) /\ path = UploadPath(u))
    <3>1. \A w \in Uploaders : Plain(w) => path # UploadPath(w)
      BY <2>2 DEF OnlyUpload, Plain
    <3>2. QED
      BY <1>3, <3>1 DEF Steady, PlainHasRow
  <2>3. QED
    BY <2>1, <2>2
<1>13. Progress'
  BY <1>1, <1>4, <1>5 DEF OnlyUpload, Progress, UploadAlone, DeleteAlone, DropAlone
<1>14. QED
  BY <1>9, <1>10, <1>11, <1>12, <1>13 DEF Steady

\* The steps of an upload
LEMMA UploadStepKeepsSteady ==
  ASSUME SerialTypeInv, Steady, NEW u \in Uploaders, OnlyUpload(u), OnlyUpload(u)',
         UploadStep(u)
  PROVE  Steady'
<1> USE DEF SerialTypeInv
<1>1. CASE Upload(u)
  <2>1. /\ up[u] = Idle /\ UNCHANGED storeVars
        /\ up'[u].at = "mark" /\ up'[u].bucket \in buckets
    BY <1>1 DEF Upload, Owned, BeginPart, TypeOK, RequestsTypeOK
  <2>2. QED
    BY <2>1, BeginKeepsSteady DEF Versions, Plain
<1>2. CASE DemoteLatest(u)
  BY <1>2, DemoteKeepsSteady
<1>3. CASE CheckFree(u)
  <2>1. /\ up[u].at = "mark" /\ up[u] # Idle /\ up[u].bucket \in buckets
        /\ ~up[u].bucket.versioning /\ UNCHANGED <<buckets, files, disk>>
    BY <1>3 DEF CheckFree, Idle, Steady, Progress, UploadAlone
  <2>2. CASE EndPart(u) /\ UNCHANGED uuid
    <3>1. up'[u] = Idle \/ (up'[u].at = "mark" /\ up'[u].bucket = up[u].bucket)
      BY <2>2 DEF EndPart, BeginPart, TypeOK, RequestsTypeOK
    <3>2. QED
      BY <2>1, <2>2, <3>1, BeginKeepsSteady DEF storeVars, Versions, Plain
  <2>3. CASE /\ LatestOf(u) = {}
             /\ \E version \in {NoVersion, uuid} :
                  /\ up' = [up EXCEPT ![u].at = "save", ![u].version = version]
                  /\ uuid' = IF version = uuid THEN uuid + 1 ELSE uuid
    <3>1. uuid <= uuid'
      BY <2>3 DEF TypeOK, StoreTypeOK
    <3>2. QED
      BY <2>1, <2>3, <3>1, FreeKeepsSteady
  <2>4. QED
    BY <1>3, <2>2, <2>3 DEF CheckFree, Ignored, OneByOne
<1>4. CASE SaveFile(u)
  BY <1>4, SaveKeepsSteady
<1>5. CASE InsertRow(u)
  BY <1>5, InsertKeepsSteady
<1>6. ~UploadAborts(u)
  BY DEF UploadAborts, Abort, OneByOne
<1>7. QED
  BY <1>1, <1>2, <1>3, <1>4, <1>5, <1>6 DEF UploadStep

-----------------------------------------------------------------------------
(* The steps of DeleteFile *)

\* The fields a step of it leaves alone
LEMMA DeleteGoesOn ==
  ASSUME NEW r \in Deletes, NEW at, NEW target
  PROVE  /\ LET s == [r EXCEPT !.at = at]
            IN  /\ s.at = at /\ s.bucket = r.bucket /\ s.row = r.row
                /\ s.target = r.target
         /\ LET s == [r EXCEPT !.at = at, !.target = target]
            IN  /\ s.at = at /\ s.bucket = r.bucket /\ s.row = r.row
                /\ s.target = target
  BY DEF Deletes

\* Reading the row, ending, or looking for the newest of the other rows
LEMMA LookKeepsSteady ==
  ASSUME SerialTypeInv, Steady, NEW d \in Deleters, OnlyDelete(d), OnlyDelete(d)',
         Delete(d) \/ FindNewest(d)
  PROVE  Steady'
<1> USE DEF SerialTypeInv, TypeOK, StoreTypeOK, storeVars
<1>1. CASE Delete(d)
  <2>1. PICK b \in buckets, f \in files :
          /\ f.bucket = b.id
          /\ del' = [del EXCEPT ![d] = [at |-> "remove", bucket |-> b,
                                        row |-> f, target |-> 0]]
    BY <1>1 DEF Delete, Owned, RowsOf
  <2>2. /\ del[d] = Idle /\ UNCHANGED <<buckets, files, disk, uuid>>
        /\ del'[d].at = "remove" /\ del'[d].bucket = b /\ del'[d].row = f
    BY <1>1, <2>1 DEF Delete, RequestsTypeOK
  <2>3. Progress'
    BY <2>1, <2>2 DEF OnlyDelete, Progress, UploadAlone, DeleteAlone, DropAlone
  <2>4. \A g \in files : ~Demoted(g)
    BY <2>2 DEF OnlyDelete, Demoted, Versions
  <2>5. /\ \A e \in Deleters : del[e] = Idle
        /\ \A u \in Uploaders : ~Plain(u)
    BY <2>2 DEF OnlyDelete, Plain
  <2>6. QED
    BY <2>2, <2>3, <2>4, <2>5, ReadKeepsSteady
<1>2. CASE FindNewest(d)
  <2>1. /\ del[d].at = "newest" /\ del[d] # Idle /\ del[d] \in Deletes
        /\ del[d].bucket \in buckets /\ del[d].bucket.versioning
        /\ \A f \in Remaining(d) : ~f.latest
        /\ UNCHANGED <<buckets, files, disk, uuid>>
    BY <1>2 DEF FindNewest, Idle, RequestsTypeOK, Steady, Progress, DeleteAlone
  <2>2. /\ \A e \in Deleters : del[e] # Idle => e = d
        /\ \A u \in Uploaders : ~Plain(u) /\ ~Versions(u)
    BY DEF OnlyDelete, Plain, Versions
  <2>3. CASE Remaining(d) = {} /\ del' = [del EXCEPT ![d] = Idle]
    <3>1. Progress'
      BY <2>3 DEF OnlyDelete, Progress, UploadAlone, DeleteAlone, DropAlone,
                  RequestsTypeOK
    <3>2. \A f \in files : ~Demoted(f)
      BY <2>2, <2>3 DEF Demoted, Remaining, RowsOf
    <3>3. QED
      BY <2>1, <2>2, <3>1, <3>2, ReadKeepsSteady
  <2>4. CASE \E f \in files :
               /\ IsNewest(f, Remaining(d))
               /\ del' = [del EXCEPT ![d].at = "promote", ![d].target = f.id]
    <3>1. PICK f \in files :
            /\ IsNewest(f, Remaining(d))
            /\ del' = [del EXCEPT ![d].at = "promote", ![d].target = f.id]
      BY <2>4
    <3>2. del'[d] = [del[d] EXCEPT !.at = "promote", !.target = f.id]
      BY <3>1 DEF RequestsTypeOK
    <3>3. /\ del'[d].at = "promote" /\ del'[d].bucket = del[d].bucket
          /\ del'[d].row = del[d].row /\ del'[d].target = f.id
      BY ONLY <2>1, <3>2, DeleteGoesOn
    <3>4. del'[d] # Idle
      BY <3>3 DEF Idle
    <3>5. Remaining(d)' = Remaining(d)
      BY <2>1, <3>3 DEF Remaining, RowsOf
    <3>6. IsNewest(f, Remaining(d)')
      BY <3>1, <3>5
    <3>7. DeleteAlone'
      <4>1. ASSUME NEW e \in Deleters, del'[e] # Idle
            PROVE  e = d
        BY <4>1 DEF OnlyDelete
      <4>2. del'[d].bucket \in buckets' /\ del'[d].bucket.versioning
        BY ONLY <2>1, <3>3
      <4>3. \A g \in Remaining(d)' : ~g.latest
        BY ONLY <2>1, <3>5
      <4>4. f \in files' /\ f.id = del'[d].target
        BY ONLY <2>1, <3>3, f \in files
      <4>5. QED
        BY ONLY <3>3, <3>6, <4>1, <4>2, <4>3, <4>4 DEF DeleteAlone
    <3>8. Progress'
      BY <3>7 DEF OnlyDelete, Progress, UploadAlone, DropAlone
    <3>9. \A g \in files : Demoted(g) => Demoted(g)'
      BY ONLY <2>2, <3>3, <3>4 DEF Demoted
    <3>10. QED
      BY <2>1, <2>2, <3>8, <3>9, ReadKeepsSteady
  <2>5. QED
    BY <1>2, <2>3, <2>4 DEF FindNewest
<1>3. QED
  BY <1>1, <1>2

\* Removing the file: only the row being deleted loses it
LEMMA RemoveKeepsSteady ==
  ASSUME SerialTypeInv, Steady, NEW d \in Deleters, OnlyDelete(d), OnlyDelete(d)',
         RemoveFile(d)
  PROVE  Steady'
<1> USE DEF SerialTypeInv, TypeOK, StoreTypeOK
<1>0. del[d] \in Deletes /\ del'[d] = [del[d] EXCEPT !.at = "row"]
  BY DEF RemoveFile, RequestsTypeOK, Idle
<1>1. /\ del[d] # Idle /\ del[d].at = "remove" /\ del[d].bucket \in buckets
      /\ del[d].row \in files /\ del[d].row.bucket = del[d].bucket.id
      /\ RemoveBlob(PlainPath(del[d].bucket, del[d].row.name))
      /\ UNCHANGED <<buckets, files, uuid>>
  BY DEF RemoveFile, Idle, Steady, Progress, DeleteAlone
<1>2. /\ del'[d].at = "row" /\ del'[d].bucket = del[d].bucket
      /\ del'[d].row = del[d].row /\ del'[d] # Idle
  <2>1. /\ del'[d].at = "row" /\ del'[d].bucket = del[d].bucket
        /\ del'[d].row = del[d].row
    BY ONLY <1>0, DeleteGoesOn
  <2>2. QED
    BY <2>1 DEF Idle
<1>3. Rows'
  BY <1>1 DEF Steady, Rows, BucketNames, FileIds, AllLatest, UniqueName,
              LatestIsNewest, IsNewest, RowsOf
<1>4. NewestIsLatest'
  <2>1. \A f \in files : ~Demoted(f)
    BY <1>1 DEF OnlyDelete, Demoted, Versions
  <2>2. QED
    BY <1>1, <2>1 DEF Steady, NewestIsLatest, IsNewest, RowsOf
<1>5. PlainServed'
  <2> SUFFICES ASSUME NEW b \in buckets, NEW f \in files, ~b.versioning,
                      f.bucket = b.id, f # del[d].row
               PROVE  Serves(b, f)'
    BY <1>1, <1>2 DEF PlainServed
  <2>1. Serves(b, f)
    BY <1>1 DEF Steady, PlainServed, OnlyDelete
  <2>2. PlainPath(b, f.name) # PlainPath(del[d].bucket, del[d].row.name)
    <3>1. b.name = del[d].bucket.name => b = del[d].bucket
      BY <1>1 DEF Steady, Rows, BucketNames
    <3>2. b = del[d].bucket => f.name # del[d].row.name
      BY <1>1 DEF Steady, Rows, UniqueName
    <3>3. QED
      BY <3>1, <3>2 DEF PlainPath
  <2>3. QED
    BY <1>1, <2>1, <2>2 DEF Serves, BlobPath, RemoveBlob
<1>6. PlainHasRow'
  <2>1. \A u \in Uploaders : ~Plain(u)
    BY DEF OnlyDelete, Plain
  <2>2. QED
    BY <1>1, <2>1 DEF RemoveBlob, Steady, PlainHasRow
<1>7. Progress'
  <2>1. PlainPath(del[d].bucket, del[d].row.name)' \notin DOMAIN disk'
    BY <1>1, <1>2 DEF RemoveBlob, PlainPath
  <2>2. DeleteAlone'
    BY ONLY <1>1, <1>2, <2>1, OnlyDelete(d)' DEF OnlyDelete, DeleteAlone
  <2>3. QED
    BY <2>2 DEF OnlyDelete, Progress, UploadAlone, DropAlone
<1>8. QED
  BY <1>3, <1>4, <1>5, <1>6, <1>7 DEF Steady

\* Deleting the row.  In a versioned bucket the latest row leaves its name
\* without one, any other leaves the newest where it was
LEMMA DeleteRowKeepsSteady ==
  ASSUME SerialTypeInv, Steady, NEW d \in Deleters, OnlyDelete(d), OnlyDelete(d)',
         DeleteRow(d)
  PROVE  Steady'
<1> USE DEF SerialTypeInv, TypeOK, StoreTypeOK
<1> DEFINE b == del[d].bucket
           row == del[d].row
<1>1. /\ del[d] # Idle /\ del[d] \in Deletes /\ del[d].at = "row"
      /\ b \in buckets /\ row \in files /\ row.bucket = b.id
      /\ ~b.versioning => PlainPath(b, row.name) \notin DOMAIN disk
      /\ DropFile(row.id) /\ UNCHANGED <<buckets, disk, uuid>>
  BY DEF DeleteRow, Idle, RequestsTypeOK, Steady, Progress, DeleteAlone
<1>2. files' = files \ {row}
  BY <1>1 DEF DropFile, Steady, Rows, FileIds
<1>3. \/ /\ b.versioning /\ row.latest
         /\ del'[d] # Idle /\ del'[d].at = "newest" /\ del'[d].bucket = b
         /\ del'[d].row = row
      \/ ~(b.versioning /\ row.latest) /\ del'[d] = Idle
  <2>1. CASE b.versioning /\ row.latest
    <3>1. del'[d] = [del[d] EXCEPT !.at = "newest"]
      BY <2>1 DEF DeleteRow, RequestsTypeOK
    <3>2. del'[d].at = "newest" /\ del'[d].bucket = b /\ del'[d].row = row
      BY ONLY <1>1, <3>1, DeleteGoesOn
    <3>3. QED
      BY <2>1, <3>2 DEF Idle
  <2>2. CASE ~(b.versioning /\ row.latest)
    BY <2>2 DEF DeleteRow, RequestsTypeOK
  <2>3. QED
    BY <2>1, <2>2
<1>4. \A f \in files : f.id \in Nat
  BY DEF FileRows
<1>5. Rows'
  BY <1>1, <1>2 DEF Steady, Rows, BucketNames, FileIds, AllLatest, UniqueName,
                    LatestIsNewest, IsNewest, RowsOf
<1>6. NewestIsLatest'
  <2> SUFFICES ASSUME NEW f \in files, f # row, IsNewest(f, RowsOf(f.bucket, f.name)'),
                      ~Demoted(f)'
               PROVE  f.latest
    BY <1>2 DEF NewestIsLatest
  <2>1. \A g \in files : ~Demoted(g)
    BY <1>1 DEF OnlyDelete, Demoted, Versions
  <2>2. CASE ~(f.bucket = b.id /\ f.name = row.name)
    <3>1. IsNewest(f, RowsOf(f.bucket, f.name))
      BY <1>1, <1>2, <2>2 DEF IsNewest, RowsOf
    <3>2. QED
      BY <2>1, <3>1 DEF Steady, NewestIsLatest
  <2>3. CASE f.bucket = b.id /\ f.name = row.name
    <3>1. ~row.latest /\ b.versioning
      <4>1. b.versioning
        BY <1>1, <2>3 DEF Steady, Rows, UniqueName
      <4>2. CASE row.latest
        <5>1. Demoted(f)'
          BY <1>3, <2>3, <4>1, <4>2 DEF Demoted
        <5>2. QED
          BY <5>1
      <4>3. QED
        BY <4>1, <4>2
    <3>2. ~IsNewest(row, RowsOf(row.bucket, row.name))
      BY <1>1, <2>1, <3>1 DEF Steady, NewestIsLatest
    <3>3. PICK g \in files : /\ g.bucket = row.bucket /\ g.name = row.name
                            /\ ~(g.id <= row.id)
      BY <1>1, <3>2 DEF IsNewest, RowsOf
    <3>4. g # row /\ g.id <= f.id
      BY <1>1, <1>2, <1>4, <2>3, <3>3 DEF IsNewest, RowsOf
    <3>5. IsNewest(f, RowsOf(f.bucket, f.name))
      <4>1. row.id <= f.id
        BY <1>1, <1>4, <3>3, <3>4
      <4>2. QED
        BY <1>2, <4>1 DEF IsNewest, RowsOf
    <3>6. QED
      BY <2>1, <3>5 DEF Steady, NewestIsLatest
  <2>4. QED
    BY <2>2, <2>3
<1>7. PlainServed'
  <2>1. \A c \in buckets, f \in files : ~c.versioning /\ f.bucket = c.id /\ f # row =>
          Serves(c, f)
    BY <1>1 DEF Steady, PlainServed, OnlyDelete
  <2>2. QED
    BY <1>1, <1>2, <2>1 DEF PlainServed, Serves
<1>8. PlainHasRow'
  <2> SUFFICES ASSUME NEW path \in DOMAIN disk, path[3] = NoVersion
               PROVE  \E c \in buckets, f \in files' :
                        /\ ~c.versioning /\ c.name = path[1]
                        /\ f.bucket = c.id /\ f.name = path[2]
    BY <1>1 DEF PlainHasRow
  <2>1. \A u \in Uploaders : ~Plain(u)
    BY DEF OnlyDelete, Plain
  <2>2. PICK c \in buckets, f \in files : /\ ~c.versioning /\ c.name = path[1]
                                         /\ f.bucket = c.id /\ f.name = path[2]
    BY <2>1 DEF Steady, PlainHasRow
  <2>3. f # row
    <3>1. SUFFICES ASSUME f = row PROVE FALSE
      OBVIOUS
    <3>2. c = b
      BY <1>1, <2>2, <3>1 DEF VersionedInv, OneRowPerId
    <3>3. path = PlainPath(b, row.name)
      BY <2>2, <3>1, <3>2 DEF PlainPath, Paths
    <3>4. QED
      BY <1>1, <2>2, <3>2, <3>3
  <2>4. QED
    BY <1>2, <2>2, <2>3
<1>9. Progress'
  <2>1. DeleteAlone'
    <3>1. CASE del'[d] = Idle
      BY <3>1 DEF OnlyDelete, DeleteAlone
    <3>2. CASE del'[d] # Idle
      <4>1. /\ b.versioning /\ row.latest /\ del'[d].at = "newest"
            /\ del'[d].bucket = b /\ del'[d].row = row
        BY <1>3, <3>2
      <4>2. ASSUME NEW f \in files', f.bucket = b.id, f.name = row.name
            PROVE  ~f.latest
        <5>1. SUFFICES ASSUME f.latest PROVE FALSE
          OBVIOUS
        <5>2. f \in files /\ f # row
          BY <1>2
        <5>3. f.id <= row.id /\ row.id <= f.id
          BY <1>1, <4>1, <4>2, <5>1, <5>2 DEF Steady, Rows, LatestIsNewest, IsNewest,
                                              RowsOf
        <5>4. f.id = row.id
          BY <1>1, <1>4, <5>2, <5>3
        <5>5. QED
          BY <1>1, <5>2, <5>4 DEF Steady, Rows, FileIds
      <4>3. \A f \in Remaining(d)' : ~f.latest
        BY <4>1, <4>2 DEF Remaining, RowsOf
      <4>4. QED
        BY ONLY <1>1, <4>1, <4>3, OnlyDelete(d)' DEF OnlyDelete, DeleteAlone
    <3>3. QED
      BY <3>1, <3>2
  <2>2. QED
    BY <2>1 DEF OnlyDelete, Progress, UploadAlone, DropAlone
<1>10. QED
  BY <1>5, <1>6, <1>7, <1>8, <1>9 DEF Steady

\* Promoting the newest of the rows that are left
LEMMA PromoteKeepsSteady ==
  ASSUME SerialTypeInv, Steady, NEW d \in Deleters, OnlyDelete(d), OnlyDelete(d)',
         PromoteNewest(d)
  PROVE  Steady'
<1> USE DEF SerialTypeInv, TypeOK, StoreTypeOK
<1> DEFINE b == del[d].bucket
           key == del[d].row.name
<1>1. /\ del[d] # Idle /\ del[d].at = "promote"
      /\ b \in buckets /\ b.versioning /\ \A f \in Remaining(d) : ~f.latest
      /\ UNCHANGED <<buckets, disk, uuid>> /\ del'[d] = Idle
  BY DEF PromoteNewest, Idle, RequestsTypeOK, Steady, Progress, DeleteAlone
<1>2. SetLatest({f \in files : f.id = del[d].target}, TRUE)
  BY DEF PromoteNewest, Ignored, OneByOne
<1>3. PICK new \in files : new.id = del[d].target /\ IsNewest(new, Remaining(d))
  BY <1>1 DEF Steady, Progress, DeleteAlone
<1>4. new.bucket = b.id /\ new.name = key
  BY <1>3 DEF IsNewest, Remaining, RowsOf
<1> DEFINE promoted == [new EXCEPT !.latest = TRUE]
<1>5. /\ promoted.id = new.id /\ promoted.bucket = new.bucket
      /\ promoted.name = new.name /\ promoted.latest
  BY DEF FileRows
<1>6. files' = (files \ {new}) \cup {promoted}
  <2>1. \A f \in files : f.id = del[d].target <=> f = new
    BY <1>3 DEF Steady, Rows, FileIds
  <2>2. files' = {IF f = new THEN promoted ELSE f : f \in files}
    BY <1>2, <2>1 DEF SetLatest
  <2>3. QED
    BY ONLY <2>2, new \in files
<1> HIDE DEF promoted
<1>7. \A f \in files' : \E g \in files :
        /\ f.id = g.id /\ f.bucket = g.bucket /\ f.name = g.name
        /\ \/ f = promoted /\ g = new
           \/ f = g /\ f # new
  BY <1>5, <1>6
<1>8. \A g \in files : \E f \in files' :
        f.id = g.id /\ f.bucket = g.bucket /\ f.name = g.name
  BY <1>5, <1>6
<1>9. ASSUME NEW f \in files', NEW g \in files,
             f.id = g.id, f.bucket = g.bucket, f.name = g.name
      PROVE  IsNewest(g, RowsOf(g.bucket, g.name)) <=> IsNewest(f, RowsOf(f.bucket, f.name)')
  BY ONLY <1>7, <1>8, <1>9 DEF IsNewest, RowsOf
<1>10. IsNewest(new, RowsOf(new.bucket, new.name))
  BY <1>3, <1>4 DEF Remaining
<1>11. \A f \in files : f.bucket = b.id /\ f.name = key => ~f.latest
  BY <1>1 DEF Remaining, RowsOf
<1>12. \A c \in buckets, f \in files : ~c.versioning /\ f.bucket = c.id => f # new
  BY <1>1, <1>4 DEF VersionedInv, OneRowPerId
<1>13. \A c \in buckets, f \in files' : ~c.versioning /\ f.bucket = c.id => f \in files
  BY <1>5, <1>6, <1>12
<1>14. Rows'
  <2> USE DEF Steady, Rows
  <2>1. BucketNames' /\ AllLatest' /\ UniqueName'
    BY <1>1, <1>13 DEF BucketNames, AllLatest, UniqueName
  <2>2. FileIds'
    BY <1>1, <1>5, <1>6, <1>7 DEF FileIds
  <2>3. LatestIsNewest'
    <3> SUFFICES ASSUME NEW f \in files', f.latest
                 PROVE  IsNewest(f, RowsOf(f.bucket, f.name)')
      BY DEF LatestIsNewest
    <3>1. CASE f = promoted
      BY <1>5, <1>9, <1>10, <3>1
    <3>2. CASE f # promoted
      BY <1>6, <1>9, <3>2 DEF LatestIsNewest
    <3>3. QED
      BY <3>1, <3>2
  <2>4. QED
    BY <2>1, <2>2, <2>3
<1>15. NewestIsLatest'
  <2> SUFFICES ASSUME NEW f \in files', IsNewest(f, RowsOf(f.bucket, f.name)')
               PROVE  f.latest
    BY DEF NewestIsLatest
  <2>1. CASE f = promoted
    BY <1>5, <2>1
  <2>2. CASE f # promoted
    <3>1. f \in files /\ f # new /\ IsNewest(f, RowsOf(f.bucket, f.name))
      BY <1>6, <1>9, <2>2
    <3>2. CASE f.bucket = b.id /\ f.name = key
      <4>1. f.id = new.id
        BY <1>4, <1>10, <3>1, <3>2 DEF IsNewest, RowsOf, FileRows
      <4>2. QED
        BY <3>1, <4>1 DEF Steady, Rows, FileIds
    <3>3. CASE ~(f.bucket = b.id /\ f.name = key)
      <4>1. ~Demoted(f)
        BY <3>3 DEF Demoted, OnlyDelete, Versions
      <4>2. QED
        BY <3>1, <4>1 DEF Steady, NewestIsLatest
    <3>4. QED
      BY <3>2, <3>3
  <2>3. QED
    BY <2>1, <2>2
<1>16. PlainServed'
  <2>1. \A c \in buckets, f \in files : ~c.versioning /\ f.bucket = c.id => Serves(c, f)
    BY <1>1 DEF Steady, PlainServed, OnlyDelete
  <2>2. QED
    BY <1>1, <1>13, <2>1 DEF PlainServed, Serves
<1>17. PlainHasRow'
  <2>1. \A u \in Uploaders : ~Plain(u)
    BY DEF OnlyDelete, Plain
  <2>2. QED
    BY <1>1, <1>6, <1>12, <2>1 DEF Steady, PlainHasRow
<1>18. Progress'
  BY <1>1 DEF OnlyDelete, Progress, UploadAlone, DeleteAlone, DropAlone
<1>19. QED
  BY <1>14, <1>15, <1>16, <1>17, <1>18 DEF Steady

\* The steps of DeleteFile
LEMMA DeleteStepKeepsSteady ==
  ASSUME SerialTypeInv, Steady, NEW d \in Deleters, OnlyDelete(d), OnlyDelete(d)',
         DeleteStep(d)
  PROVE  Steady'
<1>1. ~DeleteAborts(d)
  BY DEF DeleteAborts, Abort, SerialTypeInv, OneByOne
<1>2. QED
  BY <1>1, LookKeepsSteady, RemoveKeepsSteady, DeleteRowKeepsSteady,
     PromoteKeepsSteady DEF DeleteStep

-----------------------------------------------------------------------------
(* The steps of CreateBucket and DeleteBucket *)

\* A new bucket has a name and an id of its own
LEMMA CreateStepKeepsSteady ==
  ASSUME SerialTypeInv, Steady, NEW c \in Creators, OnlyCreate(c), OnlyCreate(c)',
         CreateStep(c)
  PROVE  Steady'
<1> USE DEF SerialTypeInv, TypeOK, StoreTypeOK, storeVars
<1>1. Progress'
  BY DEF OnlyCreate, Progress, UploadAlone, DeleteAlone, DropAlone
<1>2. /\ \A f \in files : ~Demoted(f)
      /\ \A d \in Deleters : del[d] = Idle
      /\ \A u \in Uploaders : ~Plain(u)
  BY DEF OnlyCreate, Demoted, Versions, Plain
<1>3. CASE Create(c)
  BY <1>1, <1>2, <1>3, ReadKeepsSteady DEF Create
<1>4. CASE InsertBucketRow(c)
  <2>1. PICK row : /\ InsertBucket(row) /\ row.id = uuid /\ uuid' = uuid + 1
                   /\ UNCHANGED <<files, disk>>
    BY <1>4 DEF InsertBucketRow
  <2>2. /\ buckets' \subseteq buckets \cup {row} /\ buckets \subseteq buckets'
        /\ buckets' # buckets => \A b \in buckets : b.name # row.name
    BY <2>1 DEF InsertBucket
  <2>3. \A f \in files : f.bucket # row.id
    BY <2>1 DEF VersionedInv, Drawn, FileRows
  <2>4. Rows'
    BY <2>1, <2>2, <2>3 DEF Steady, Rows, BucketNames, FileIds, AllLatest, UniqueName,
                            LatestIsNewest, IsNewest, RowsOf, FileRows
  <2>5. NewestIsLatest'
    BY <1>2, <2>1 DEF Steady, NewestIsLatest, IsNewest, RowsOf
  <2>6. PlainServed'
    BY <1>2, <2>1, <2>2, <2>3 DEF Steady, PlainServed, Serves
  <2>7. PlainHasRow'
    BY <1>2, <2>1, <2>2 DEF Steady, PlainHasRow
  <2>8. QED
    BY <1>1, <2>4, <2>5, <2>6, <2>7 DEF Steady
<1>5. ~CreateAborts(c)
  BY DEF CreateAborts, Abort, OneByOne
<1>6. QED
  BY <1>3, <1>4, <1>5 DEF CreateStep

\* A bucket is deleted when it has been found empty, and nothing came between
LEMMA DropStepKeepsSteady ==
  ASSUME SerialTypeInv, Steady, NEW x \in Droppers, OnlyDrop(x), OnlyDrop(x)',
         DropStep(x)
  PROVE  Steady'
<1> USE DEF SerialTypeInv, TypeOK, StoreTypeOK, storeVars
<1>1. /\ \A f \in files : ~Demoted(f)
      /\ \A d \in Deleters : del[d] = Idle
      /\ \A u \in Uploaders : ~Plain(u)
  BY DEF OnlyDrop, Demoted, Versions, Plain
<1>2. CASE Drop(x)
  <2>1. drop'[x].at = "count"
    BY <1>2 DEF Drop, RequestsTypeOK
  <2>2. Progress'
    BY <2>1 DEF OnlyDrop, Progress, UploadAlone, DeleteAlone, DropAlone
  <2>3. QED
    BY <1>1, <1>2, <2>2, ReadKeepsSteady DEF Drop
<1>3. CASE CountFiles(x)
  <2>1. \/ drop'[x] = Idle
        \/ FilesIn(drop[x].bucket) = {} /\ drop'[x].bucket = drop[x].bucket
    BY <1>3 DEF CountFiles, Ignored, OneByOne, RequestsTypeOK, Drops, Idle
  <2>2. Progress'
    BY <1>3, <2>1 DEF CountFiles, FilesIn, OnlyDrop, Progress, UploadAlone,
                      DeleteAlone, DropAlone
  <2>3. QED
    BY <1>1, <1>3, <2>2, ReadKeepsSteady DEF CountFiles
<1>4. CASE DeleteBucketRow(x)
  <2>1. /\ drop[x] # Idle /\ DropBucket(drop[x].bucket.id)
        /\ UNCHANGED <<disk, uuid>> /\ drop'[x] = Idle
    BY <1>4 DEF DeleteBucketRow, Idle, RequestsTypeOK
  <2>2. \A f \in files : f.bucket # drop[x].bucket.id
    BY <1>4, <2>1 DEF DeleteBucketRow, Steady, Progress, DropAlone, FilesIn
  <2>3. /\ buckets' \subseteq buckets /\ files' = files
        /\ \A b \in buckets : b.id # drop[x].bucket.id => b \in buckets'
    BY <2>1, <2>2 DEF DropBucket
  <2>4. Rows'
    BY <2>1, <2>3 DEF Steady, Rows, BucketNames, FileIds, AllLatest, UniqueName,
                      LatestIsNewest, IsNewest, RowsOf
  <2>5. NewestIsLatest' /\ PlainServed'
    BY <1>1, <2>1, <2>3 DEF Steady, NewestIsLatest, IsNewest, RowsOf, PlainServed,
                            Serves
  <2>6. PlainHasRow'
    BY <1>1, <2>1, <2>2, <2>3 DEF Steady, PlainHasRow
  <2>7. Progress'
    BY <2>1 DEF OnlyDrop, Progress, UploadAlone, DeleteAlone, DropAlone
  <2>8. QED
    BY <2>4, <2>5, <2>6, <2>7 DEF Steady
<1>5. ~DropAborts(x)
  BY DEF DropAborts, Abort, OneByOne
<1>6. QED
  BY <1>2, <1>3, <1>4, <1>5 DEF DropStep

-----------------------------------------------------------------------------
(* The theorems *)

\* SerialInv holds in every reachable state
LEMMA SerialInvariant ==
  ASSUME OneByOne
  PROVE  Spec => [](TypeOK /\ VersionedInv /\ SerialInv)
<1>1. Init => SerialInv
  BY DEF Init, StoreInit, SerialInv, OneRequest, Steady, Rows, BucketNames, FileIds,
         AllLatest, UniqueName, LatestIsNewest, NewestIsLatest, PlainServed,
         PlainHasRow, Progress, UploadAlone, DeleteAlone, DropAlone
<1>2. TypeOK /\ TypeOK' /\ VersionedInv /\ VersionedInv' /\ SerialInv /\ [Next]_vars
        => SerialInv'
  <2> SUFFICES ASSUME SerialTypeInv, OneRequest, Steady, [Next]_vars
               PROVE  OneRequest' /\ Steady'
    BY DEF SerialInv, SerialTypeInv
  <2> USE DEF SerialTypeInv
  <2>1. CASE \E u \in Uploaders : UploadStep(u)
    BY <2>1, UploadIsAlone, UploadStepKeepsSteady
  <2>2. CASE \E d \in Deleters : DeleteStep(d)
    BY <2>2, DeleteIsAlone, DeleteStepKeepsSteady
  <2>3. CASE \E c \in Creators : CreateStep(c)
    BY <2>3, CreateIsAlone, CreateStepKeepsSteady
  <2>4. CASE \E x \in Droppers : DropStep(x)
    BY <2>4, DropIsAlone, DropStepKeepsSteady
  <2>5. CASE UNCHANGED vars
    <3>1. OneRequest'
      BY <2>5 DEF vars, OneRequest
    <3>2. Progress'
      BY <2>5 DEF vars, Steady, Progress, UploadAlone, DeleteAlone, DropAlone,
                  Versions, Plain, LatestOf, RowsOf, UploadPath, Remaining, IsNewest,
                  FilesIn
    <3>3. \A f \in files : Demoted(f) => Demoted(f)'
      BY <2>5 DEF vars, Demoted, Versions
    <3>4. QED
      BY <2>5, <3>1, <3>2, <3>3, ReadKeepsSteady DEF vars, TypeOK, StoreTypeOK
  <2>6. QED
    BY <2>1, <2>2, <2>3, <2>4, <2>5 DEF Next
<1>3. QED
  BY <1>1, <1>2, TypeCorrect, VersionedInvariant, PTL DEF Spec

\* Of the rows of a name one at most is the latest, also half-way through a
\* request
THEOREM OneLatest ==
  ASSUME OneByOne
  PROVE  Spec => []AtMostOneLatest
<1>1. TypeOK /\ SerialInv => AtMostOneLatest
  <2> SUFFICES ASSUME TypeOK, SerialInv, NEW f \in files, NEW g \in files,
                      f.latest, g.latest, f.bucket = g.bucket, f.name = g.name
               PROVE  f = g
    BY DEF AtMostOneLatest
  <2>1. f.id <= g.id /\ g.id <= f.id
    BY DEF SerialInv, Steady, Rows, LatestIsNewest, IsNewest, RowsOf
  <2>2. f.id = g.id
    BY <2>1 DEF TypeOK, StoreTypeOK, FileRows
  <2>3. QED
    BY <2>2 DEF SerialInv, Steady, Rows, FileIds
<1>2. QED
  BY <1>1, SerialInvariant, PTL

\* Between requests DownloadFile answers with the content of the newest upload
\* of a name that is left
THEOREM NewestServed ==
  ASSUME OneByOne
  PROVE  Spec => []GetReturnsNewest
<1>1. TypeOK /\ VersionedInv /\ SerialInv => GetReturnsNewest
  <2> SUFFICES ASSUME TypeOK, VersionedInv, SerialInv, Quiet,
                      NEW b \in buckets, NEW key \in Keys
               PROVE  Download(b, key, NoVersion) =
                        {f.size : f \in {g \in files : IsNewest(g, RowsOf(b.id, key))}}
    BY DEF GetReturnsNewest
  <2>1. \A f \in files : ~Demoted(f)
    BY DEF Quiet, Demoted, Versions
  <2>2. ASSUME NEW f \in RowsOf(b.id, key)
        PROVE  f.latest <=> IsNewest(f, RowsOf(b.id, key))
    BY <2>1 DEF RowsOf, SerialInv, Steady, Rows, LatestIsNewest, NewestIsLatest
  <2>3. ASSUME NEW f \in RowsOf(b.id, key)
        PROVE  /\ BlobPath(b, key, f.version) \in DOMAIN disk
               /\ disk[BlobPath(b, key, f.version)] = f.size
    <3>1. f \in files /\ f.bucket = b.id /\ f.name = key
      BY DEF RowsOf
    <3>2. Serves(b, f)
      BY <3>1 DEF Quiet, SerialInv, Steady, PlainServed, VersionedInv,
                  VersionedBlobsIntact
    <3>3. QED
      BY <3>1, <3>2 DEF Serves
  <2>4. \A f : f \in Asked(b, key, NoVersion) <=>
               f \in {g \in files : IsNewest(g, RowsOf(b.id, key))}
    BY <2>2 DEF Asked, IsNewest, RowsOf
  <2>5. Asked(b, key, NoVersion) \subseteq RowsOf(b.id, key)
    BY DEF Asked
  <2>6. Download(b, key, NoVersion) = {f.size : f \in Asked(b, key, NoVersion)}
    BY <2>3, <2>5 DEF Download, Contents
  <2>7. QED
    BY <2>4, <2>6
<1>2. QED
  BY <1>1, SerialInvariant, PTL

\* ... and no file without version is left behind on disk
THEOREM NothingLeftBehind ==
  ASSUME OneByOne
  PROVE  Spec => []PlainFilesHaveRows
<1>1. SerialInv => PlainFilesHaveRows
  BY DEF SerialInv, Steady, PlainHasRow, PlainFilesHaveRows, Quiet, Plain
<1>2. QED
  BY <1>1, SerialInvariant, PTL
=============================================================================
