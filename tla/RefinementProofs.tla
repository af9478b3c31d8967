--------------------------- MODULE RefinementProofs ---------------------------
(***************************************************************************)
(* The handlers implement ObjectSpec: every step of every handler is one   *)
(* operation on the store that clients see, or none.  Two theorems say     *)
(* when.  With uploads that do not overlap each other, but overlap deletes *)
(* and bucket creations as they like and stop anywhere - and with no       *)
(* DeleteBucket, whose COUNT and DELETE are not one step.  And with one    *)
(* request at a time, all handlers.                                        *)
(***************************************************************************)
EXTENDS ObjectStoreRefinement, SerialProofs

-----------------------------------------------------------------------------
(* The store that clients see, statement by statement *)

\* The name of a bucket stands for its rows
LEMMA ViewOfBucket ==
  ASSUME BucketNames, NEW b \in buckets
  PROVE  b.name \in DOMAIN storeBar /\ storeBar[b.name] = BucketView(b)
<1>1. (CHOOSE c \in buckets : c.name = b.name) = b
  BY DEF BucketNames
<1>2. QED
  BY <1>1 DEF storeBar

\* Nothing is seen of a statement that changes no upload
LEMMA SameView ==
  ASSUME UNCHANGED buckets,
         \A b \in buckets, key \in Keys : Uploaded(b, key)' = Uploaded(b, key)
  PROVE  storeBar' = storeBar
<1>1. ASSUME NEW b \in buckets
      PROVE  BucketView(b)' = BucketView(b)
  BY DEF BucketView
<1>2. ASSUME NEW name \in {b.name : b \in buckets}
      PROVE  BucketView(CHOOSE b \in buckets : b.name = name)'
               = BucketView(CHOOSE b \in buckets : b.name = name)
  <2>1. PICK b \in buckets : b = CHOOSE c \in buckets : c.name = name
    OBVIOUS
  <2>2. BucketView(b)' = BucketView(b)
    BY <1>1
  <2>3. (CHOOSE c \in buckets : c.name = name)' = b
    BY <2>1
  <2>4. QED
    BY <2>1, <2>2, <2>3 DEF BucketView, Uploaded
<1>3. QED
  BY <1>2 DEF storeBar

\* A statement that changes the uploads of one name
LEMMA OneNameView ==
  ASSUME BucketNames, UNCHANGED buckets, NEW b \in buckets, NEW key \in Keys,
         NEW uploads, Uploaded(b, key)' = uploads,
         \A c \in buckets, k \in Keys :
           c # b \/ k # key => Uploaded(c, k)' = Uploaded(c, k)
  PROVE  storeBar' = [storeBar EXCEPT ![b.name].objects[key] = uploads]
<1> DEFINE changed == [storeBar EXCEPT ![b.name].objects[key] = uploads]
<1>1. BucketNames'
  BY DEF BucketNames
<1>2. \A c \in buckets : c.name \in DOMAIN storeBar /\ storeBar[c.name] = BucketView(c)
  BY ViewOfBucket
<1>3. ASSUME NEW c \in buckets
      PROVE  c.name \in DOMAIN storeBar' /\ storeBar'[c.name] = BucketView(c)'
  <2>1. (CHOOSE a \in buckets : a.name = c.name)' = c
    BY DEF BucketNames
  <2>2. QED
    BY <2>1 DEF storeBar, BucketView, Uploaded
<1>4. ASSUME NEW c \in buckets
      PROVE  storeBar'[c.name] = changed[c.name]
  <2>1. CASE c = b
    <3>1. changed[b.name] =
            [BucketView(b) EXCEPT !.objects = [BucketView(b).objects EXCEPT ![key] = uploads]]
      BY <1>2
    <3>2. BucketView(b)' =
            [versioning |-> b.versioning,
             objects |-> [k \in Keys |-> IF k = key THEN uploads ELSE Uploaded(b, k)]]
      BY DEF BucketView
    <3>3. [BucketView(b) EXCEPT !.objects = [BucketView(b).objects EXCEPT ![key] = uploads]] =
            [versioning |-> b.versioning,
             objects |-> [k \in Keys |-> IF k = key THEN uploads ELSE Uploaded(b, k)]]
      <4>1. ASSUME NEW v, NEW old, NEW new
            PROVE  /\ [versioning |-> v, objects |-> old].objects = old
                   /\ [[versioning |-> v, objects |-> old] EXCEPT !.objects = new]
                        = [versioning |-> v, objects |-> new]
        OBVIOUS
      <4>2. [[k \in Keys |-> Uploaded(b, k)] EXCEPT ![key] = uploads]
              = [k \in Keys |-> IF k = key THEN uploads ELSE Uploaded(b, k)]
        OBVIOUS
      <4>3. QED
        BY ONLY <4>1, <4>2 DEF BucketView
    <3>4. QED
      BY <1>3, <2>1, <3>1, <3>2, <3>3
  <2>2. CASE c # b
    <3>1. c.name # b.name
      BY <2>2 DEF BucketNames
    <3>2. BucketView(c)' = BucketView(c)
      BY <2>2 DEF BucketView
    <3>3. QED
      BY <1>2, <1>3, <3>1, <3>2
  <2>3. QED
    BY <2>1, <2>2
<1>5. \A n \in {c.name : c \in buckets} : storeBar'[n] = changed[n]
  BY <1>4
<1>6. /\ storeBar' = [n \in {c.name : c \in buckets} |-> storeBar'[n]]
      /\ changed = [n \in {c.name : c \in buckets} |-> changed[n]]
  <2>1. storeBar' = [n \in {c.name : c \in buckets} |-> storeBar'[n]]
    <3>1. storeBar' = [n \in {c.name : c \in buckets'} |->
                         BucketView(CHOOSE c \in buckets : c.name = n)']
      BY DEF storeBar
    <3>2. QED
      BY ONLY <3>1, UNCHANGED buckets
  <2>2. storeBar = [n \in {c.name : c \in buckets} |-> storeBar[n]]
    BY DEF storeBar
  <2>3. QED
    BY ONLY <2>1, <2>2
<1>7. QED
  BY ONLY <1>5, <1>6

\* What clients see of a bucket is the set of its uploads
LEMMA ViewOfUploads ==
  ASSUME BucketNames, NEW b \in buckets, NEW key \in Keys
  PROVE  /\ storeBar[b.name].versioning = b.versioning
         /\ storeBar[b.name].objects[key] = Uploaded(b, key)
<1>1. storeBar[b.name] = BucketView(b)
  BY ViewOfBucket
<1>2. QED
  BY <1>1 DEF BucketView

\* Inserting a row is a Put, ...
LEMMA InsertIsPut ==
  ASSUME TypeOK, BucketNames, OneRowPerId, UNCHANGED buckets, uuid' = uuid + 1,
         NEW b \in buckets, NEW row \in FileRows, row.id = uuid, row.bucket = b.id,
         files' = files \cup {row}, b.versioning \/ RowsOf(b.id, row.name) = {}
  PROVE  Abstract!Next
<1> USE DEF TypeOK, StoreTypeOK
<1>1. row.name \in Keys /\ row.size \in Sizes /\ b.name \in Names
  BY DEF FileRows, BucketRows
<1> DEFINE uploads == Uploaded(b, row.name) \cup {[time |-> uuid, size |-> row.size]}
<1>2. Uploaded(b, row.name)' = uploads
  BY DEF Uploaded, RowsOf
<1>3. ASSUME NEW c \in buckets, NEW key \in Keys, c # b \/ key # row.name
      PROVE  Uploaded(c, key)' = Uploaded(c, key)
  BY <1>3 DEF Uploaded, RowsOf, OneRowPerId
<1>4. storeBar' = [storeBar EXCEPT ![b.name].objects[row.name] = uploads]
  <2> HIDE DEF uploads
  <2>1. QED
    BY <1>1, <1>2, <1>3, OneNameView
<1>5. /\ storeBar[b.name].versioning = b.versioning
      /\ storeBar[b.name].objects[row.name] = Uploaded(b, row.name)
      /\ b.name \in DOMAIN storeBar
  BY <1>1, ViewOfUploads, ViewOfBucket
<1>6. storeBar[b.name].versioning \/ storeBar[b.name].objects[row.name] = {}
  BY <1>5 DEF Uploaded
<1>7. uuid \in Nat /\ uuid < uuid' /\ uuid' \in Nat /\ uuid <= uuid'
  OBVIOUS
<1>8. Abstract!Put(b.name, row.name, row.size)
  BY ONLY <1>4, <1>5, <1>6, <1>7 DEF Abstract!Put
<1>9. QED
  BY ONLY <1>1, <1>5, <1>7, <1>8 DEF Abstract!Next, Abstract!Operation

\* ... deleting a row a Delete, unless it is gone already ...
LEMMA DropIsDelete ==
  ASSUME TypeOK, BucketNames, OneRowPerId, FileIds, UNCHANGED <<buckets, uuid>>,
         NEW id, DropFile(id)
  PROVE  Abstract!Next
<1> USE DEF TypeOK, StoreTypeOK
<1>0. uuid' \in Nat /\ uuid <= uuid'
  OBVIOUS
<1>1. CASE \E row \in files, b \in buckets : row.id = id /\ row.bucket = b.id
  <2>1. PICK row \in files, b \in buckets : row.id = id /\ row.bucket = b.id
    BY <1>1
  <2>2. files' = files \ {row} /\ row.name \in Keys
    BY <2>1 DEF DropFile, FileIds, FileRows
  <2> DEFINE upload == [time |-> row.id, size |-> row.size]
             uploads == Uploaded(b, row.name) \ {upload}
  <2>3. Uploaded(b, row.name)' = uploads /\ upload \in Uploaded(b, row.name)
    BY <2>1, <2>2 DEF Uploaded, RowsOf, FileIds
  <2>4. ASSUME NEW c \in buckets, NEW key \in Keys, c # b \/ key # row.name
        PROVE  Uploaded(c, key)' = Uploaded(c, key)
    BY <2>1, <2>2, <2>4 DEF Uploaded, RowsOf, OneRowPerId
  <2>5. storeBar' = [storeBar EXCEPT ![b.name].objects[row.name] = uploads]
    <3> HIDE DEF uploads
    <3>1. QED
      BY <2>2, <2>3, <2>4, OneNameView
  <2>6. /\ storeBar[b.name].objects[row.name] = Uploaded(b, row.name)
        /\ b.name \in DOMAIN storeBar
    BY <2>2, ViewOfUploads, ViewOfBucket
  <2>7. Abstract!Delete(b.name, row.name, upload)
    BY ONLY <2>5, <2>6 DEF Abstract!Delete
  <2>8. QED
    BY ONLY <1>0, <2>2, <2>3, <2>6, <2>7 DEF Abstract!Next, Abstract!Operation
<1>2. CASE ~\E row \in files, b \in buckets : row.id = id /\ row.bucket = b.id
  <2>1. \A b \in buckets, key \in Keys : Uploaded(b, key)' = Uploaded(b, key)
    BY <1>2 DEF Uploaded, RowsOf, DropFile
  <2>2. storeBar' = storeBar
    BY <2>1, SameView
  <2>3. QED
    BY <1>0, <2>2 DEF Abstract!Next
<1>3. QED
  BY <1>1, <1>2

\* ... and setting is_latest nothing
LEMMA SetLatestIsUnseen ==
  ASSUME TypeOK, UNCHANGED buckets, uuid' \in Nat, uuid <= uuid',
         UNCHANGED files \/ (\E rows : \E flag \in BOOLEAN : SetLatest(rows, flag))
  PROVE  Abstract!Next
<1>1. ASSUME NEW b \in buckets, NEW key \in Keys
      PROVE  Uploaded(b, key)' = Uploaded(b, key)
  <2>1. CASE UNCHANGED files
    BY <2>1 DEF Uploaded, RowsOf
  <2>2. CASE \E rows : \E flag \in BOOLEAN : SetLatest(rows, flag)
    <3>1. PICK rows : \E flag \in BOOLEAN : SetLatest(rows, flag)
      BY <2>2
    <3>2. PICK flag \in BOOLEAN : SetLatest(rows, flag)
      BY <3>1
    <3>3. /\ \A f \in files' : \E g \in files :
               f.id = g.id /\ f.bucket = g.bucket /\ f.name = g.name /\ f.size = g.size
          /\ \A g \in files : \E f \in files' :
               f.id = g.id /\ f.bucket = g.bucket /\ f.name = g.name /\ f.size = g.size
      BY <3>2, SetLatestRows DEF TypeOK, StoreTypeOK
    <3>4. Uploaded(b, key)' \subseteq Uploaded(b, key)
      BY ONLY <3>3 DEF Uploaded, RowsOf
    <3>5. Uploaded(b, key) \subseteq Uploaded(b, key)'
      BY ONLY <3>3 DEF Uploaded, RowsOf
    <3>6. QED
      BY ONLY <3>4, <3>5
  <2>3. QED
    BY <2>1, <2>2
<1>2. storeBar' = storeBar
  BY <1>1, SameView
<1>3. QED
  BY <1>2 DEF Abstract!Next

\* Inserting a bucket is a CreateBucket, unless its name is taken ...
LEMMA InsertIsCreate ==
  ASSUME TypeOK, BucketNames, UNCHANGED files, uuid' \in Nat, uuid <= uuid',
         NEW row \in BucketRows, InsertBucket(row),
         \A f \in files : f.bucket # row.id
  PROVE  Abstract!Next
<1> USE DEF TypeOK, StoreTypeOK
<1>1. CASE \E b \in buckets : b.name = row.name
  <2>1. UNCHANGED <<buckets, files>>
    BY <1>1 DEF InsertBucket
  <2>2. storeBar' = storeBar
    BY <2>1, SameView DEF Uploaded, RowsOf
  <2>3. QED
    BY <2>2 DEF Abstract!Next
<1>2. CASE \A b \in buckets : b.name # row.name
  <2>1. buckets' = buckets \cup {row}
    BY <1>2 DEF InsertBucket
  <2> DEFINE before == {b.name : b \in buckets}
             empty == [versioning |-> row.versioning, objects |-> Abstract!Empty]
  <2>2. BucketNames'
    BY <1>2, <2>1 DEF BucketNames
  <2>3. DOMAIN storeBar = before /\ DOMAIN storeBar' = before \cup {row.name}
    BY <2>1 DEF storeBar
  <2>4. storeBar'[row.name] = empty
    <3>1. (CHOOSE b \in buckets : b.name = row.name)' = row
      BY <2>1, <2>2 DEF BucketNames
    <3>2. storeBar'[row.name] = BucketView(row)'
      BY <2>1, <3>1 DEF storeBar, BucketView, Uploaded
    <3>3. \A key \in Keys : Uploaded(row, key)' = {}
      BY DEF Uploaded, RowsOf
    <3>4. QED
      BY <3>2, <3>3 DEF BucketView, Abstract!Empty
  <2>5. ASSUME NEW b \in buckets
        PROVE  storeBar'[b.name] = storeBar[b.name]
    <3>1. (CHOOSE c \in buckets : c.name = b.name)' = b
      BY <2>1, <2>2 DEF BucketNames
    <3>2. storeBar'[b.name] = BucketView(b)'
      BY <2>1, <3>1 DEF storeBar, BucketView, Uploaded
    <3>3. BucketView(b)' = BucketView(b)
      BY DEF BucketView, Uploaded, RowsOf
    <3>4. QED
      BY <3>2, <3>3, ViewOfBucket
  <2>6. storeBar' = [n \in before \cup {row.name} |->
                       IF n = row.name THEN empty ELSE storeBar[n]]
    <3>1. storeBar' = [n \in before \cup {row.name} |-> storeBar'[n]]
      <4>1. storeBar' = [n \in {b.name : b \in buckets'} |->
                           BucketView(CHOOSE b \in buckets : b.name = n)']
        BY DEF storeBar
      <4>2. {b.name : b \in buckets'} = before \cup {row.name}
        BY <2>1
      <4>3. QED
        BY ONLY <4>1, <4>2
    <3>2. \A n \in before \cup {row.name} :
            storeBar'[n] = IF n = row.name THEN empty ELSE storeBar[n]
      BY <1>2, <2>4, <2>5
    <3>3. QED
      BY ONLY <3>1, <3>2
  <2>7. row.name \notin DOMAIN storeBar /\ row.name \in Names /\ row.versioning \in BOOLEAN
    BY <1>2, <2>3 DEF BucketRows
  <2>8. Abstract!CreateBucket(row.name, row.versioning)
    BY ONLY <2>3, <2>6, <2>7 DEF Abstract!CreateBucket
  <2>9. QED
    BY <2>7, <2>8 DEF Abstract!Next, Abstract!Operation
<1>3. QED
  BY <1>1, <1>2

\* ... and deleting an empty one a DeleteBucket, unless it is gone already
LEMMA DropIsDeleteBucket ==
  ASSUME TypeOK, BucketNames, OneRowPerId, UNCHANGED uuid, NEW id, DropBucket(id),
         \A f \in files : f.bucket # id
  PROVE  Abstract!Next
<1> USE DEF TypeOK, StoreTypeOK
<1>0. uuid' \in Nat /\ uuid <= uuid' /\ UNCHANGED files
  BY DEF DropBucket
<1>1. CASE \E row \in buckets : row.id = id
  <2>1. PICK row \in buckets : row.id = id
    BY <1>1
  <2>2. buckets' = buckets \ {row}
    BY <2>1 DEF DropBucket, OneRowPerId
  <2> DEFINE before == {b.name : b \in buckets}
  <2>3. BucketNames' /\ {b.name : b \in buckets'} = before \ {row.name}
    BY <2>1, <2>2 DEF BucketNames
  <2>4. DOMAIN storeBar = before
    BY DEF storeBar
  <2>5. storeBar[row.name].objects = Abstract!Empty
    <3>1. \A key \in Keys : Uploaded(row, key) = {}
      BY <2>1 DEF Uploaded, RowsOf
    <3>2. storeBar[row.name] = BucketView(row)
      BY ViewOfBucket
    <3>3. QED
      BY <3>1, <3>2 DEF BucketView, Abstract!Empty
  <2>6. ASSUME NEW b \in buckets'
        PROVE  storeBar'[b.name] = storeBar[b.name]
    <3>1. (CHOOSE c \in buckets : c.name = b.name)' = b
      BY <2>3 DEF BucketNames
    <3>2. storeBar'[b.name] = BucketView(b)'
      BY <3>1 DEF storeBar, BucketView, Uploaded
    <3>3. BucketView(b)' = BucketView(b) /\ b \in buckets
      BY <1>0, <2>2 DEF BucketView, Uploaded, RowsOf
    <3>4. QED
      BY <3>2, <3>3, ViewOfBucket
  <2>7. storeBar' = [n \in before \ {row.name} |-> storeBar[n]]
    <3> DEFINE after == {b.name : b \in buckets'}
    <3>0. after = before \ {row.name}
      BY ONLY <2>3
    <3>1. storeBar' = [n \in before \ {row.name} |-> storeBar'[n]]
      <4>1. storeBar' = [n \in after |-> BucketView(CHOOSE b \in buckets : b.name = n)']
        BY DEF storeBar
      <4>2. storeBar' = [n \in after |-> storeBar'[n]]
        BY ONLY <4>1
      <4> HIDE DEF after, before
      <4>3. QED
        BY ONLY <3>0, <4>2
    <3>2. \A n \in before \ {row.name} : storeBar'[n] = storeBar[n]
      BY <3>0, <2>6
    <3>3. QED
      BY ONLY <3>1, <3>2
  <2>8. Abstract!DeleteBucket(row.name) /\ row.name \in DOMAIN storeBar
    BY ONLY <2>1, <2>4, <2>5, <2>7 DEF Abstract!DeleteBucket
  <2>9. QED
    BY <1>0, <2>8 DEF Abstract!Next, Abstract!Operation
<1>2. CASE \A row \in buckets : row.id # id
  <2>1. UNCHANGED <<buckets, files>>
    BY <1>0, <1>2 DEF DropBucket
  <2>2. storeBar' = storeBar
    BY <2>1, SameView DEF Uploaded, RowsOf
  <2>3. QED
    BY <1>0, <2>2 DEF Abstract!Next
<1>3. QED
  BY <1>1, <1>2

-----------------------------------------------------------------------------
(* The handlers, step by step *)

\* A step that changes neither buckets nor files, but may draw an id
LEMMA UnseenStep ==
  ASSUME TypeOK, TypeOK', UNCHANGED <<buckets, files>>, uuid <= uuid'
  PROVE  Abstract!Next
  BY SetLatestIsUnseen DEF TypeOK, StoreTypeOK

\* What the handlers must have found out before they write: that a name is
\* free, and that a bucket is empty
Found ==
  /\ BucketNames
  /\ FileIds
  /\ \A u \in Uploaders, b \in buckets :
       up[u].at = "insert" /\ b = up[u].bucket /\ ~b.versioning =>
         RowsOf(b.id, up[u].key) = {}
  /\ \A x \in Droppers : drop[x].at = "delete" => FilesIn(drop[x].bucket) = {}

\* Then each of their steps is one operation or none
LEMMA StepIsOperation ==
  ASSUME TypeOK, TypeOK', VersionedInv, Found, Next
  PROVE  Abstract!Next
<1> USE DEF TypeOK, StoreTypeOK, storeVars, Found
<1>1. BucketNames /\ FileIds /\ OneRowPerId /\ uuid \in Nat /\ uuid' \in Nat
  BY DEF VersionedInv
<1>2. ASSUME NEW u \in Uploaders, UploadStep(u)
      PROVE  Abstract!Next
  <2>1. CASE InsertRow(u)
    <3> DEFINE row == [id |-> uuid, bucket |-> up[u].bucket.id, name |-> up[u].key,
                       version |-> up[u].version, latest |-> TRUE,
                       size |-> up[u].size]
    <3>1. /\ up[u] \in Uploads /\ up[u].at = "insert" /\ InsertFile(row)
          /\ uuid' = uuid + 1 /\ UNCHANGED buckets
      BY <2>1 DEF InsertRow, RequestsTypeOK, Idle
    <3>2. up[u].bucket.id \in Nat /\ up[u].key \in Keys /\ up[u].version \in Nat
          /\ up[u].size \in Sizes
      BY <3>1 DEF Uploads, BucketRows
    <3>3. row \in FileRows
      BY ONLY <1>1, <3>2 DEF FileRows
    <3>4. row.id = uuid /\ row.bucket = up[u].bucket.id /\ row.name = up[u].key
      OBVIOUS
    <3> HIDE DEF row
    <3>5. CASE \E b \in buckets : b.id = up[u].bucket.id
      <4>1. PICK b \in buckets : b.id = up[u].bucket.id
        BY <3>5
      <4>2. b = up[u].bucket
        BY <3>1, <4>1 DEF VersionedInv, OneRowPerId, Idle
      <4>3. b.versioning \/ RowsOf(b.id, row.name) = {}
        BY <3>1, <3>4, <4>2
      <4>4. files' = files \cup {row}
        BY <3>1, <3>4, <4>1 DEF InsertFile
      <4>5. QED
        BY <1>1, <3>1, <3>3, <3>4, <4>1, <4>3, <4>4, InsertIsPut
    <3>6. CASE ~\E b \in buckets : b.id = up[u].bucket.id
      BY <3>1, <3>4, <3>6, UnseenStep DEF InsertFile
    <3>7. QED
      BY <3>5, <3>6
  <2>2. CASE DemoteLatest(u)
    <3>1. UNCHANGED buckets /\ uuid' = uuid + 1
      BY <2>2 DEF DemoteLatest
    <3>2. SetLatest(LatestOf(u), FALSE) \/ UNCHANGED files
      BY <2>2, Zenon DEF DemoteLatest
    <3>3. uuid <= uuid'
      BY ONLY <1>1, <3>1
    <3>4. QED
      BY <1>1, <3>1, <3>2, <3>3, SetLatestIsUnseen
  <2>3. CASE Upload(u) \/ CheckFree(u) \/ SaveFile(u) \/ UploadAborts(u)
    <3>1. UNCHANGED <<buckets, files>> /\ uuid <= uuid'
      BY <2>3 DEF Upload, CheckFree, SaveFile, UploadAborts
    <3>2. QED
      BY <3>1, UnseenStep
  <2>4. QED
    BY <1>2, <2>1, <2>2, <2>3 DEF UploadStep
<1>3. ASSUME NEW d \in Deleters, DeleteStep(d)
      PROVE  Abstract!Next
  <2>1. CASE DeleteRow(d)
    <3>1. DropFile(del[d].row.id) /\ UNCHANGED <<buckets, uuid>>
      BY <2>1 DEF DeleteRow
    <3>2. QED
      BY <1>1, <3>1, DropIsDelete
  <2>2. CASE PromoteNewest(d)
    <3>1. UNCHANGED <<buckets, uuid>>
      BY <2>2 DEF PromoteNewest
    <3>2. \/ SetLatest({f \in files : f.id = del[d].target}, TRUE)
          \/ UNCHANGED files
      BY <2>2, Zenon DEF PromoteNewest
    <3>3. uuid <= uuid'
      BY ONLY <1>1, <3>1
    <3>4. QED
      BY <1>1, <3>1, <3>2, <3>3, SetLatestIsUnseen
  <2>3. CASE Delete(d) \/ RemoveFile(d) \/ FindNewest(d) \/ DeleteAborts(d)
    <3>1. UNCHANGED <<buckets, files, uuid>>
      BY <2>3 DEF Delete, RemoveFile, FindNewest, DeleteAborts
    <3>2. QED
      BY <3>1, UnseenStep
  <2>4. QED
    BY <1>3, <2>1, <2>2, <2>3 DEF DeleteStep
<1>4. ASSUME NEW c \in Creators, CreateStep(c)
      PROVE  Abstract!Next
  <2>1. CASE InsertBucketRow(c)
    <3> DEFINE row == [id |-> uuid, name |-> mk[c].name, owner |-> mk[c].owner,
                       versioning |-> mk[c].versioning]
    <3>1. /\ mk[c] \in Creates /\ InsertBucket(row) /\ uuid' = uuid + 1
          /\ UNCHANGED files
      BY <2>1 DEF InsertBucketRow, RequestsTypeOK, Idle
    <3>2. row \in BucketRows /\ row.id = uuid
      BY <1>1, <3>1 DEF Creates, BucketRows
    <3> HIDE DEF row
    <3>3. \A f \in files : f.bucket # row.id
      BY <1>1, <3>2 DEF VersionedInv, Drawn, FileRows
    <3>4. QED
      BY <1>1, <3>1, <3>2, <3>3, InsertIsCreate
  <2>2. CASE Create(c) \/ CreateAborts(c)
    <3>1. UNCHANGED <<buckets, files, uuid>>
      BY <2>2 DEF Create, CreateAborts
    <3>2. QED
      BY <3>1, UnseenStep
  <2>3. QED
    BY <1>4, <2>1, <2>2 DEF CreateStep
<1>5. ASSUME NEW x \in Droppers, DropStep(x)
      PROVE  Abstract!Next
  <2>1. CASE DeleteBucketRow(x)
    <3>1. DropBucket(drop[x].bucket.id) /\ UNCHANGED uuid
      BY <2>1 DEF DeleteBucketRow
    <3>2. \A f \in files : f.bucket # drop[x].bucket.id
      BY <2>1 DEF DeleteBucketRow, FilesIn
    <3>3. QED
      BY <1>1, <3>1, <3>2, DropIsDeleteBucket
  <2>2. CASE Drop(x) \/ CountFiles(x) \/ DropAborts(x)
    <3>1. UNCHANGED <<buckets, files, uuid>>
      BY <2>2 DEF Drop, CountFiles, DropAborts
    <3>2. QED
      BY <3>1, UnseenStep
  <2>3. QED
    BY <1>5, <2>1, <2>2 DEF DropStep
<1>6. QED
  BY <1>2, <1>3, <1>4, <1>5 DEF Next

-----------------------------------------------------------------------------
(* The theorems *)

\* At the start there are no buckets
LEMMA InitRefines ==
  ASSUME Init
  PROVE  Abstract!Init
<1>1. buckets = {} /\ uuid \in Nat
  BY DEF Init, StoreInit
<1>2. storeBar = [name \in {} |-> [versioning |-> FALSE, objects |-> Abstract!Empty]]
  <2>1. {b.name : b \in buckets} = {}
    BY <1>1
  <2>2. QED
    BY ONLY <2>1 DEF storeBar
<1>3. QED
  BY <1>1, <1>2 DEF Abstract!Init

\* A step that changes nothing changes nothing that is seen
LEMMA StutterRefines ==
  ASSUME TypeOK, UNCHANGED vars
  PROVE  Abstract!Next
<1>1. UNCHANGED <<buckets, files, uuid>> /\ uuid \in Nat
  BY DEF vars, TypeOK, StoreTypeOK
<1>2. storeBar' = storeBar
  BY <1>1, SameView DEF Uploaded, RowsOf
<1>3. QED
  BY <1>1, <1>2 DEF Abstract!Next

\* File ids are drawn once, however the requests overlap
LEMMA FileIdsKept ==
  ASSUME TypeOK, TypeOK', FileIds, Next
  PROVE  FileIds'
<1> USE DEF TypeOK, StoreTypeOK, storeVars
<1>0. uuid \in Nat /\ uuid' \in Nat
  OBVIOUS
<1>1. CASE \E u \in Uploaders : InsertRow(u)
  <2>1. PICK u \in Uploaders : InsertRow(u)
    BY <1>1
  <2> DEFINE row == [id |-> uuid, bucket |-> up[u].bucket.id, name |-> up[u].key,
                     version |-> up[u].version, latest |-> TRUE,
                     size |-> up[u].size]
  <2>2. InsertFile(row) /\ uuid' = uuid + 1
    BY <2>1 DEF InsertRow
  <2>3. row.id = uuid
    OBVIOUS
  <2> HIDE DEF row
  <2>4. files' \subseteq files \cup {row}
    BY <2>2 DEF InsertFile
  <2>5. QED
    BY ONLY <1>0, <2>2, <2>3, <2>4, FileIds, files \subseteq FileRows DEF FileIds, FileRows
<1>2. CASE \/ \E u \in Uploaders : DemoteLatest(u)
           \/ \E d \in Deleters : PromoteNewest(d)
  <2>0. uuid' = uuid + 1 \/ uuid' = uuid
    BY <1>2 DEF DemoteLatest, PromoteNewest
  <2>1. uuid <= uuid'
    BY ONLY <1>0, <2>0
  <2>2. \/ UNCHANGED files
        \/ \E rows : \E flag \in BOOLEAN : SetLatest(rows, flag)
    <3>1. CASE \E u \in Uploaders : DemoteLatest(u)
      BY <3>1, FALSE \in BOOLEAN, Zenon DEF DemoteLatest
    <3>2. CASE \E d \in Deleters : PromoteNewest(d)
      BY <3>2, TRUE \in BOOLEAN, Zenon DEF PromoteNewest
    <3>3. QED
      BY <1>2, <3>1, <3>2
  <2>3. CASE UNCHANGED files
    BY <2>1, <2>3 DEF FileIds, FileRows
  <2>4. CASE \E rows : \E flag \in BOOLEAN : SetLatest(rows, flag)
    <3>1. PICK rows : \E flag \in BOOLEAN : SetLatest(rows, flag)
      BY <2>4
    <3>2. PICK flag \in BOOLEAN : SetLatest(rows, flag)
      BY <3>1
    <3> DEFINE Updated(g) == IF g \in rows THEN [g EXCEPT !.latest = flag] ELSE g
    <3>3. \A f \in files' : \E g \in files : f = Updated(g) /\ f.id = g.id
      BY <3>2, SetLatestRows
    <3> HIDE DEF Updated
    <3>4. QED
      BY <2>1, <3>3 DEF FileIds, FileRows
  <2>5. QED
    BY <2>2, <2>3, <2>4
<1>3. CASE \/ \E u \in Uploaders : \/ Upload(u) \/ CheckFree(u) \/ SaveFile(u)
                                   \/ UploadAborts(u)
           \/ \E d \in Deleters : \/ Delete(d) \/ RemoveFile(d) \/ DeleteRow(d)
                                  \/ FindNewest(d) \/ DeleteAborts(d)
           \/ \E c \in Creators : CreateStep(c)
           \/ \E x \in Droppers : DropStep(x)
  <2>1. files' \subseteq files /\ (uuid' = uuid + 1 \/ uuid' = uuid)
    <3>1. CASE \E u \in Uploaders : \/ Upload(u) \/ CheckFree(u) \/ SaveFile(u)
                                    \/ UploadAborts(u)
      BY <3>1 DEF Upload, CheckFree, SaveFile, UploadAborts
    <3>2. CASE \E d \in Deleters : \/ Delete(d) \/ RemoveFile(d) \/ DeleteRow(d)
                                   \/ FindNewest(d) \/ DeleteAborts(d)
      BY <3>2 DEF Delete, RemoveFile, DeleteRow, DropFile, FindNewest, DeleteAborts
    <3>3. CASE \E c \in Creators : CreateStep(c)
      BY <3>3 DEF CreateStep, Create, InsertBucketRow, CreateAborts
    <3>4. CASE \E x \in Droppers : DropStep(x)
      BY <3>4 DEF DropStep, Drop, CountFiles, DeleteBucketRow, DropBucket, DropAborts
    <3>5. QED
      BY <1>3, <3>1, <3>2, <3>3, <3>4
  <2>2. uuid <= uuid'
    BY ONLY <1>0, <2>1
  <2>3. QED
    BY <2>1, <2>2 DEF FileIds, FileRows
<1>4. QED
  BY <1>1, <1>2, <1>3 DEF Next, UploadStep, DeleteStep

\* The handlers implement ObjectSpec while uploads do not overlap each other,
\* wherever any of them stops, if no bucket is deleted
THEOREM RefinesWhileUploadsDoNotOverlap ==
  ASSUME SoleUploader, ~Ignored, Droppers = {}
  PROVE  Spec => Refines
<1>1. Init => FileIds
  BY DEF Init, StoreInit, FileIds
<1>2. TypeOK /\ TypeOK' /\ FileIds /\ [Next]_vars => FileIds'
  BY FileIdsKept DEF vars, FileIds
<1>3. Spec => [](TypeOK /\ VersionedInv /\ PlainInv /\ FileIds)
  BY <1>1, <1>2, PlainInvariant, PTL DEF Spec
<1>4. VersionedInv /\ PlainInv /\ FileIds => Found
  BY DEF PlainInv, NameFree, Plain, Idle, RowsOf, Found
<1>5. TypeOK /\ TypeOK' /\ VersionedInv /\ Found /\ [Next]_vars
        => [Abstract!Next]_<<storeBar, uuid>>
  BY StepIsOperation, StutterRefines
<1>6. Init => Abstract!Init
  BY InitRefines
<1>7. QED
  BY <1>3, <1>4, <1>5, <1>6, PTL DEF Spec, Refines, Abstract!Spec

\* ... and with one request at a time, whatever it is
THEOREM RefinesOneByOne ==
  ASSUME OneByOne
  PROVE  Spec => Refines
<1>1. SerialInv => Found
  <2> SUFFICES ASSUME SerialInv PROVE Found
    OBVIOUS
  <2>1. \A u \in Uploaders, b \in buckets :
          up[u].at = "insert" /\ b = up[u].bucket /\ ~b.versioning =>
            RowsOf(b.id, up[u].key) = {}
    BY DEF SerialInv, Steady, Progress, UploadAlone, Plain, Idle
  <2>2. \A x \in Droppers : drop[x].at = "delete" => FilesIn(drop[x].bucket) = {}
    BY DEF SerialInv, Steady, Progress, DropAlone, Idle
  <2>3. QED
    BY <2>1, <2>2 DEF SerialInv, Steady, Rows, Found
<1>2. TypeOK /\ TypeOK' /\ VersionedInv /\ Found /\ [Next]_vars
        => [Abstract!Next]_<<storeBar, uuid>>
  BY StepIsOperation, StutterRefines
<1>3. Init => Abstract!Init
  BY InitRefines
<1>4. QED
  BY <1>1, <1>2, <1>3, SerialInvariant, PTL DEF Spec, Refines, Abstract!Spec
=============================================================================
