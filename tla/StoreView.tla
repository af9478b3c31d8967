------------------------------ MODULE StoreView -------------------------------
(***************************************************************************)
(* The store as a client sees it, a function of its tables: the refinement *)
(* mapping to ObjectSpec.  An operation takes effect when its row is       *)
(* inserted or deleted; the flags is_latest and the files on disk are not  *)
(* part of the abstract state.                                             *)
(***************************************************************************)
EXTENDS Store

Uploaded(bucket, key) ==
  {[time |-> f.id, size |-> f.size] : f \in RowsOf(bucket.id, key)}

BucketView(bucket) ==
  [versioning |-> bucket.versioning,
   objects    |-> [key \in Keys |-> Uploaded(bucket, key)]]

storeBar ==
  [name \in {b.name : b \in buckets} |->
     BucketView(CHOOSE b \in buckets : b.name = name)]

Abstract == INSTANCE ObjectSpec WITH store <- storeBar, clock <- uuid
=============================================================================
