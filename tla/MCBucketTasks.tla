---------------------------- MODULE MCBucketTasks ----------------------------
(* BucketTasks for TLC: what the store may hold when a task is asked for.   *)
EXTENDS BucketTasks

CONSTANTS a, b, k1, k2, s1, s2, user1, user2

FileRow(id, key, version, latest, size) ==
  [id |-> id, bucket |-> 1, name |-> key, version |-> version,
   latest |-> latest, size |-> size]

\* Bucket a with two keys ...
PlainStore ==
  [buckets |-> {[id |-> 1, name |-> a, owner |-> user1, versioning |-> FALSE]},
   files |-> {FileRow(3, k1, NoVersion, TRUE, s1), FileRow(4, k2, NoVersion, TRUE, s2)},
   disk |-> [p \in {<<a, k1, NoVersion>>, <<a, k2, NoVersion>>} |->
               IF p[2] = k1 THEN s1 ELSE s2],
   uuid |-> 5]

\* ... and b, empty, of the same user or of another
WithDest(store, owner) ==
  [store EXCEPT !.buckets = @ \cup {[id |-> 2, name |-> b, owner |-> owner,
                                     versioning |-> FALSE]}]

\* ... with a row whose file is gone: a delete failed between the two
BrokenStore ==
  [PlainStore EXCEPT !.disk = [p \in {<<a, k1, NoVersion>>} |-> s1]]

\* Bucket a with two versions of a key
VersionedStore ==
  [buckets |-> {[id |-> 1, name |-> a, owner |-> user1, versioning |-> TRUE]},
   files |-> {FileRow(4, k1, 2, FALSE, s1), FileRow(5, k1, 3, TRUE, s2)},
   disk |-> [p \in {<<a, k1, 2>>, <<a, k1, 3>>} |-> IF p[3] = 2 THEN s1 ELSE s2],
   uuid |-> 6]

AllStores ==
  {PlainStore, WithDest(PlainStore, user1), WithDest(PlainStore, user2),
   BrokenStore, VersionedStore}

OneStore == {PlainStore}

\* Bucket a without versioning, and b with it, of one user
VersionedDest ==
  [PlainStore EXCEPT !.buckets = @ \cup {[id |-> 2, name |-> b, owner |-> user1,
                                          versioning |-> TRUE]}]

OneVersioned == {VersionedStore}
OneVersionedDest == {VersionedDest}

Modes == {{}, {"stop", "shutdown", "torn"}, {"stop", "timeout"},
          {"stop", "shutdown", "drop"}}
NoFaults == {{}}
=============================================================================
