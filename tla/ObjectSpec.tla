----------------------------- MODULE ObjectSpec ------------------------------
(***************************************************************************)
(* What the bucket and file handlers promise together: buckets that hold,  *)
(* for every key, its uploads with the time of each, and operations that   *)
(* take effect at one instant or not at all.                               *)
(***************************************************************************)
EXTENDS Naturals

CONSTANTS Names, Keys, Sizes

VARIABLES
  store,  \* bucket name -> its versioning and, for every key, the uploads
  clock   \* the time, which no two uploads share

Empty == [key \in Keys |-> {}]

Init ==
  /\ store = [name \in {} |-> [versioning |-> FALSE, objects |-> Empty]]
  /\ clock \in Nat

CreateBucket(name, versioning) ==
  /\ name \notin DOMAIN store
  /\ store' = [n \in DOMAIN store \cup {name} |->
                 IF n = name THEN [versioning |-> versioning, objects |-> Empty]
                             ELSE store[n]]

DeleteBucket(name) ==
  /\ store[name].objects = Empty
  /\ store' = [n \in DOMAIN store \ {name} |-> store[n]]

\* Without versioning an upload never replaces an object
Put(name, key, size) ==
  /\ store[name].versioning \/ store[name].objects[key] = {}
  /\ clock < clock'
  /\ store' = [store EXCEPT ![name].objects[key] =
                 @ \cup {[time |-> clock, size |-> size]}]

Delete(name, key, upload) ==
  store' = [store EXCEPT ![name].objects[key] = @ \ {upload}]

Operation ==
  \/ \E name \in Names, versioning \in BOOLEAN : CreateBucket(name, versioning)
  \/ \E name \in DOMAIN store :
       \/ DeleteBucket(name)
       \/ \E key \in Keys :
            \/ \E size \in Sizes : Put(name, key, size)
            \/ \E upload \in store[name].objects[key] : Delete(name, key, upload)

\* Time passes
Next ==
  /\ clock' \in Nat /\ clock <= clock'
  /\ Operation \/ UNCHANGED store

Spec == Init /\ [][Next]_<<store, clock>>
=============================================================================
