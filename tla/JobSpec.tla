------------------------------- MODULE JobSpec --------------------------------
(***************************************************************************)
(* What a background task promises: the files it is asked for are dealt    *)
(* with one by one, none has to be dealt with again, and a task that was   *)
(* accepted ends - as done only if nothing is left.                        *)
(***************************************************************************)
CONSTANT Items

VARIABLES
  todo,   \* the files still to be dealt with
  state   \* of the task

Init == todo = {} /\ state = "none"

Accept ==
  /\ state = "none"
  /\ state' = "accepted"
  /\ todo' \in SUBSET Items

DealWith(item) == todo' = todo \ {item} /\ UNCHANGED state

Done ==
  /\ state = "accepted" /\ todo = {}
  /\ state' = "done" /\ UNCHANGED todo

GiveUp ==
  /\ state = "accepted"
  /\ state' = "failed" /\ UNCHANGED todo

Next == Accept \/ (\E item \in todo : DealWith(item)) \/ Done \/ GiveUp

\* What it never does ...
Safety == Init /\ [][Next]_<<todo, state>>

\* ... and what it does in the end
Spec == Safety /\ (state = "accepted" ~> state \in {"done", "failed"})
=============================================================================
