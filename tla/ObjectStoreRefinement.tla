----------------------- MODULE ObjectStoreRefinement -------------------------
(* The handlers implement ObjectSpec.                                       *)
EXTENDS ObjectStore, StoreView

\* Every step of a handler is one abstract operation or a stutter: an aborted
\* request leaves no trace, and no step has the effect of half an operation
Refines == Abstract!Spec
=============================================================================
