----------------------------- MODULE MCAccounts ------------------------------
(* Accounts for TLC: users and requests are interchangeable.                *)
EXTENDS Accounts, TLC

Symmetry == Permutations(Emails) \cup Permutations(Requests)
=============================================================================
