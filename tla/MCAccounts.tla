---------------------------- MODULE MCAccounts ----------------------------
(* Accounts on a small instance: two requests at once. *)
EXTENDS Accounts, TLC

Symmetry == Permutations(Reqs) \cup Permutations(Names)
===========================================================================
