-------------------------- MODULE MCAdministrators --------------------------
(* A small instance of Administrators. *)
EXTENDS Administrators, TLC

Symmetric == Permutations(Users) \cup Permutations(Sessions) \cup Permutations(Txns)
=============================================================================
