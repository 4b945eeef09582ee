---------------------------- MODULE MCTaskAgent ----------------------------
(* A small instance of TaskAgent: keys, questions and principals are interchangeable. *)
EXTENDS TaskAgent, TLC

Symmetric == Permutations(Keys) \cup Permutations(Questions) \cup Permutations(Principals)
=============================================================================
